----------------------------- MODULE ApiServer -----------------------------
(***************************************************************************)
(* Which server the agent talks to, with which headers, and in which       *)
(* region it is: callers of GetServerHost, GetRegionId and HttpGet share   *)
(* what the providers (an executable, the registration, the network)       *)
(* answered.  A certificate that is refused is not looked up again: the    *)
(* error that names it is not the empty one it is compared with.           *)
(***************************************************************************)
EXTENDS Naturals, Sequences

CONSTANTS
    Callers,
    Worlds,         \* what the machine may be like, see WorldType
    Here,           \* the region in which the machine is
    None,
    MaxHitches,     \* bounds requests that fail although the server is there, and a failing executable
    MaxRestarts

VARIABLES
    site, regionFile,                            \* the machine, and the file region-id ("" is empty)
    domain, selected, region, general,      \* g_domainId, the provider, _regionId, GeneralProvider.regionId
    category, path, provisioned, pool, instance,
    op, pc, stack, found,                   \* of each caller
    saving,                                 \* goroutines that write the file
    runs,                                   \* of the executable
    sent,                                   \* the server of the last request, and who gave its headers
    hitches, restarts
serverVars == <<site, regionFile, domain, selected, region, general, category, path,
                provisioned, pool, instance, op, pc, stack, found, saving, runs, sent, hitches, restarts>>

Providers == {"exe", "hybrid", "general"}
Registered == "registered"      \* the region of the registration
Given == "given"                \* what the executable says
Named == "named"                \* the server that the environment names
Regions == (UNION {w.reachable : w \in Worlds}) \cup {w.file : w \in Worlds}
             \cup {Here, Registered, Given, Named, None, ""}

WorldType ==
    [hosted : BOOLEAN,          \* ALIYUN_ASSIST_SERVER_HOST is set
     hybrid : BOOLEAN,          \* IsHybrid
     vpc : BOOLEAN,             \* the metadata service answers; else the well-known servers do
     exe : BOOLEAN,             \* there is an executable
     offers : SUBSET {"domain", "region", "ca"},
     file : STRING,
     reachable : SUBSET STRING] \* the regions whose server is reached from here

ApiAssumption ==
    /\ Worlds \subseteq WorldType /\ \A w \in Worlds : Here \in w.reachable
    /\ None \notin STRING /\ {Here, Registered, Given, Named, ""} \cup Providers \subseteq STRING
    /\ MaxHitches \in Nat /\ MaxRestarts \in Nat

answered == <<domain, selected, region, general, category>>
provision == <<path, provisioned, runs>>
machine == <<site, regionFile, saving, restarts>>
requests == <<pool, instance, sent>>
callers == <<op, pc, stack, found>>

ServerInit ==
    /\ site \in Worlds /\ regionFile = site.file
    /\ domain = None /\ selected = None /\ region = None /\ general = None
    /\ category = "unknown" /\ path = "unknown" /\ provisioned = FALSE /\ runs = 0
    /\ pool = None /\ instance = None /\ sent = None /\ saving = {}
    /\ op = [p \in Callers |-> "none"] /\ pc = [p \in Callers |-> "idle"]
    /\ stack = [p \in Callers |-> <<>>] /\ found = [p \in Callers |-> None]
    /\ hitches = 0 /\ restarts = 0

IsAt(p, label) == pc[p] = label
Jumps(p, from, to) == IsAt(p, from) /\ pc' = [pc EXCEPT ![p] = to] /\ UNCHANGED <<op, stack>>
Calls(p, from, callee, back) ==
    /\ IsAt(p, from)
    /\ pc' = [pc EXCEPT ![p] = callee]
    /\ stack' = [stack EXCEPT ![p] = <<back>> \o @]
    /\ UNCHANGED op
CallReturns(p, from) ==
    /\ IsAt(p, from)
    /\ pc' = [pc EXCEPT ![p] = Head(stack[p])]
    /\ stack' = [stack EXCEPT ![p] = Tail(@)]
    /\ UNCHANGED op
\* The call ends and gives its lock back.
CallerEnds(p) ==
    /\ pc' = [pc EXCEPT ![p] = "idle"] /\ op' = [op EXCEPT ![p] = "none"]
    /\ found' = [found EXCEPT ![p] = None]
    /\ UNCHANGED stack
NoHitch == UNCHANGED hitches
Hitch == hitches < MaxHitches /\ hitches' = hitches + 1

\* Who holds _apiServerProviderLock for writing, and for reading; rwLock of the
\* executable's provider; and the Once of the transport.
SelectsProvider(p) == op[p] = "host" /\ pc[p] \notin {"peek", "write"}
Selecting == \E p \in Callers : SelectsProvider(p)
Reading == \E p \in Callers : IsAt(p, "instance")
Provisioning == \E p \in Callers : IsAt(p, "provision")
Making == \E p \in Callers : IsAt(p, "pool") \/ \E i \in DOMAIN stack[p] : stack[p][i] = "pool"

Begins(p, call, label, back, url) ==
    /\ op[p] = "none"
    /\ found' = [found EXCEPT ![p] = url]
    /\ op' = [op EXCEPT ![p] = call]
    /\ pc' = [pc EXCEPT ![p] = label]
    /\ stack' = [stack EXCEPT ![p] = back]
    /\ UNCHANGED <<answered, provision, machine, requests, hitches>>

-----------------------------------------------------------------------------
\* ExternalExecutableProvider: each of its answers looks for the executable, twice,
\* and whoever finds that nobody has runs it.
ExePeek(p) ==
    /\ ~Provisioning
    /\ IF path = "unknown" THEN Jumps(p, "exe", "exeLock") ELSE CallReturns(p, "exe")
    /\ UNCHANGED <<answered, provision, machine, requests, found, hitches>>

(* Mutant: what was seen under the read lock is not looked at again. *)
ExeLockTrusting(p) ==
    /\ ~Provisioning
    /\ Jumps(p, "exeLock", "provision")
    /\ UNCHANGED <<answered, provision, machine, requests, found, hitches>>

ExeLock(p) ==
    /\ ~Provisioning
    /\ IF path = "unknown" THEN Jumps(p, "exeLock", "provision") ELSE CallReturns(p, "exeLock")
    /\ UNCHANGED <<answered, provision, machine, requests, found, hitches>>

Provision(p) ==
    /\ CallReturns(p, "provision")
    /\ path' = IF site.exe THEN "path" ELSE "none"
    /\ runs' = IF site.exe THEN runs + 1 ELSE runs
    /\ \/ provisioned' = site.exe /\ NoHitch
       \/ site.exe /\ UNCHANGED provisioned /\ Hitch
    /\ UNCHANGED <<answered, machine, requests, found>>

Offered(what) == IF what \in site.offers THEN Given ELSE ""

\* GetHTTPTransport and GetRootCAs: once, from the first provider that answers.
Transport(p) ==
    /\ \/ pool # None /\ CallReturns(p, "transport")
       \/ pool = None /\ ~Making /\ Calls(p, "transport", "exe", "pool")
    /\ UNCHANGED <<answered, provision, machine, requests, found, hitches>>

GetRootCAs(p) ==
    /\ CallReturns(p, "pool")
    /\ pool' = IF provisioned THEN Offered("ca") ELSE "bundled"
    /\ UNCHANGED <<answered, provision, machine, instance, sent, found, hitches>>

-----------------------------------------------------------------------------
\* GeneralProvider.ServerDomain: the region in the file, of the metadata service or
\* of a well-known server, whichever is the first whose server answers.
ReadsFile(p) ==
    /\ IF site.hosted
       THEN CallReturns(p, "general") /\ found' = [found EXCEPT ![p] = Named]
       ELSE /\ Calls(p, "general", "transport", IF regionFile = "" THEN "meta" ELSE "fileDetect")
            /\ found' = [found EXCEPT ![p] = regionFile]
    /\ UNCHANGED <<answered, provision, machine, requests, hitches>>

Stores(p, network) ==
    /\ general' = found[p]
    /\ category' = network
    /\ UNCHANGED <<domain, selected, region, provision, site, regionFile, restarts, requests, found>>
Detects(p) == found[p] \in site.reachable
Misses(p) ==
    /\ IF Detects(p) THEN Hitch ELSE NoHitch
    /\ UNCHANGED <<answered, provision, machine, requests, found>>

FileDetect(p) ==
    \/ Detects(p) /\ CallReturns(p, "fileDetect") /\ NoHitch /\ Stores(p, "vpc") /\ UNCHANGED saving
    \/ Misses(p) /\ Jumps(p, "fileDetect", "meta")

AskMeta(p) ==
    /\ \/ site.vpc /\ Jumps(p, "meta", "metaDetect") /\ NoHitch /\ found' = [found EXCEPT ![p] = Here]
       \/ /\ Jumps(p, "meta", "known") /\ UNCHANGED found
          /\ IF site.vpc THEN Hitch ELSE NoHitch
    /\ UNCHANGED <<answered, provision, machine, requests>>

MetaDetect(p) ==
    \/ /\ Detects(p) /\ CallReturns(p, "metaDetect") /\ NoHitch /\ Stores(p, "vpc")
       /\ saving' = saving \cup {<<found[p], "open">>}
    \/ Misses(p) /\ Jumps(p, "metaDetect", "known")

AskKnown(p) ==
    /\ \/ ~site.vpc /\ Jumps(p, "known", "knownDetect") /\ NoHitch /\ found' = [found EXCEPT ![p] = Here]
       \/ /\ CallReturns(p, "known") /\ found' = [found EXCEPT ![p] = None]
          /\ IF site.vpc THEN NoHitch ELSE Hitch
    /\ UNCHANGED <<answered, provision, machine, requests>>

KnownDetect(p) ==
    \/ /\ Detects(p) /\ CallReturns(p, "knownDetect") /\ NoHitch /\ Stores(p, "classic")
       /\ saving' = saving \cup {<<found[p], "open">>}
    \/ Misses(p) /\ Jumps(p, "knownDetect", "known")

\* saveRegionIdToFile, in a goroutine: the file is cut, then written.
Save(x) ==
    /\ \/ <<x, "open">> \in saving /\ regionFile' = ""
          /\ saving' = (saving \ {<<x, "open">>}) \cup {<<x, "write">>}
       \/ <<x, "write">> \in saving /\ regionFile' = x /\ saving' = saving \ {<<x, "write">>}
    /\ UNCHANGED <<site, answered, provision, requests, callers, hitches, restarts>>

-----------------------------------------------------------------------------
\* GetServerHost holds g_domainIdInitLock, GetServerDomain the lock of the providers.
GetServerHost(p) ==
    /\ domain = None /\ \A q \in Callers : op[q] # "host"
    /\ Begins(p, "host", "peek", <<>>, None)

\* The provider selected before answers again; it is asked again only if its answer
\* was empty.
Peek(p) ==
    /\ IF selected = None THEN Jumps(p, "peek", "write") /\ UNCHANGED found
       ELSE IsAt(p, "peek") /\ CallerEnds(p)
    /\ UNCHANGED <<answered, provision, machine, requests, hitches>>

Select(p) ==
    /\ ~Selecting /\ ~Reading
    /\ Calls(p, "write", "exe", "exeDomain")
    /\ UNCHANGED <<answered, provision, machine, requests, found, hitches>>

Selected(p, provider, value, network) ==
    /\ CallerEnds(p)
    /\ selected' = provider
    /\ domain' = value
    /\ category' = network
    /\ UNCHANGED <<region, general, provision, machine, requests, hitches>>

ExeDomain(p) ==
    /\ IsAt(p, "exeDomain")
    /\ IF provisioned
       THEN Selected(p, "exe", IF Offered("domain") = "" THEN None ELSE Given, category)
       ELSE /\ Jumps(p, "exeDomain", "hybridDomain")
            /\ UNCHANGED <<answered, provision, machine, requests, found, hitches>>

\* HybridModeProvider: the environment, then the files of the registration.  Which of
\* two names the server has is asked of it.
HybridDomain(p) ==
    /\ IsAt(p, "hybridDomain")
    /\ IF site.hosted THEN Selected(p, "hybrid", Named, category)
       ELSE /\ IF site.hybrid THEN Calls(p, "hybridDomain", "transport", "hybridName")
               ELSE Calls(p, "hybridDomain", "general", "generalDomain")
            /\ UNCHANGED <<answered, provision, machine, requests, found, hitches>>
HybridName(p) ==
    IsAt(p, "hybridName") /\ Selected(p, "hybrid", Registered, "hybrid")

GeneralDomain(p) ==
    /\ IsAt(p, "generalDomain")
    /\ IF found[p] # None THEN Selected(p, "general", found[p], category)
       ELSE CallerEnds(p) /\ UNCHANGED <<answered, provision, machine, requests, hitches>>

-----------------------------------------------------------------------------
\* GetRegionId holds _regionIdLock and asks the same providers.
GetRegionId(p) ==
    /\ region = None /\ \A q \in Callers : op[q] # "region"
    /\ Begins(p, "region", "exe", <<"exeRegion">>, None)

Answers(p, value) ==
    /\ CallerEnds(p)
    /\ region' = IF value = "" THEN None ELSE value
    /\ UNCHANGED <<domain, selected, general, category, provision, machine, requests, hitches>>

ExeRegion(p) ==
    /\ IsAt(p, "exeRegion")
    /\ IF provisioned THEN Answers(p, Offered("region"))
       ELSE /\ Jumps(p, "exeRegion", "hybridRegion")
            /\ UNCHANGED <<answered, provision, machine, requests, found, hitches>>
HybridRegion(p) ==
    /\ IsAt(p, "hybridRegion")
    /\ IF site.hybrid THEN Answers(p, Registered)
       ELSE /\ Jumps(p, "hybridRegion", "generalRegion")
            /\ UNCHANGED <<answered, provision, machine, requests, found, hitches>>
GeneralRegion(p) ==
    /\ IsAt(p, "generalRegion")
    /\ IF general # None THEN Answers(p, general)
       ELSE /\ Calls(p, "generalRegion", "general", "detected")
            /\ UNCHANGED <<answered, provision, machine, requests, found, hitches>>
Detected(p) ==
    IsAt(p, "detected") /\ Answers(p, IF found[p] = None THEN None ELSE general)

-----------------------------------------------------------------------------
\* HttpGet and HttpPost of a URL of the server.
Request(p) == domain # None /\ Begins(p, "request", "transport", <<"headers">>, domain)

Sends(p, by) ==
    /\ CallerEnds(p)
    /\ sent' = <<found[p], by>>
    /\ UNCHANGED <<answered, provision, machine, pool>>

\* GetExtraHTTPHeaders, of the provider that is selected.  The id of the instance is
\* asked once.
Headers(p) ==
    /\ IsAt(p, "headers") /\ ~Selecting
    /\ LET known == CASE selected = "exe" -> TRUE
                      [] selected = "hybrid" -> site.hybrid
                      [] selected = "general" -> general # None
       IN  \/ known /\ (selected = "general" => instance # None) /\ Sends(p, selected)
           \/ ~known /\ Sends(p, None)
    /\ UNCHANGED <<instance, hitches>>
AskInstance(p) ==
    /\ selected = "general" /\ general # None /\ instance = None /\ ~Selecting /\ ~Reading
    /\ Jumps(p, "headers", "instance")
    /\ UNCHANGED <<answered, provision, machine, requests, found, hitches>>
Instance(p) ==
    /\ IsAt(p, "instance")
    /\ \/ site.vpc /\ instance' = "id" /\ NoHitch
       \/ instance' = "unknown" /\ IF site.vpc THEN Hitch ELSE NoHitch
    /\ Sends(p, selected)

-----------------------------------------------------------------------------
\* deregister, by another process.
Deregister ==
    /\ site.hybrid
    /\ site' = [site EXCEPT !.hybrid = FALSE]
    /\ UNCHANGED <<regionFile, answered, provision, requests, callers, saving, hitches, restarts>>

Restart ==
    /\ restarts < MaxRestarts
    /\ restarts' = restarts + 1
    /\ domain' = None /\ selected' = None /\ region' = None /\ general' = None
    /\ category' = "unknown" /\ path' = "unknown" /\ provisioned' = FALSE /\ runs' = 0
    /\ pool' = None /\ instance' = None /\ sent' = None /\ saving' = {}
    /\ op' = [p \in Callers |-> "none"] /\ pc' = [p \in Callers |-> "idle"]
    /\ stack' = [p \in Callers |-> <<>>] /\ found' = [p \in Callers |-> None]
    /\ UNCHANGED <<site, regionFile, hitches>>

Begin(p) == GetServerHost(p) \/ GetRegionId(p) \/ Request(p)
Detection(p) ==
    ReadsFile(p) \/ FileDetect(p) \/ AskMeta(p) \/ MetaDetect(p) \/ AskKnown(p) \/ KnownDetect(p)
CallerStep(p) ==
    \/ ExePeek(p) \/ ExeLock(p) \/ Provision(p) \/ Transport(p) \/ GetRootCAs(p)
    \/ Detection(p)
    \/ Peek(p) \/ Select(p) \/ ExeDomain(p) \/ HybridDomain(p) \/ HybridName(p) \/ GeneralDomain(p)
    \/ ExeRegion(p) \/ HybridRegion(p) \/ GeneralRegion(p) \/ Detected(p)
    \/ Headers(p) \/ AskInstance(p) \/ Instance(p)

ServerNext ==
    \/ \E p \in Callers : Begin(p) \/ CallerStep(p)
    \/ \E x \in Regions : Save(x)
    \/ Deregister \/ Restart

ServerSpec == ServerInit /\ [][ServerNext]_serverVars

-----------------------------------------------------------------------------
ServerTypeOK ==
    /\ site \in WorldType /\ regionFile \in Regions \ {None}
    /\ {domain, region, general} \subseteq Regions /\ selected \in Providers \cup {None}
    /\ category \in {"unknown", "vpc", "classic", "hybrid"} /\ path \in {"unknown", "none", "path"}
    /\ provisioned \in BOOLEAN /\ pool \in {None, "bundled", Given, ""}
    /\ instance \in {None, "id", "unknown"}
    /\ op \in [Callers -> {"none", "host", "region", "request"}]
    /\ found \in [Callers -> Regions]
    /\ \A p \in Callers : Len(stack[p]) <= 3 /\ (op[p] = "none") = IsAt(p, "idle")
    /\ hitches \in 0..MaxHitches /\ restarts \in 0..MaxRestarts

\* ExternalExecutableProvider: the executable runs once, though several callers find
\* at the same time that it has not run.
ProvisionedOnce == runs <= 1

\* GetExtraHTTPHeaders: a request carries the headers of the provider that named its
\* server, though others were asked before it and at the same time; or none.
HeadersOfServer ==
    sent # None => sent[1] \in CASE sent[2] = "exe" -> {Given}
                                 [] sent[2] = "hybrid" -> {Registered, Named}
                                 [] sent[2] = "general" -> site.reachable
                                 [] OTHER -> {Registered, Named}

\* GeneralProvider: the region and the server's domain, found by two callers who detect
\* at the same time while a third one writes the file, are of one region that is reached.
OneRegion ==
    /\ selected = "general" => general # None /\ domain \in site.reachable
    /\ (selected = "general" /\ hitches = 0) => general = domain
    /\ (selected = "general" /\ hitches = 0 /\ ~site.exe /\ region \notin {None, Registered})
          => region = domain

\* All three: domain, region and headers are those of one provider, which is asked once.
RightServer == ProvisionedOnce /\ HeadersOfServer /\ OneRegion

\* The locks of callers, providers and the executable and the Once of the transport are
\* always taken in one order: of the calls that have begun, one can go on.
NoCircle == (\E p \in Callers : op[p] # "none") => ENABLED (\E p \in Callers : CallerStep(p))
=============================================================================
