------------------------- MODULE CapabilityRegistry -------------------------
(***************************************************************************)
(* What a node says it can do (src/k2k/capabilities.rs) and what its task  *)
(* queue has a handler for (TaskQueue::register_handler).  The two tables  *)
(* have locks of their own: a call that reads the configuration again, or  *)
(* asks a service for its manifest, lists all that it has read, and then   *)
(* registers the handlers one by one.  Any number of calls may be under    *)
(* way, and one is dropped where it awaits when its caller hangs up.       *)
(*                                                                         *)
(* The configuration and the manifests may say something else each time    *)
(* they are read.  The call that asks all services is one call per service *)
(* here: between two services it has nothing left to do.                   *)
(***************************************************************************)
EXTENDS Naturals

CONSTANTS
  Names,      \* ids of capabilities
  BuiltIn,    \* those that are listed from the start
  OwnHandler, \* those that the node handles itself
  Services,   \* base addresses of services with a manifest
  Config,     \* capabilities.yaml
  Own,
  Nothing,
  CallIds,
  MaxReadings \* bound on how often the file or a manifest is read

Kinds == {"local", "unreachable", "remote"}
Definitions == [source : Services \cup {Config, Own}, kind : Kinds, reading : Nat]

ASSUME CapabilityAssumption ==
  /\ OwnHandler \subseteq BuiltIn /\ BuiltIn \subseteq Names
  /\ Config \notin Services /\ Own \notin Services \cup {Config}
  /\ Nothing \notin Services \cup Definitions
  /\ MaxReadings \in Nat \ {0}

VARIABLES
  entries,     \* the registry
  handlerOf,   \* the queue's handlers
  discovered,  \* per service: unknown, fresh or stale (past the TTL)
  calls,
  readings,
  dropped,     \* history: names whose handler a dropped call was to register
  contested    \* history: names that were listed while another call had them to do

capVars == <<entries, handlerOf, discovered, calls, readings, dropped, contested>>
capHistory == <<dropped, contested>>

\* An endpoint that is not https is plain; a remote entry may lack one.
Says == [Names -> {"absent"} \cup Kinds]
Tells == [Names -> {"absent", "plain", "remote"}]

Definition(source, kind, k) == [source |-> source, kind |-> kind, reading |-> k]
NoWork == [stage |-> "idle", source |-> Nothing, says |-> Nothing, reading |-> 0, list |-> {}, handle |-> {}]
Mine(n) == Definition(Own, "local", 0)

Remote(says) == {n \in Names : says[n] = "remote"}
Work(stage, source, says, k, list) ==
  [stage |-> stage, source |-> source, says |-> says, reading |-> k, list |-> list, handle |-> Remote(says)]

\* CapabilityRegistry::new, and K2KServer::new with the configuration's entries.
CapabilitiesInit ==
  /\ \E says \in Says :
       /\ entries = [n \in Names |->
            IF says[n] # "absent" THEN Definition(Config, says[n], 1)
            ELSE IF n \in BuiltIn THEN Mine(n) ELSE Nothing]
       /\ handlerOf = [n \in Names |->
            IF says[n] = "remote" THEN Definition(Config, "remote", 1)
            ELSE IF n \in OwnHandler THEN Mine(n) ELSE Nothing]
  /\ discovered = [s \in Services |-> "unknown"]
  /\ calls = [c \in CallIds |-> NoWork] /\ readings = 1
  /\ dropped = {} /\ contested = {}

At(c, stage) == calls[c].stage = stage
Does(c, work) == calls' = [calls EXCEPT ![c] = work]
Reading == readings < MaxReadings /\ readings' = readings + 1
-----------------------------------------------------------------------------
(* handle_refresh_capabilities: a file that cannot be read changes nothing.  *)
ReadConfig(c) ==
  /\ At(c, "idle") /\ Reading
  /\ \E says \in Says :
       Does(c, Work("listing", Config, says, readings', {n \in Names : says[n] # "absent"}))
  /\ UNCHANGED <<entries, handlerOf, discovered, capHistory>>

(* handle_discover_services.                                                 *)
NeedsRediscovery(s) == discovered[s] # "fresh"

Ask(c, s) ==
  /\ At(c, "idle") /\ NeedsRediscovery(s)
  /\ Does(c, [NoWork EXCEPT !.stage = "asked", !.source = s])
  /\ UNCHANGED <<entries, handlerOf, discovered, readings, capHistory>>

\* register_discovered passes over what is not https.  Seeded fault: too late.
ListedPlain(says) == {n \in Names : says[n] # "absent"}
ListedOf(says)    == Remote(says)

Answered(c) ==
  /\ At(c, "asked") /\ Reading
  /\ \E says \in Tells : Does(c, Work("listing", calls[c].source, says, readings', ListedOf(says)))
  /\ UNCHANGED <<entries, handlerOf, discovered, capHistory>>

Unanswered(c) ==
  /\ At(c, "asked") /\ Does(c, NoWork)
  /\ UNCHANGED <<entries, handlerOf, discovered, readings, capHistory>>
-----------------------------------------------------------------------------
(* What both do with what they have read.                                    *)
Found(c, n) ==
  LET kind == calls[c].says[n]
  IN  Definition(calls[c].source, IF kind = "plain" THEN "remote" ELSE kind, calls[c].reading)
HasToDo(n) == {d \in CallIds : n \in calls[d].list \cup calls[d].handle}

List(c, n) ==
  /\ At(c, "listing") /\ n \in calls[c].list
  /\ entries' = [entries EXCEPT ![n] = Found(c, n)]
  /\ calls' = [calls EXCEPT ![c].list = @ \ {n}]
  /\ contested' = IF HasToDo(n) = {c} THEN contested \ {n} ELSE contested \cup {n}
  /\ dropped' = dropped \ {n}
  /\ UNCHANGED <<handlerOf, discovered, readings>>

Listed(c) ==
  /\ At(c, "listing") /\ calls[c].list = {}
  /\ calls' = [calls EXCEPT ![c].stage = "handling"]
  /\ discovered' = IF calls[c].source \in Services
                   THEN [discovered EXCEPT ![calls[c].source] = "fresh"] ELSE discovered
  /\ UNCHANGED <<entries, handlerOf, readings, capHistory>>

\* Seeded fault: a handler that is there stays.
KeepHandler(n, d) == IF handlerOf[n] = Nothing THEN [handlerOf EXCEPT ![n] = d] ELSE handlerOf
PutHandler(n, d)  == [handlerOf EXCEPT ![n] = d]

RegisterRemote(c, n) ==
  /\ At(c, "handling") /\ n \in calls[c].handle
  /\ handlerOf' = PutHandler(n, Found(c, n))
  /\ calls' = [calls EXCEPT ![c].handle = @ \ {n}]
  /\ UNCHANGED <<entries, discovered, readings, capHistory>>

Return(c) ==
  /\ At(c, "handling") /\ calls[c].handle = {} /\ Does(c, NoWork)
  /\ UNCHANGED <<entries, handlerOf, discovered, readings, capHistory>>

\* The caller hangs up while the call awaits an answer or the queue's lock.
DropCall(c) ==
  /\ At(c, "asked") \/ At(c, "handling")
  /\ Does(c, NoWork)
  /\ dropped' = dropped \cup calls[c].handle
  /\ UNCHANGED <<entries, handlerOf, discovered, readings, contested>>

\* Discovered entries grow stale, but nothing evicts them.
GrowStale(s) ==
  /\ discovered[s] = "fresh" /\ discovered' = [discovered EXCEPT ![s] = "stale"]
  /\ UNCHANGED <<entries, handlerOf, calls, readings, capHistory>>

CapabilitiesNext ==
  \/ \E c \in CallIds :
       \/ ReadConfig(c) \/ Answered(c) \/ Unanswered(c) \/ Listed(c) \/ Return(c) \/ DropCall(c)
       \/ \E s \in Services : Ask(c, s)
       \/ \E n \in Names : List(c, n) \/ RegisterRemote(c, n)
  \/ \E s \in Services : GrowStale(s)

CapabilitiesSpec == CapabilitiesInit /\ [][CapabilitiesNext]_capVars
-----------------------------------------------------------------------------
ToBeHandled(n) == \E c \in CallIds : n \in calls[c].handle
RemoteEntry(n) == entries[n] # Nothing /\ entries[n].kind = "remote"

(* However calls meet: a remote capability that is listed can be submitted   *)
(* to, or a call under way will see to it, unless that call was dropped.     *)
ListedIsHandled ==
  \A n \in Names \ dropped :
    RemoteEntry(n) => handlerOf[n] # Nothing \/ ToBeHandled(n)

(* Where calls have not met over a name, its tasks go where its entry says:  *)
(* no handler of an earlier listing, another source or the node's own is     *)
(* left behind a remote entry.                                               *)
TasksGoWhereListed ==
  \A n \in Names \ (dropped \cup contested) :
    RemoteEntry(n) => handlerOf[n] = entries[n] \/ ToBeHandled(n)
=============================================================================
