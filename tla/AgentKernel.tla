----------------------------- MODULE AgentKernel -----------------------------
(***************************************************************************)
(* The agent kernel of one mission: the calls of MissionService read,      *)
(* write without a condition and publish; publish stores the message in    *)
(* the database and appends it to the tenant's Redis stream; the consumers *)
(* of one group read the stream, hand each entry to their handler and      *)
(* acknowledge it.                                                         *)
(*                                                                         *)
(* Abstracted: what messages say (entries are counted, rows only written), *)
(* participants, counters and timestamps; the trace row of a publish,      *)
(* whose failure is only logged; a handoff, a row of its own whose changes *)
(* publish as a pause does.  Redis is modelled by what xadd, xgroup,  *)
(* xreadgroup with ">" and xack do.                                        *)
(***************************************************************************)
EXTENDS Naturals, Sequences, FiniteSets

CONSTANTS
    Calls,      \* calls of the services, one each
    Kinds,      \* what a call may ask for
    Consumers,  \* subscribers of the group
    BatchSize,  \* batchSize, 10 by default
    MaxFaults   \* bound: failed accesses and crashes of the API process

\* complete with any of its statuses, all of which are terminal.
AllKinds == {"start", "pause", "resume", "complete"}

ASSUME KernelAssumption ==
    /\ IsFiniteSet(Calls) /\ Kinds \subseteq AllKinds
    /\ BatchSize \in Nat \ {0} /\ MaxFaults \in Nat

VARIABLES
    mission,   \* Mission.status
    call,      \* where each call is
    late,      \* history: calls that read the mission before it ended
    stream,    \* number of entries of the Redis stream
    group,     \* the consumer group: made, and the last entry delivered
    pending,   \* per consumer, entries delivered and not acknowledged
    acked,     \* entries acknowledged
    consumer,  \* where each consumer loop is
    handled,   \* history: entries a handler finished
    lost,      \* history: entries whose read was lost or whose consumer died
    tries,     \* history: how often an entry was handed to a handler
    faults

services == <<mission, call, late>>
redis    == <<stream, group, pending, acked>>
history  == <<handled, lost, tries>>
vars     == <<services, redis, consumer, history, faults>>

-----------------------------------------------------------------------------
MissionStatuses == {"PLANNING", "RUNNING", "WAITING_HUMAN", "ENDED"}
CallPoints == {"begin", "write", "row", "append", "ended"}
LoopPoints == {"off", "making", "reading", "handling", "acking", "waiting",
               "ended"}

Entries  == 1 .. Cardinality(Calls) + 1
Idle     == [at |-> "begin", kind |-> "none"]
Unmade   == [made |-> FALSE, first |-> 0, last |-> 0]
Off      == [at |-> "off", batch |-> <<>>, stop |-> FALSE]

(* create has stored the mission and published "Mission created". *)
Init ==
    /\ mission = "PLANNING"
    /\ call = [c \in Calls |-> Idle] /\ late = {}
    /\ stream = 1 /\ group = Unmade /\ pending = [k \in Consumers |-> {}] /\ acked = {}
    /\ consumer = [k \in Consumers |-> Off]
    /\ handled = {} /\ lost = {} /\ tries = [i \in Entries |-> 0]
    /\ faults = 0

-----------------------------------------------------------------------------
(* The calls: getById and the guard, the write, publish. *)
\* Mutant: start does not look at the status.
LegalStart(kind) == kind = "resume" => mission = "WAITING_HUMAN"

Legal(kind) ==
    /\ kind = "start"  => mission = "PLANNING"
    /\ kind = "resume" => mission = "WAITING_HUMAN"

MissionAfter(kind) ==
    CASE kind \in {"start", "resume"} -> "RUNNING"
      [] kind = "pause"   -> "WAITING_HUMAN"
      [] kind = "complete" -> "ENDED"

\* The kind matters until the write.
Goto(c, point) == call' = [call EXCEPT ![c] = [at |-> point, kind |-> "none"]]
Writing == {c \in Calls : call[c].at = "write"}
Elsewhere == <<redis, consumer, history, faults>>

Read(c, kind) ==
    /\ call[c].at = "begin"
    /\ Legal(kind)
    /\ call' = [call EXCEPT ![c] = [at |-> "write", kind |-> kind]]
    /\ UNCHANGED <<mission, late, Elsewhere>>

Refused(c, kind) ==
    /\ call[c].at = "begin"
    /\ ~Legal(kind)
    /\ Goto(c, "ended")
    /\ UNCHANGED <<mission, late, Elsewhere>>

Write(c) ==
    /\ call[c].at = "write"
    /\ mission' = MissionAfter(call[c].kind)
    /\ late' = IF mission' = "ENDED" THEN (late \cup Writing) \ {c}
               ELSE late \ {c}
    /\ Goto(c, "row")
    /\ UNCHANGED Elsewhere

\* publish: the row first, then the stream.
StoreMessage(c) ==
    /\ call[c].at = "row"
    /\ Goto(c, "append")
    /\ UNCHANGED <<mission, late, Elsewhere>>

AppendEntry(c) ==
    /\ call[c].at = "append"
    /\ stream' = stream + 1
    /\ Goto(c, "ended")
    /\ UNCHANGED <<mission, late, group, pending, acked,
                   consumer, history, faults>>

\* An access of the database or of Redis throws; what was written stands.
CallFails(c) ==
    /\ call[c].at \in {"write", "row", "append"}
    /\ faults < MaxFaults
    /\ faults' = faults + 1
    /\ late' = late \ {c}
    /\ Goto(c, "ended")
    /\ UNCHANGED <<mission, redis, consumer, history>>

-----------------------------------------------------------------------------
(* subscribe: the loop of a consumer. *)
LoopTo(k, point) == consumer' = [consumer EXCEPT ![k].at = point]
AtMost(a, b) == IF a <= b THEN a ELSE b
\* Mutant: the read starts at the entry delivered last.
FreshAgain == [i \in 1 .. AtMost(BatchSize, stream - group.last) |->
                  group.last + i - 1]

Fresh == [i \in 1 .. AtMost(BatchSize, stream - group.last) |->
             group.last + i]
Current(k) == Head(consumer[k].batch)

\* Mutant: the loop reads on after the first entry of a batch.
NextRead(k) == consumer' = [consumer EXCEPT ![k].batch = <<>>, ![k].at = "reading"]

\* The rest of the batch, or the next read when there is none.
NextEntry(k) ==
    consumer' = [consumer EXCEPT
                    ![k].batch = Tail(@),
                    ![k].at    = IF Len(consumer[k].batch) > 1 THEN "handling"
                                 ELSE "reading"]

Subscribe(k) ==
    /\ consumer[k].at = "off"
    /\ LoopTo(k, "making")
    /\ UNCHANGED <<services, redis, history, faults>>

\* startFrom is "0" or "$"; BUSYGROUP, the group that is there already, is swallowed.
EnsureGroup(k) ==
    /\ consumer[k].at = "making"
    /\ \E first \in {0, stream} :
          group' = IF group.made THEN group
                   ELSE [made |-> TRUE, first |-> first, last |-> first]
    /\ LoopTo(k, "reading")
    /\ UNCHANGED <<services, stream, pending, acked, history, faults>>

\* Any other error ends the loop for good: "Consumer crashed".
EnsureGroupFails(k) ==
    /\ consumer[k].at = "making"
    /\ faults < MaxFaults
    /\ faults' = faults + 1
    /\ LoopTo(k, "ended")
    /\ UNCHANGED <<services, redis, history>>

Deliver(k) ==
    /\ consumer[k].at = "reading" /\ ~consumer[k].stop
    /\ group.last < stream
    /\ group' = [group EXCEPT !.last = @ + Len(Fresh)]
    /\ pending' = [pending EXCEPT ![k] = @ \cup {Fresh[i] : i \in DOMAIN Fresh}]

ReadBatch(k) ==
    /\ Deliver(k)
    /\ consumer' = [consumer EXCEPT ![k].batch = Fresh, ![k].at = "handling"]
    /\ UNCHANGED <<services, stream, acked, history, faults>>

\* The reply is lost with the connection; the loop waits and reads on.
ReadLost(k) ==
    /\ Deliver(k)
    /\ faults < MaxFaults
    /\ faults' = faults + 1
    /\ lost' = lost \cup (group.last + 1 .. group'.last)
    /\ LoopTo(k, "waiting")
    /\ UNCHANGED <<services, stream, acked, handled, tries>>

Waited(k) ==
    /\ consumer[k].at = "waiting"
    /\ LoopTo(k, "reading")
    /\ UNCHANGED <<services, redis, history, faults>>

Handle(k) ==
    /\ consumer[k].at = "handling"
    /\ handled' = handled \cup {Current(k)}
    /\ tries' = [tries EXCEPT ![Current(k)] = @ + 1]
    /\ LoopTo(k, "acking")
    /\ UNCHANGED <<services, redis, lost, faults>>

\* Mutant: the entry is acknowledged all the same.
HandlerThrowsAcked(k) ==
    /\ consumer[k].at = "handling"
    /\ tries' = [tries EXCEPT ![Current(k)] = @ + 1]
    /\ acked' = acked \cup {Current(k)}
    /\ pending' = [pending EXCEPT ![k] = @ \ {Current(k)}]
    /\ NextEntry(k)
    /\ UNCHANGED <<services, stream, group, handled, lost, faults>>

\* Not acknowledged: the entry stays pending.
HandlerThrows(k) ==
    /\ consumer[k].at = "handling"
    /\ tries' = [tries EXCEPT ![Current(k)] = @ + 1]
    /\ NextEntry(k)
    /\ UNCHANGED <<services, redis, handled, lost, faults>>

Ack(k) ==
    /\ consumer[k].at = "acking"
    /\ acked' = acked \cup {Current(k)}
    /\ pending' = [pending EXCEPT ![k] = @ \ {Current(k)}]
    /\ NextEntry(k)
    /\ UNCHANGED <<services, stream, group, history, faults>>

AckFails(k) ==
    /\ consumer[k].at = "acking"
    /\ faults < MaxFaults
    /\ faults' = faults + 1
    /\ NextEntry(k)
    /\ UNCHANGED <<services, redis, history>>

(* stop sets the flag; the loop looks at it before it reads again. *)
Stop(k) ==
    /\ consumer[k].at \notin {"off", "ended"} /\ ~consumer[k].stop
    /\ consumer' = [consumer EXCEPT ![k].stop = TRUE]
    /\ UNCHANGED <<services, redis, history, faults>>

LoopEnds(k) ==
    /\ consumer[k].at = "reading" /\ consumer[k].stop
    /\ LoopTo(k, "ended")
    /\ UNCHANGED <<services, redis, history, faults>>

Batched(i) == \E k \in Consumers : \E j \in DOMAIN consumer[k].batch :
                 consumer[k].batch[j] = i

(* The API process dies with its calls and consumers and subscribes anew. *)
Crash ==
    /\ faults < MaxFaults
    /\ faults' = faults + 1
    /\ call' = [c \in Calls |-> IF call[c].at = "begin" THEN call[c]
                                ELSE [at |-> "ended", kind |-> "none"]]
    /\ late' = {}
    /\ consumer' = [k \in Consumers |-> Off]
    /\ lost' = lost \cup {i \in Entries : Batched(i)}
    /\ UNCHANGED <<mission, redis, handled, tries>>

Call(c) == \/ \E kind \in Kinds : Read(c, kind) \/ Refused(c, kind)
           \/ Write(c) \/ StoreMessage(c) \/ AppendEntry(c)
           \/ CallFails(c)

\* What a loop does by itself; subscribing and stopping is others' choice.
Loop(k) == \/ EnsureGroup(k) \/ EnsureGroupFails(k) \/ ReadBatch(k)
           \/ ReadLost(k) \/ Waited(k) \/ Handle(k) \/ HandlerThrows(k)
           \/ Ack(k) \/ AckFails(k) \/ LoopEnds(k)

Next == \/ \E c \in Calls : Call(c)
        \/ \E k \in Consumers : Subscribe(k) \/ Stop(k) \/ Loop(k)
        \/ Crash

Fairness == \A k \in Consumers : WF_vars(Loop(k))

Spec == Init /\ [][Next]_vars /\ Fairness

-----------------------------------------------------------------------------
(* Type invariant of the services, the stream and the consumers.           *)
TypeOK ==
    /\ mission \in MissionStatuses
    /\ late \subseteq Calls
    /\ call \in [Calls -> [at : CallPoints, kind : AllKinds \cup {"none"}]]
    /\ stream \in Nat
    /\ group \in [made : BOOLEAN, first : Nat, last : Nat]
    /\ pending \in [Consumers -> SUBSET Entries] /\ acked \subseteq Entries
    /\ consumer \in [Consumers ->
                        [at : LoopPoints, batch : Seq(Entries), stop : BOOLEAN]]
    /\ handled \subseteq Entries /\ lost \subseteq Entries
    /\ tries \in [Entries -> Nat] /\ faults \in Nat

Excused(c) == /\ call[c].at = "write" /\ call'[c].at = "row"
              /\ (c \in late \/ call[c].kind = "pause")

EndStands == mission = "ENDED" /\ mission' # "ENDED" => \E c \in Calls : Excused(c)

(* A mission that ended leaves that status only through pauseForHuman,     *)
(* which has no condition and re-opens a mission it finds ended, or through *)
(* a call that read it before the end (mission.service.ts start, resume    *)
(* and complete).                                                          *)
TerminalStands == [][EndStands]_vars

(* Every entry the group delivered is either acknowledged, after its       *)
(* handler finished, or still pending for exactly one consumer, and no     *)
(* entry is handed to a handler twice, whatever fails or crashes between   *)
(* reading, handling and acknowledging (bus.service.ts subscribe).         *)
Accounted ==
    \A i \in 1 .. stream :
        LET holders == {k \in Consumers : i \in pending[k]}
        IN  /\ i \in acked => i \in handled /\ holders = {}
            /\ group.first < i /\ i <= group.last /\ i \notin acked
               => Cardinality(holders) = 1
            /\ tries[i] <= 1

(* An entry in the stream behind the group's start is handed to a handler, *)
(* unless its read was lost or its consumer died, as long as a loop runs.  *)
Running(k) == consumer[k].at \notin {"off", "ended"}

EveryEntryTried ==
    \A i \in Entries :
        group.made /\ group.first < i /\ i <= stream
        ~> tries[i] = 1 \/ i \in lost \/ ~\E k \in Consumers : Running(k)

(* Claim of bus.service.ts:240: an entry whose handler failed is not       *)
(* acknowledged and "will be redelivered after PEL timeout".               *)
Failed(i) == tries[i] = 1 /\ i \notin handled
             /\ \A k \in Consumers : consumer[k].at # "acking"

Redelivered ==
    \A i \in Entries :
        Failed(i) ~> tries[i] > 1 \/ ~\E k \in Consumers : Running(k)
===============================================================================
