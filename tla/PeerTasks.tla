----------------------------- MODULE PeerTasks ------------------------------
(***************************************************************************)
(* Tasks handed to a peer agent (agent/peer_agent): the tool makes sure    *)
(* that the peer's process runs (process_manager.py), submits the task and *)
(* registers it with the poller (poller.py), which asks for its state until*)
(* it is over, tells the chat, and ends the peer's process.  One peer: all *)
(* of its tasks share the process, and one lock guards starting and ending *)
(* it.  The process may be slow to answer, fail to start, or crash; the end*)
(* of the program, which ends peers too, is not modelled.                  *)
(***************************************************************************)
EXTENDS Integers, FiniteSets, Sequences

CONSTANTS
    PeerJobs,               \* the tasks that the model delegates
    MaxPeers,               \* bound: processes ever started
    MaxPeerFaults           \* bound: crashes, cancelled calls, unanswered requests

NoPeer == 0
Peers == 1..MaxPeers
Free == "free"
Poller == "poller"

ASSUME PeerAssumption ==
    MaxPeers \in Nat /\ MaxPeerFaults \in Nat /\ {Free, Poller} \cap PeerJobs = {}

VARIABLES
    peer,                   \* each process: "none", "booting", "up", "over"
    onPort,                 \* the process that listens at the peer's url
    heldPeer,               \* _procs[name]
    forgotten,              \* processes asked to end by a start that took too long
    peerLock,               \* _locks[name]: a task's call, Poller, or Free
    delegated,              \* each task's step
    overdue,                \* pending for longer than _TASK_TIMEOUT_S
    atPeer,                 \* where a task's work is and how it stands
    messages,               \* what the poller has published of each task
    poll,                   \* the poller: its stage, what is left of the round, whom it ends
    peerFaults

peerVars == <<peer, onPort, heldPeer, forgotten, peerLock, delegated, overdue, atPeer,
              messages, poll, peerFaults>>

NoWork == [peer |-> NoPeer, state |-> "none"]
Asleep == [stage |-> "sleeps", round |-> {}, victim |-> NoPeer]
Pending == {t \in PeerJobs : delegated[t] = "pending"}

PeerInit ==
    /\ peer = [p \in Peers |-> "none"]
    /\ onPort = NoPeer /\ heldPeer = NoPeer /\ forgotten = {} /\ peerLock = Free
    /\ delegated = [t \in PeerJobs |-> "new"]
    /\ overdue = {}
    /\ atPeer = [t \in PeerJobs |-> NoWork]
    /\ messages = [t \in PeerJobs |-> <<>>]
    /\ poll = Asleep
    /\ peerFaults = 0

Fault == peerFaults < MaxPeerFaults /\ peerFaults' = peerFaults + 1
NextPeer == {p \in Peers : peer[p] = "none" /\ \A q \in 1..(p - 1) : peer[q] # "none"}

\* The call of a task ends, or goes on to another step, and lets go of the lock.
Leaves(t, step) ==
    /\ delegated' = [delegated EXCEPT ![t] = step]
    /\ peerLock' = IF peerLock = t THEN Free ELSE peerLock

-----------------------------------------------------------------------------
(* PeerAgentTool.execute                                                    *)

Delegates(t) ==
    /\ delegated[t] = "new"
    /\ delegated' = [delegated EXCEPT ![t] = "waits"]
    /\ UNCHANGED <<peer, onPort, heldPeer, peerLock, overdue, atPeer, messages, poll,
                   peerFaults, forgotten>>

Enlocks(t) ==
    /\ delegated[t] = "waits" /\ peerLock = Free
    /\ peerLock' = t
    /\ delegated' = [delegated EXCEPT ![t] = "checks"]
    /\ UNCHANGED <<peer, onPort, heldPeer, overdue, atPeer, messages, poll, peerFaults, forgotten>>

\* _is_healthy: the peer at the url answers.
FindsReady(t) ==
    /\ delegated[t] = "checks" /\ onPort # NoPeer
    /\ Leaves(t, "submits")
    /\ UNCHANGED <<peer, onPort, heldPeer, overdue, atPeer, messages, poll, peerFaults, forgotten>>

\* Nobody answers, or a busy peer not within two seconds: _spawn starts another.
Spawns(t) ==
    /\ delegated[t] = "checks"
    /\ IF onPort = NoPeer THEN UNCHANGED peerFaults ELSE Fault
    /\ \E p \in NextPeer :
        /\ peer' = [peer EXCEPT ![p] = "booting"]
        /\ heldPeer' = p
    /\ delegated' = [delegated EXCEPT ![t] = "boots"]
    /\ UNCHANGED <<onPort, peerLock, overdue, atPeer, messages, poll, forgotten>>

\* The launcher itself cannot be run.
SpawnFails(t) ==
    /\ delegated[t] = "checks" /\ onPort = NoPeer
    /\ Leaves(t, "refused")
    /\ UNCHANGED <<peer, onPort, heldPeer, overdue, atPeer, messages, poll, peerFaults, forgotten>>

\* The url answers, whoever it is that listens there.
BootSeen(t) ==
    /\ delegated[t] = "boots" /\ onPort # NoPeer /\ peer[heldPeer] # "over"
    /\ Leaves(t, "submits")
    /\ UNCHANGED <<peer, onPort, heldPeer, overdue, atPeer, messages, poll, peerFaults, forgotten>>

\* The process has ended: it stays in _procs.
BootOver(t) ==
    /\ delegated[t] = "boots" /\ peer[heldPeer] = "over"
    /\ Leaves(t, "refused")
    /\ UNCHANGED <<peer, onPort, heldPeer, overdue, atPeer, messages, poll, peerFaults, forgotten>>

\* The process ends, and the port is free if it was the one that listened.
Over(p) ==
    /\ peer' = [peer EXCEPT ![p] = "over"]
    /\ onPort' = IF onPort = p THEN NoPeer ELSE onPort

\* Mutant: the process is forgotten without being asked to end.
BootLate_silent(t) ==
    /\ delegated[t] = "boots" /\ peer[heldPeer] # "over"
    /\ heldPeer' = NoPeer
    /\ Leaves(t, "refused")
    /\ UNCHANGED <<peer, onPort, overdue, atPeer, messages, poll, peerFaults, forgotten>>

\* startup_timeout_s has passed: SIGTERM, and nobody waits for the process
\* or has its handle any more.
BootLate(t) ==
    /\ delegated[t] = "boots" /\ peer[heldPeer] # "over"
    /\ forgotten' = forgotten \cup {heldPeer}
    /\ heldPeer' = NoPeer
    /\ Leaves(t, "refused")
    /\ UNCHANGED <<peer, onPort, overdue, atPeer, messages, poll, peerFaults>>

\* message/send is accepted; an answer without an id leaves the task under an
\* id that the peer does not know.
Submits(t) ==
    /\ delegated[t] = "submits" /\ onPort # NoPeer
    /\ \/ atPeer' = [atPeer EXCEPT ![t] = [peer |-> onPort, state |-> "working"]] /\ UNCHANGED peerFaults
       \/ UNCHANGED atPeer /\ Fault
    /\ delegated' = [delegated EXCEPT ![t] = "pending"]
    /\ UNCHANGED <<peer, onPort, heldPeer, peerLock, overdue, messages, poll, forgotten>>

\* No one answers, or the answer is an error or comes too late.
SubmitFails(t) ==
    /\ delegated[t] = "submits"
    /\ \/ onPort = NoPeer /\ UNCHANGED <<atPeer, peerFaults>>
       \/ /\ onPort # NoPeer /\ Fault
          /\ atPeer' \in {atPeer, [atPeer EXCEPT ![t] = [peer |-> onPort, state |-> "working"]]}
    /\ delegated' = [delegated EXCEPT ![t] = "refused"]
    /\ UNCHANGED <<peer, onPort, heldPeer, peerLock, overdue, messages, poll, forgotten>>

\* The turn that makes the call is cancelled, at whatever await it is.
CallCancelled(t) ==
    /\ delegated[t] \in {"waits", "checks", "boots", "submits"} /\ Fault
    /\ Leaves(t, "refused")
    /\ UNCHANGED <<peer, onPort, heldPeer, overdue, atPeer, messages, poll, forgotten>>

-----------------------------------------------------------------------------
(* The process                                                              *)

\* It can listen only where no other does, else it ends.
Boots(p) ==
    /\ peer[p] = "booting"
    /\ peer' = [peer EXCEPT ![p] = IF onPort = NoPeer THEN "up" ELSE "over"]
    /\ onPort' = IF onPort = NoPeer THEN p ELSE onPort
    /\ UNCHANGED <<heldPeer, peerLock, delegated, overdue, atPeer, messages, poll,
                   peerFaults, forgotten>>

\* SIGTERM has its effect; a process may ignore it and go on, boot and serve.
Heeds(p) ==
    /\ p \in forgotten /\ peer[p] \in {"booting", "up"}
    /\ Over(p)
    /\ UNCHANGED <<heldPeer, peerLock, delegated, overdue, atPeer, messages, poll,
                   peerFaults, forgotten>>

Crashes(p) ==
    /\ peer[p] \in {"booting", "up"} /\ Fault
    /\ Over(p)
    /\ UNCHANGED <<heldPeer, peerLock, delegated, overdue, atPeer, messages, poll, forgotten>>

Works(t) ==
    /\ atPeer[t].state = "working" /\ peer[atPeer[t].peer] = "up"
    /\ \E state \in {"completed", "failed"} : atPeer' = [atPeer EXCEPT ![t].state = state]
    /\ UNCHANGED <<peer, onPort, heldPeer, peerLock, delegated, overdue, messages, poll,
                   peerFaults, forgotten>>

-----------------------------------------------------------------------------
(* PeerAgentPoller                                                          *)

\* The hour passes.
Ages(t) ==
    /\ t \in Pending \ overdue
    /\ overdue' = overdue \cup {t}
    /\ UNCHANGED <<peer, onPort, heldPeer, peerLock, delegated, atPeer, messages, poll,
                   peerFaults, forgotten>>

Wakes ==
    /\ poll.stage = "sleeps" /\ Pending # {}
    /\ poll' = [Asleep EXCEPT !.stage = "picks", !.round = Pending]
    /\ UNCHANGED <<peer, onPort, heldPeer, peerLock, delegated, overdue, atPeer,
                   messages, peerFaults, forgotten>>

\* Gone from _pending, told to the chat, and the process is to be ended.
Tells(t, what) ==
    /\ delegated' = [delegated EXCEPT ![t] = "told"]
    /\ messages' = [messages EXCEPT ![t] = what]
    /\ poll' = [poll EXCEPT !.stage = "ends", !.round = @ \ {t}]

\* Mutant: a task stays pending when it is told.
Checks_kept(t) ==
    /\ poll.stage = "picks" /\ t \in poll.round
    /\ \/ /\ t \in overdue \/ atPeer[t].state \in {"completed", "failed"}
          /\ messages' = [messages EXCEPT ![t] = Append(@, "failed")]
          /\ poll' = [poll EXCEPT !.stage = "ends", !.round = @ \ {t}]
       \/ poll' = [poll EXCEPT !.round = @ \ {t}] /\ UNCHANGED messages
    /\ UNCHANGED <<peer, onPort, heldPeer, peerLock, delegated, overdue, atPeer,
                   peerFaults, forgotten>>

\* Mutant: a task never becomes overdue.
Checks_noTimeout(t) ==
    /\ poll.stage = "picks" /\ t \in poll.round
    /\ LET known == atPeer[t].peer # NoPeer /\ atPeer[t].peer = onPort
       IN  \/ /\ known /\ atPeer[t].state \in {"completed", "failed"}
              /\ Tells(t, Append(messages[t], atPeer[t].state)) /\ UNCHANGED peerFaults
           \/ /\ IF known /\ atPeer[t].state # "working" THEN Fault ELSE UNCHANGED peerFaults
              /\ poll' = [poll EXCEPT !.round = @ \ {t}] /\ UNCHANGED <<delegated, messages>>
    /\ UNCHANGED <<peer, onPort, heldPeer, peerLock, overdue, atPeer, forgotten>>

\* _check: overdue, or the state that the peer gives; a peer that does not
\* answer, or does not know the task, leaves it for the next round.
Checks(t) ==
    /\ poll.stage = "picks" /\ t \in poll.round
    /\ LET known == atPeer[t].peer # NoPeer /\ atPeer[t].peer = onPort
       IN  \/ t \in overdue /\ Tells(t, Append(messages[t], "failed")) /\ UNCHANGED peerFaults
           \/ /\ t \notin overdue /\ known /\ atPeer[t].state \in {"completed", "failed"}
              /\ Tells(t, Append(messages[t], atPeer[t].state)) /\ UNCHANGED peerFaults
           \/ /\ t \notin overdue
              /\ IF known /\ atPeer[t].state # "working" THEN Fault ELSE UNCHANGED peerFaults
              /\ poll' = [poll EXCEPT !.round = @ \ {t}] /\ UNCHANGED <<delegated, messages>>
    /\ UNCHANGED <<peer, onPort, heldPeer, peerLock, overdue, atPeer, forgotten>>

\* terminate: with the lock, the process is taken out of _procs and ended.
Terminates ==
    /\ poll.stage = "ends" /\ peerLock = Free
    /\ heldPeer' = NoPeer
    /\ IF heldPeer = NoPeer
       THEN poll' = [poll EXCEPT !.stage = "picks"] /\ UNCHANGED peerLock
       ELSE /\ poll' = [poll EXCEPT !.stage = "kills", !.victim = heldPeer]
            /\ peerLock' = Poller
    /\ UNCHANGED <<peer, onPort, delegated, overdue, atPeer, messages, peerFaults, forgotten>>

\* SIGTERM, and SIGKILL if that is not enough.
Killed ==
    /\ poll.stage = "kills"
    /\ Over(poll.victim)
    /\ poll' = [poll EXCEPT !.stage = "picks", !.victim = NoPeer]
    /\ peerLock' = Free
    /\ UNCHANGED <<heldPeer, delegated, overdue, atPeer, messages, peerFaults, forgotten>>

RoundEnds ==
    /\ poll.stage = "picks" /\ poll.round = {}
    /\ poll' = Asleep
    /\ UNCHANGED <<peer, onPort, heldPeer, peerLock, delegated, overdue, atPeer,
                   messages, peerFaults, forgotten>>

Acts(t) ==
    \/ Enlocks(t) \/ FindsReady(t) \/ Spawns(t) \/ SpawnFails(t)
    \/ BootSeen(t) \/ BootOver(t) \/ BootLate(t)

PollerNext == Wakes \/ (\E t \in PeerJobs : Checks(t)) \/ Terminates \/ Killed \/ RoundEnds

PeerNext ==
    \/ \E t \in PeerJobs :
        \/ Delegates(t) \/ Acts(t) \/ Submits(t) \/ SubmitFails(t) \/ CallCancelled(t)
        \/ Works(t) \/ Ages(t)
    \/ \E p \in Peers : Boots(p) \/ Heeds(p) \/ Crashes(p)
    \/ PollerNext

\* Every await of the tool and of the poller has a timeout, and an hour passes.
PeerFairness ==
    /\ WF_peerVars(PollerNext)
    /\ \A t \in PeerJobs : WF_peerVars(Acts(t)) /\ WF_peerVars(Ages(t))

PeerSpec == PeerInit /\ [][PeerNext]_peerVars /\ PeerFairness

-----------------------------------------------------------------------------
PeerTypeOK ==
    /\ peer \in [Peers -> {"none", "booting", "up", "over"}]
    /\ {onPort, heldPeer, poll.victim} \subseteq Peers \cup {NoPeer}
    /\ peerLock \in PeerJobs \cup {Free, Poller}
    /\ delegated \in [PeerJobs -> {"new", "waits", "checks", "boots", "submits", "pending", "told", "refused"}]
    /\ overdue \subseteq PeerJobs /\ forgotten \subseteq Peers

\* A task is told of once or pending or was refused to the caller; success is
\* what the peer said.
ToldOnce ==
    \A t \in PeerJobs :
        /\ messages[t] \in {<<>>, <<"completed">>, <<"failed">>}
        /\ (messages[t] # <<>>) <=> (delegated[t] = "told")
        /\ messages[t] = <<"completed">> => atPeer[t].state = "completed"

\* A process that nobody holds, and nobody is ending, was displaced by a later
\* one, started while it did not answer, or was only asked to end by a start
\* that took too long; the manager starts one at a time.
PeersAreHeld ==
    /\ \A p \in Peers :
        peer[p] \in {"booting", "up"} =>
            \/ p = heldPeer \/ p = poll.victim \/ p \in forgotten
            \/ \E q \in Peers : q > p /\ peer[q] # "none"
    /\ \A t, u \in PeerJobs : delegated[t] = "boots" /\ delegated[u] = "boots" => t = u
    /\ \A t \in PeerJobs : delegated[t] = "boots" => heldPeer # NoPeer /\ peerLock = t

(***************************************************************************)
(* A task that was accepted is told of once, and success is never made up; *)
(* starts and ends of the peer do not cross, and no process is lost but by *)
(* a start beside one that was too busy to answer, or one that took too    *)
(* long to boot and ignores SIGTERM.                                       *)
(***************************************************************************)
PeerTasksAreSound == ToldOnce /\ PeersAreHeld

(***************************************************************************)
(* A pending task is told of in the end, though the process may have been  *)
(* ended for another task's sake, have crashed, or never have known it.    *)
(***************************************************************************)
PendingIsTold == \A t \in PeerJobs : t \in Pending ~> delegated[t] = "told"
=============================================================================
