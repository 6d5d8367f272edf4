----------------------------- MODULE MCTeamSync -----------------------------
(***************************************************************************)
(* Instances of TeamSync for TLC.  The run that passes explores three      *)
(* corners of one instance; everything at once is out of reach.            *)
(***************************************************************************)
EXTENDS TeamSync

Sound == \A d \in Daemon : \A n \in 1..Len(local[d]) :
             local[d][n].good /\ local[d][n].stream \in TeamStream

DaemonsOnly == \A n \in 1..Len(server) : server[n].from[1] # "server"

\* Daemons that push one team stream, one of them two records, and never pull.
PushCorner ==
    /\ Sound /\ DaemonsOnly
    /\ \A d \in Daemon : Len(local[d]) <= 2 /\ pull[d] = NoPull /\ cache[d] = << >>
    /\ \A d \in Puller : Len(local[d]) <= 1

\* Daemons that push one record each, and pull; a push is retried only where
\* it races a pull for sync.json.
PullCorner ==
    /\ Sound /\ DaemonsOnly
    /\ \A d \in Daemon : Len(local[d]) <= 1
    /\ \A d \in Daemon \ Puller : Len(sent[d]) <= 1

\* One daemon with a session, a change stream and a server that writes it too,
\* and records the server refuses.
ShareCorner ==
    /\ \A d \in Daemon : pull[d] = NoPull /\ cache[d] = << >>
    /\ \A d \in Daemon : \A n \in 1..Len(local[d]) :
         local[d][n].stream \in WorkStream \union SessionStream
    /\ \A d \in Puller : local[d] = << >> /\ push[d] = NoPush

Corner == PushCorner \/ PullCorner \/ ShareCorner

\* Next of TeamSync; the steps that could leave the corners stay inside.
MCNext ==
    \/ \E d \in Daemon : \E s \in Stream : LocalWrite(d, s) /\ Corner'
    \/ \E d \in Pusher :
         \/ StartPush(d) /\ Corner'
         \/ PushPage(d) /\ Corner'
         \/ PushAnswered(d) \/ PushFails(d) \/ SavePush(d) \/ PushCrashes(d)
         \/ \E k \in 1..Len(sent[d]) : ServeStart(d, k)
    \/ \E d \in Puller :
         \/ StartPull(d) /\ Corner'
         \/ PullPage(d) \/ PullRecord(d) \/ PullPageDone(d)
         \/ PullFails(d) \/ SavePull(d) \/ PullCrashes(d)
    \/ \E s \in WorkStream : ServerWrite(s) /\ Corner'
    \/ ServeRecord \/ ServeDone \/ ServeFails

MCSpec == Init /\ [][MCNext]_vars
=============================================================================
