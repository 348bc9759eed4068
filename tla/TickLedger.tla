----------------------------- MODULE TickLedger -----------------------------
(***************************************************************************)
(* What the agent promises about PollCount, without goroutines, channels   *)
(* or maps: every poll is counted once, it is reported to the server at    *)
(* most once, and reporting ends with the first report that fails, of      *)
(* which a part may still arrive.  AgentPipeline implements this.          *)
(***************************************************************************)
EXTENDS Naturals

CONSTANT Polls  \* all the polls that can ever be made

VARIABLES
    polled,     \* the polls counted so far
    delivered,  \* those contained in the server's PollCount
    lost,       \* those given up with the last report
    closed      \* nothing more is reported

ledger == <<polled, delivered, lost, closed>>

Outstanding == polled \ delivered

Init ==
    /\ polled = {}
    /\ delivered = {}
    /\ lost = {}
    /\ closed = FALSE

\* A poller counts one more poll.
Count ==
    /\ \E t \in Polls \ polled : polled' = polled \cup {t}
    /\ UNCHANGED <<delivered, lost, closed>>

\* The server applies a report that carries some of the outstanding polls.
Report ==
    /\ ~closed
    /\ \E S \in SUBSET Outstanding : delivered' = delivered \cup S
    /\ UNCHANGED <<polled, lost, closed>>

\* Reporting ends, and gives up what the last report carried.
Close ==
    /\ ~closed
    /\ closed' = TRUE
    /\ lost' \in SUBSET Outstanding
    /\ UNCHANGED <<polled, delivered>>

\* What was given up arrives after all.
Arrive ==
    /\ lost # {}
    /\ delivered' = delivered \cup lost
    /\ lost' = {}
    /\ UNCHANGED <<polled, closed>>

Next == Count \/ Report \/ Close \/ Arrive

Spec == Init /\ [][Next]_ledger
=============================================================================
