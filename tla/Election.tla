------------------------------- MODULE Election -------------------------------
(***************************************************************************)
(* The election of a master and the pairing of the two halves: the loop of *)
(* main.rs, split/determine.rs and the connecting parts of do_master and   *)
(* do_slave.  The left half advertises and serves is_master, the right     *)
(* half connects, writes its random number and reads is_master; then the   *)
(* master advertises and the slave connects to it.                         *)
(*                                                                         *)
(* phase[h] is where the main task of half h is.  A half scans for the     *)
(* fixed address of the other one, so it also connects to a half that      *)
(* advertises for another reason than it thinks.                           *)
(***************************************************************************)
EXTENDS Naturals

CONSTANTS
    Numbers,    \* the random numbers
    AutoReset   \* the feature auto-reset

ASSUME NumbersAssumption == Numbers \subseteq Nat /\ Numbers # {}
ASSUME AutoResetAssumption == AutoReset \in BOOLEAN

VARIABLES
    phase,      \* per half, where it is
    link,       \* the halves are connected
    number,     \* per half, its random number
    isMaster,   \* per half, what its determine function has found so far
    attribute,  \* is_master of the left half's master service
    written,    \* the right half's write of this connection
    upset       \* why the halves may not be in step; empty if they are

vars == <<phase, link, number, isMaster, attribute, written, upset>>

Halves == {"left", "right"}
Other(h) == IF h = "left" THEN "right" ELSE "left"

Determining(h) ==
    IF h = "left" THEN {"random", "serve"} ELSE {"random", "write", "read"}
Decided == {"master", "slave", "discover", "paired", "stalled"}
Phases(h) ==
    {"start", "disconnected", "panicked"} \cup Determining(h) \cup Decided
Reasons == {"restart", "lost", "early"}

Init ==
    /\ phase = [h \in Halves |-> "start"]
    /\ link = FALSE
    /\ number \in [Halves -> Numbers]
    /\ isMaster = [h \in Halves |-> FALSE]
    /\ attribute = FALSE
    /\ written = "no"
    /\ upset = {}

AtStart == \A h \in Halves : phase[h] = "start"

(* Past the discovery, where only a lost link or a panic ends a half's     *)
(* role.  A stalled half is there, but its main task waits for itself.     *)
HasPaired(h) == phase[h] \in {"paired", "stalled"}

(* Halves that are both at the start are in step, whatever came before.    *)
Upset(reasons) == upset' = IF AtStart' THEN {} ELSE upset \cup reasons

GoesTo(h, p) == phase' = [phase EXCEPT ![h] = p]

-----------------------------------------------------------------------------
(* One half advertises while the other scans for its address.              *)
Advertises(h) == phase[h] = "master" \/ (h = "left" /\ phase[h] = "start")

\* Faulty: the slave scans for its own address.
ScansAtStart(h) == h = "right" /\ phase[h] = "start"

Scans(h) == phase[h] = "slave" \/ (h = "right" /\ phase[h] = "start")

Connected(p) == IF p = "start" THEN "random" ELSE "discover"

Connect ==
    /\ ~link
    /\ \E h \in Halves : Advertises(h) /\ Scans(Other(h))
    /\ link' = TRUE
    /\ phase' = [h \in Halves |-> Connected(phase[h])]
    /\ isMaster' = [isMaster EXCEPT !["left"] =
                       IF phase["left"] = "start" THEN FALSE ELSE @]
    /\ written' = "no"
    /\ UNCHANGED <<number, attribute, upset>>

(* generate_random_u32; the right half has discovered the service before.  *)
Generate(h) ==
    /\ phase[h] = "random"
    /\ h = "right" => link
    /\ \E n \in Numbers : number' = [number EXCEPT ![h] = n]
    /\ GoesTo(h, IF h = "left" THEN "serve" ELSE "write")
    /\ UNCHANGED <<link, isMaster, attribute, written, upset>>

(* The softdevice of the left half answers the write in any case.          *)
WriteNumber ==
    /\ phase["right"] = "write" /\ link
    /\ written' = "pending"
    /\ GoesTo("right", "read")
    /\ UNCHANGED <<link, number, isMaster, attribute, upset>>

Wins == number["left"] > number["right"]

\* Faulty: the attribute tells the right half its own role.
CompareInverted ==
    /\ phase["left"] = "serve" /\ written = "pending"
    /\ isMaster' = [isMaster EXCEPT !["left"] = Wins]
    /\ attribute' = (number["right"] > number["left"])
    /\ written' = "handled"
    /\ UNCHANGED <<phase, link, number, upset>>

(* OtherRandomNumberWrite: the event reaches the server that runs.         *)
Compare ==
    /\ phase["left"] = "serve" /\ written = "pending"
    /\ isMaster' = [isMaster EXCEPT !["left"] = Wins]
    /\ attribute' = Wins
    /\ written' = "handled"
    /\ UNCHANGED <<phase, link, number, upset>>

(* No server for it runs: the left half still waits for its random number, *)
(* or it is in do_master or do_slave.                                      *)
Miss ==
    /\ phase["left"] # "serve" /\ written = "pending"
    /\ written' = "missed"
    /\ UNCHANGED <<phase, link, number, isMaster, attribute, upset>>

\* Faulty: the connection of the election is kept.
ReadKeepLink ==
    /\ phase["right"] = "read" /\ link
    /\ isMaster' = [isMaster EXCEPT !["right"] = ~attribute]
    /\ GoesTo("right", IF attribute THEN "slave" ELSE "master")
    /\ upset' = upset \cup IF written = "handled" THEN {} ELSE {"early"}
    /\ UNCHANGED <<link, number, attribute, written>>

(* The right half reads is_master, returns its negation and drops the      *)
(* connection.                                                             *)
Read ==
    /\ phase["right"] = "read" /\ link
    /\ isMaster' = [isMaster EXCEPT !["right"] = ~attribute]
    /\ link' = FALSE
    /\ GoesTo("right", IF attribute THEN "slave" ELSE "master")
    /\ upset' = upset \cup IF written = "handled" THEN {} ELSE {"early"}
    /\ UNCHANGED <<number, attribute, written>>

(* gatt_server::run ends with the connection, after the events before it.  *)
ServerEnds ==
    /\ phase["left"] = "serve" /\ ~link /\ written # "pending"
    /\ GoesTo("left", IF isMaster["left"] THEN "master" ELSE "slave")
    /\ UNCHANGED <<link, number, isMaster, attribute, written, upset>>

(* do_master and do_slave find the services of the other half.             *)
Discover(h) ==
    /\ phase[h] = "discover" /\ link
    /\ GoesTo(h, "paired")
    /\ UNCHANGED <<link, number, isMaster, attribute, written, upset>>

(* They return when the other half is gone; the loop starts again.  A half *)
(* that waits to send then gets no further than a panic, or is stalled.    *)
Notice(h) ==
    /\ phase[h] = "paired" /\ ~link
    /\ GoesTo(h, IF AutoReset THEN "start" ELSE "disconnected")
    /\ Upset({})
    /\ UNCHANGED <<link, number, isMaster, attribute, written>>

(* unwrap() on a request over a connection that is gone.                   *)
Unwrap(h) ==
    /\ \/ phase[h] = "discover"
       \/ h = "right" /\ phase[h] \in Determining(h)
    /\ ~link
    /\ GoesTo(h, "panicked")
    /\ UNCHANGED <<link, number, isMaster, attribute, written, upset>>

(* The link goes down: that of halves that have not both paired is missed. *)
LinkGone ==
    /\ link' = FALSE
    /\ upset' = upset \cup
           IF link /\ ~\A h \in Halves : HasPaired(h) THEN {"lost"} ELSE {}

(* The radio link is lost, or a half that has paired closes it: do_slave   *)
(* on a busy key write, do_master on a battery level for a host that left. *)
Lose ==
    /\ link
    /\ LinkGone
    /\ UNCHANGED <<phase, number, isMaster, attribute, written>>

(* trigger_event waits for room in the master's own events, which only the *)
(* task that waits handles: it does not see the link go down either.  It   *)
(* goes on when its host connects or leaves, or with a battery level.      *)
Stall(h) ==
    /\ phase[h] = "paired" /\ isMaster[h]
    /\ GoesTo(h, "stalled")
    /\ UNCHANGED <<link, number, isMaster, attribute, written, upset>>

Resume(h) ==
    /\ phase[h] = "stalled"
    /\ GoesTo(h, "paired")
    /\ UNCHANGED <<link, number, isMaster, attribute, written, upset>>

(* run_clients panics on a dead link while a handler waits to send; apply  *)
(* and send_input_report also do on a live one, which ends with them.      *)
Panic(h) ==
    /\ HasPaired(h)
    /\ GoesTo(h, "panicked")
    /\ LinkGone
    /\ UNCHANGED <<number, isMaster, attribute, written>>

(* A half is switched off and on, or reset.  Only the left half keeps the  *)
(* attribute.  A half that is paired finds out and starts again as well,   *)
(* one that panicked has to be switched off and on.                        *)
Restart(h) ==
    /\ GoesTo(h, "start")
    /\ link' = FALSE
    /\ isMaster' = [isMaster EXCEPT ![h] = FALSE]
    /\ attribute' = (h = "right" /\ attribute)
    /\ written' = IF h = "left" THEN "no" ELSE written
    /\ LET mayStay == HasPaired(Other(h))
                          \/ phase[Other(h)] \in {"start", "panicked"}
       IN  Upset(IF AutoReset /\ mayStay THEN {} ELSE {"restart"})
    /\ UNCHANGED number

Step(h) == Generate(h) \/ Discover(h) \/ Notice(h) \/ Unwrap(h)

Next ==
    \/ Connect
    \/ \E h \in Halves :
           Step(h) \/ Stall(h) \/ Resume(h) \/ Panic(h) \/ Restart(h)
    \/ WriteNumber
    \/ Compare
    \/ Miss
    \/ Read
    \/ ServerEnds
    \/ Lose

(* Radio and tasks go on; links are lost, and halves stall, panic and      *)
(* restart at will.  A half that has lost the link and is not stalled      *)
(* notices or panics: the latter disables Notice.                          *)
Fairness ==
    /\ WF_vars(Connect)
    /\ \A h \in Halves : WF_vars(Step(h))
    /\ WF_vars(WriteNumber)
    /\ WF_vars(Compare \/ Miss)
    /\ WF_vars(Read)
    /\ WF_vars(ServerEnds)

Spec == Init /\ [][Next]_vars /\ Fairness

-----------------------------------------------------------------------------
(* Properties.                                                             *)

(* Every variable has its type; each half runs its own determine function. *)
TypeOK ==
    /\ phase \in [Halves -> UNION {Phases(h) : h \in Halves}]
    /\ \A h \in Halves : phase[h] \in Phases(h)
    /\ link \in BOOLEAN
    /\ number \in [Halves -> Numbers]
    /\ isMaster \in [Halves -> BOOLEAN]
    /\ attribute \in BOOLEAN
    /\ written \in {"no", "pending", "handled", "missed"}
    /\ upset \subseteq Reasons

BothDecided == \A h \in Halves : phase[h] \in Decided

(* Two halves that have decided are a master and a slave, equal numbers    *)
(* included, as long as they are in step.                                  *)
OneMaster ==
    BothDecided /\ upset = {} => isMaster["left"] # isMaster["right"]

(* Halves that are connected do the same thing: none waits in the election *)
(* for a half that has a role, as long as they are in step.                *)
SamePhase ==
    link /\ upset = {} =>
        (phase["left"] \in Determining("left")
            <=> phase["right"] \in Determining("right"))

(* Unless they got out of step, the halves pair, and pair again after a    *)
(* link was lost or one restarted while they were paired.  They do not if  *)
(* one panicked and is not switched off and on, if the master waits for    *)
(* room in its own channel of events, or if halves keep restarting.        *)
Paired == link /\ \A h \in Halves : phase[h] = "paired"
Halted == \E h \in Halves : phase[h] \in {"panicked", "stalled"}

Pairs ==
    \/ []<>(Paired \/ Halted \/ upset # {})
    \/ []<><<\E h \in Halves : Restart(h)>>_vars
=============================================================================
