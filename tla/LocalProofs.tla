------------------------------ MODULE LocalProofs ------------------------------
(***************************************************************************)
(* What cancel and status commands may rely on, for every number of them,  *)
(* of containers and of commands that compete for the run id: the lock of  *)
(* execution.lock keeps them off a working Harbor, and what they report as *)
(* cleaned or cancelled stays so.                                          *)
(***************************************************************************)
EXTENDS LocalRun, TLAPS

Reporter == Command \cup {Owner}

Phase == {"new", "checked", "reserved", "locked", "initialized", "published",
          "prepared", "working", "teardown", "finished", "failed",
          "interrupted", "succeeding", "unwinding", "closing", "unlocking",
          "reporting", "gone"}

Stage == {"idle", "ask", "queue", "publish", "wait", "clean", "scan", "remove",
          "read", "execution", "probe", "report"}

Outcome == {"none", "running", "terminal", "failed", "interrupted"}

OwnerType == [pc : Phase, signalled : BOOLEAN, cancelled : BOOLEAN]

CommandType == [pc : Stage, remove : BOOLEAN, round : 0..2,
                listed : SUBSET Container, closed : BOOLEAN, clean : BOOLEAN,
                state : Outcome \cup {"unknown", "cancelling", "cancelled"}]

Types ==
    /\ owner \in OwnerType
    /\ command \in [Reporter -> CommandType]
    /\ containers \subseteq Container
    /\ client \in {"none", "up", "pending"}
    /\ execution \in Outcome /\ result \in {"none", "finished", "invalid"}

(* Until it unwinds, the owner has the lock; and so has a command in its   *)
(* cleanup.  The owner cleans up only when it has given the lock back.     *)
Locking == {"locked", "initialized", "published", "prepared"} \cup Active

LockSound ==
    /\ owner.pc \in Locking => lock = Owner
    /\ \A p \in Reporter : command[p].pc \in {"scan", "remove"} => lock = p
    /\ command[Owner].pc # "idle" => OwnerAt("reporting")

(* The witness comes after Harbor, and nothing but a killed owner leaves a *)
(* request that the daemon has still to carry out.                         *)
Ended == {"closing", "unlocking", "reporting", "gone"}

WitnessSound ==
    /\ "stopped" \in files => owner.pc \in Ended
    /\ client = "pending" => OwnerAt("gone") /\ "stopped" \notin files

Empty == containers = {} /\ client = "none" /\ "stopped" \in files

(* What the locals c of command p say.  A cleanup has established, step by *)
(* step, a witness, no client, and an empty inventory after which nothing  *)
(* can appear.  A cancel looks for a result after that, so that none can   *)
(* be written once it has found none.                                      *)
CleanSound(c) ==
    /\ c.pc \notin {"scan", "remove"} => c.round = 0
    /\ c.pc = "remove" => c.round < 2
    /\ c.closed => "stopped" \in files /\ client = "none"
    /\ c.closed /\ c.round >= 1 => Empty
    /\ c.clean => Empty

LookedAfter(c) == c.pc \in {"execution", "probe"}
                    \/ (c.pc # "read" /\ c.state # "terminal")

VerdictSound(p, c) ==
    /\ c.state = "cancelled" => c.pc = "idle"
    /\ p \in Canceller =>
          /\ c.state = "cancelled" => c.clean
          /\ c.clean /\ LookedAfter(c) => result # "finished"

CommandSound(p, c) == c \in CommandType /\ CleanSound(c) /\ VerdictSound(p, c)

LocalSound ==
    /\ Types /\ LockSound /\ WitnessSound
    /\ \A p \in Reporter : CommandSound(p, command[p])

-----------------------------------------------------------------------------
(* Commands. *)

(* The owner is no command, and the free lock names no process.            *)
LEMMA ProcessesDiffer ==
    /\ Owner \notin Command /\ NoProc \notin Command /\ NoProc # Owner
BY LocalAssumption, NamespaceAssumption

(* A command that is not running has a well-typed, empty record.           *)
LEMMA IdleTyped ==
    /\ Idle \in CommandType
    /\ Idle.pc = "idle" /\ Idle.round = 0 /\ Idle.closed = FALSE
    /\ Idle.clean = FALSE /\ Idle.state = "none"
BY DEF Idle, CommandType, Stage, Outcome

(* A step of one command that takes containers away, writes no witness and *)
(* takes or returns only its own lock, is judged by its own locals.        *)
CommandMoves(p, c) ==
    /\ Becomes(p, c) /\ UNCHANGED <<owner, execution, result, client>>
    /\ containers' \subseteq containers
    /\ "stopped" \in files' <=> "stopped" \in files
    /\ \/ lock' = lock
       \/ lock = NoProc /\ lock' = p
       \/ lock = p /\ lock' = NoProc
    /\ c.pc \in {"scan", "remove"} => lock' = p

(* For a step of one command it is enough that the command's own new       *)
(* locals are sound: the rest of the invariant follows.                    *)
LEMMA OwnLocalsSuffice ==
    ASSUME LocalSound, NEW p \in Reporter, NEW c,
           CommandMoves(p, c), CommandSound(p, c),
           p = Owner => OwnerAt("reporting")
    PROVE  LocalSound'
<1> USE DEF CommandMoves, Becomes
<1>1. /\ DOMAIN command = Reporter
      /\ command'[p] = c
      /\ \A q \in Reporter : q # p => command'[q] = command[q]
  BY DEF LocalSound, Types
<1>2. Types'
  BY <1>1 DEF LocalSound, Types, CommandSound
<1>3. LockSound'
  <2>1. (owner.pc \in Locking => lock = Owner)'
    BY ProcessesDiffer DEF LocalSound, LockSound, Locking, Active, OwnerAt,
                           Reporter
  <2>2. ASSUME NEW q \in Reporter, command'[q].pc \in {"scan", "remove"}
        PROVE  lock' = q
    BY <1>1, <2>2, ProcessesDiffer DEF LocalSound, LockSound, Reporter
  <2>3. (command[Owner].pc # "idle" => OwnerAt("reporting"))'
    BY <1>1 DEF LocalSound, LockSound, OwnerAt, Reporter
  <2>. QED
    BY <2>1, <2>2, <2>3 DEF LockSound
<1>4. WitnessSound'
  BY DEF LocalSound, WitnessSound, OwnerAt
<1>5. ASSUME NEW q \in Reporter PROVE CommandSound(q, command[q])'
  <2>1. CommandSound(q, command'[q])
    BY <1>1 DEF LocalSound
  <2>2. CleanSound(command[q])'
    BY <2>1 DEF CommandSound, CleanSound, Empty
  <2>3. VerdictSound(q, command[q])'
    BY <2>1 DEF CommandSound, VerdictSound, LookedAfter
  <2>. QED
    BY <2>1, <2>2, <2>3 DEF CommandSound, CommandType
<1>. QED
  BY <1>2, <1>3, <1>4, <1>5 DEF LocalSound

(* The verdict of a cleanup, with or without the lock.                     *)
LEMMA VerdictKeeps ==
    ASSUME LocalSound, NEW p \in Reporter, NEW v \in BOOLEAN, v => Empty,
           command[p].pc \in {"clean", "scan", "remove"}, Verdict(p, v),
           UNCHANGED <<owner, execution, result, client, files, containers>>,
           lock' = lock \/ (lock = p /\ lock' = NoProc)
    PROVE  LocalSound'
<1>0. PICK l \in {"read", "report"}, b \in BOOLEAN :
         /\ Becomes(p, [Idle EXCEPT !.pc = l, !.clean = b,
                                    !.state = command[p].state])
         /\ l = IF command[p].remove THEN "read" ELSE "report"
         /\ b = IF command[p].remove \/ p \notin Canceller
                THEN v ELSE command[p].clean
  BY DEF Verdict, LocalSound, CommandSound, CommandType
<1> DEFINE c == [Idle EXCEPT !.pc = l, !.clean = b, !.state = command[p].state]
<1>1. CommandSound(p, command[p]) /\ command[p] \in CommandType
  BY DEF LocalSound, CommandSound
<1>2. /\ c \in CommandType /\ c.pc = l /\ c.clean = b
      /\ c.state = command[p].state /\ c.round = 0 /\ ~c.closed
  BY <1>0, <1>1, IdleTyped DEF CommandType, Stage, Outcome
<1>. HIDE DEF c
<1>3. CommandMoves(p, c)
  BY <1>0, <1>2 DEF CommandMoves, c
<1>4. CleanSound(c)
  BY <1>0, <1>1, <1>2 DEF CommandSound, CleanSound
<1>5. VerdictSound(p, c)
  BY <1>0, <1>1, <1>2 DEF CommandSound, VerdictSound, LookedAfter
<1>6. p = Owner => OwnerAt("reporting")
  BY DEF LocalSound, LockSound
<1>. QED
  BY <1>2, <1>3, <1>4, <1>5, <1>6, OwnLocalsSuffice DEF CommandSound

(* The steps of a cleanup.                                                 *)
LEMMA RoundKeeps ==
    ASSUME LocalSound, NEW p \in Reporter, NextRound(p),
           command[p].pc \in {"scan", "remove"}, command[p].round < 2,
           containers = {},
           Quiet, UNCHANGED <<files, containers>>
    PROVE  LocalSound'
<1> DEFINE c == command[p]
           d == [c EXCEPT !.pc = "scan", !.round = @ + 1]
<1>1. /\ CommandSound(p, c) /\ c \in CommandType /\ lock = p
      /\ p = Owner => OwnerAt("reporting")
  BY DEF LocalSound, CommandSound, LockSound
<1>2. /\ d \in CommandType /\ d.pc = "scan" /\ d.round \in 1..2
      /\ d.closed = c.closed /\ d.clean = c.clean /\ d.state = c.state
  <2>1. c.round + 1 \in 1..2
    BY <1>1 DEF CommandType
  <2>2. PICK n \in 0..2 : n = c.round + 1 /\ n # 0
    BY <2>1
  <2> DEFINE e == [c EXCEPT !.pc = "scan", !.round = n]
  <2>3. /\ e \in CommandType /\ e.pc = "scan" /\ e.round = n
        /\ e.closed = c.closed /\ e.clean = c.clean /\ e.state = c.state
    BY <1>1, <2>2 DEF CommandType, Stage
  <2>. QED
    BY <2>2, <2>3, <2>1
<1>. HIDE DEF d
<1>3. CommandMoves(p, d)
  BY <1>1, <1>2 DEF NextRound, Quiet, CommandMoves, d
<1>4. CleanSound(d)
  BY <1>1, <1>2 DEF CommandSound, CleanSound, Empty
<1>5. VerdictSound(p, d)
  BY <1>1, <1>2 DEF CommandSound, VerdictSound, LookedAfter
<1>. QED
  BY <1>1, <1>2, <1>3, <1>4, <1>5, OwnLocalsSuffice DEF CommandSound

(* The cleanup's entry (take the lock, look whether the stopped file is    *)
(* there) keeps the invariant.                                             *)
LEMMA EnterKeeps ==
    ASSUME LocalSound, NEW p \in Reporter, CleanEnters(p)
    PROVE  LocalSound'
<1> DEFINE c == command[p]
           d == [c EXCEPT !.pc = "scan", !.closed = "stopped" \in files]
<1>1. /\ CommandSound(p, c) /\ c \in CommandType
      /\ c.pc = "clean" /\ lock = NoProc
      /\ client \in {"none", "up", "pending"}
      /\ client = "pending" => "stopped" \notin files
      /\ p = Owner => OwnerAt("reporting")
  BY DEF LocalSound, CommandSound, LockSound, WitnessSound, Types,
         CleanEnters, Local, Idling
<1>2. CASE InScope(c.remove)
  <2>1. PICK b \in BOOLEAN : b <=> "stopped" \in files
    BY "stopped" \in files \/ "stopped" \notin files
  <2>2. /\ d \in CommandType /\ d.pc = "scan" /\ d.round = 0
        /\ d.closed => "stopped" \in files
        /\ d.clean = c.clean /\ d.state = c.state
    <3> DEFINE e == [c EXCEPT !.pc = "scan", !.closed = b]
    <3>1. /\ e \in CommandType /\ e.pc = "scan" /\ e.round = c.round
          /\ e.closed = b /\ e.clean = c.clean /\ e.state = c.state
      BY <1>1, <2>1 DEF CommandType, Stage
    <3>2. c.round = 0
      BY <1>1 DEF CommandSound, CleanSound
    <3>. QED
      BY <2>1, <3>1, <3>2
  <2>. HIDE DEF d
  <2>3. CommandMoves(p, d)
    BY <1>1, <1>2, <2>2 DEF CleanEnters, Enter, Quiet, CommandMoves, d
  <2>4. CleanSound(d)
    BY <1>1, <1>2, <2>2 DEF CommandSound, CleanSound, InScope
  <2>5. VerdictSound(p, d)
    BY <1>1, <2>2 DEF CommandSound, VerdictSound, LookedAfter
  <2>. QED
    BY <1>1, <2>2, <2>3, <2>4, <2>5, OwnLocalsSuffice DEF CommandSound
<1>3. CASE ~InScope(c.remove)
  BY <1>1, <1>3, VerdictKeeps DEF CleanEnters, Enter, Quiet
<1>. QED
  BY <1>2, <1>3

(* One inventory keeps the invariant: a clean verdict is only given on the *)
(* third visit, without a client, and with the witness seen at the entry.  *)
LEMMA ScanKeeps ==
    ASSUME LocalSound, NEW p \in Reporter, CleanScans(p)
    PROVE  LocalSound'
<1> DEFINE c == command[p]
           d == [c EXCEPT !.pc = "remove", !.listed = containers]
<1>1. /\ CommandSound(p, c) /\ c \in CommandType /\ lock = p
      /\ c.pc = "scan" /\ containers \subseteq Container
      /\ client \in {"none", "up", "pending"}
      /\ "stopped" \in files /\ client # "up" => client = "none"
      /\ p = Owner => OwnerAt("reporting")
  BY DEF LocalSound, CommandSound, LockSound, WitnessSound, Types, CleanScans,
         Local
<1>2. ASSUME NEW v \in BOOLEAN, v => Empty, Leaves(p, v),
             Quiet, UNCHANGED <<files, containers>>
      PROVE  LocalSound'
  BY <1>1, <1>2, VerdictKeeps DEF Leaves, Quiet
<1>3. Quiet /\ UNCHANGED <<files, containers>>
  BY DEF CleanScans
<1>4. CASE c.round = 2 /\ Leaves(p, Proven(p))
  <2>1. Proven(p) \in BOOLEAN /\ (Proven(p) => Empty)
    BY <1>1, <1>4 DEF Proven, CommandSound, CleanSound
  <2>. QED
    BY <1>2, <1>3, <1>4, <2>1
<1>5. CASE Leaves(p, FALSE)
  BY <1>2, <1>3, <1>5
<1>6. CASE c.round < 2 /\ client # "up" /\ containers = {} /\ NextRound(p)
  BY <1>1, <1>3, <1>6, RoundKeeps
<1>7. CASE /\ c.round < 2 /\ client # "up"
           /\ Becomes(p, d) /\ UNCHANGED lock
  <2>1. /\ d \in CommandType /\ d.pc = "remove" /\ d.round = c.round
        /\ d.closed = c.closed /\ d.clean = c.clean /\ d.state = c.state
    BY <1>1 DEF CommandType, Stage
  <2>. HIDE DEF d
  <2>2. CommandMoves(p, d)
    BY <1>1, <1>3, <1>7, <2>1 DEF Quiet, CommandMoves
  <2>3. CleanSound(d)
    BY <1>1, <1>7, <2>1 DEF CommandSound, CleanSound
  <2>4. VerdictSound(p, d)
    BY <1>1, <2>1 DEF CommandSound, VerdictSound, LookedAfter
  <2>. QED
    BY <1>1, <2>1, <2>2, <2>3, <2>4, OwnLocalsSuffice DEF CommandSound
<1>8. c.round \in 0..2
  BY <1>1 DEF CommandType
<1>9. CASE c.round = 2
  BY <1>4, <1>9 DEF CleanScans
<1>10. CASE c.round < 2 /\ client = "up"
  BY <1>5, <1>10 DEF CleanScans
<1>11. CASE c.round < 2 /\ client # "up" /\ containers = {}
  BY <1>6, <1>11 DEF CleanScans
<1>12. CASE c.round < 2 /\ client # "up" /\ containers # {}
  <2>1. ~(c.round = 2) /\ ~(client = "up") /\ ~(containers = {})
    BY <1>12
  <2>2. CASE c.remove
    <3>1. Becomes(p, d) /\ UNCHANGED lock
      BY <2>1, <2>2 DEF CleanScans
    <3>. QED
      BY <1>7, <1>12, <3>1
  <2>3. CASE ~c.remove
    BY <1>5, <2>1, <2>3 DEF CleanScans
  <2>. QED
    BY <2>2, <2>3
<1>. QED
  BY <1>8, <1>9, <1>10, <1>11, <1>12

(* The removal of the listed containers keeps the invariant, the partial   *)
(* one and the second round included.                                      *)
LEMMA RemoveKeeps ==
    ASSUME LocalSound, NEW p \in Reporter, CleanRemoves(p)
    PROVE  LocalSound'
<1> DEFINE c == command[p]
<1>1. /\ CommandSound(p, c) /\ c \in CommandType /\ lock = p
      /\ c.pc = "remove" /\ c.round < 2
      /\ p = Owner => OwnerAt("reporting")
  BY DEF LocalSound, CommandSound, CleanSound, LockSound, WitnessSound, Types,
         CleanRemoves, Local
<1>2. Quiet /\ UNCHANGED files
  BY DEF CleanRemoves
<1>3. CASE Leaves(p, FALSE) /\ UNCHANGED containers
  BY <1>1, <1>2, <1>3, VerdictKeeps DEF Leaves, Quiet
<1>4. CASE containers = {} /\ NextRound(p) /\ UNCHANGED containers
  BY <1>1, <1>2, <1>4, RoundKeeps
<1>5. ASSUME NEW k \in c.listed, containers' = containers \ {k},
             Becomes(p, [c EXCEPT !.listed = @ \ {k}]), UNCHANGED lock
      PROVE  LocalSound'
  <2> DEFINE d == [c EXCEPT !.listed = @ \ {k}]
  <2>1. /\ d \in CommandType /\ d.pc = "remove" /\ d.round = c.round
        /\ d.closed = c.closed /\ d.clean = c.clean /\ d.state = c.state
    BY <1>1 DEF CommandType, Stage
  <2>. HIDE DEF d
  <2>2. CommandMoves(p, d)
    BY <1>1, <1>2, <1>5, <2>1 DEF Quiet, CommandMoves, d
  <2>3. CleanSound(d)
    BY <1>1, <2>1 DEF CommandSound, CleanSound
  <2>4. VerdictSound(p, d)
    BY <1>1, <2>1 DEF CommandSound, VerdictSound, LookedAfter
  <2>. QED
    BY <1>1, <2>1, <2>2, <2>3, <2>4, OwnLocalsSuffice DEF CommandSound
<1>. QED
  BY <1>3, <1>4, <1>5 DEF CleanRemoves

(* Every step of clean_docker keeps the invariant.                         *)
LEMMA CleanKeeps ==
    ASSUME LocalSound, NEW p \in Reporter, CleanStep(p)
    PROVE  LocalSound'
<1>1. CASE CleanRefused(p)
  BY <1>1, VerdictKeeps DEF CleanRefused, Local, Quiet
<1>2. CASE ObservationFails(p)
  BY <1>2, VerdictKeeps DEF ObservationFails, Leaves, Quiet
<1>. QED
  BY <1>1, <1>2, EnterKeeps, ScanKeeps, RemoveKeeps DEF CleanStep

(* The steps outside the cleanup.                                          *)
LEMMA StageKeeps ==
    ASSUME LocalSound, NEW p \in Reporter, NEW d \in CommandType,
           Becomes(p, d), Quiet, UNCHANGED containers,
           "stopped" \in files' <=> "stopped" \in files,
           lock' = lock \/ (lock = p /\ lock' = NoProc),
           d.pc \notin {"scan", "remove"}, d.round = 0,
           d.closed => command[p].closed, d.clean => command[p].clean,
           VerdictSound(p, d), p = Owner => OwnerAt("reporting")
    PROVE  LocalSound'
<1>1. CommandSound(p, command[p])
  BY DEF LocalSound
<1>2. CleanSound(d)
  BY <1>1 DEF CommandSound, CleanSound
<1>3. CommandMoves(p, d)
  BY DEF CommandMoves, Quiet
<1>. QED
  BY <1>2, <1>3, OwnLocalsSuffice DEF CommandSound

(* A command that only goes on to its next stage keeps the invariant.      *)
LEMMA GoesKeeps ==
    ASSUME LocalSound, NEW p \in Reporter,
           NEW l \in {"queue", "publish", "wait", "clean", "execution"},
           Goes(p, l), Quiet, UNCHANGED <<lock, containers>>,
           "stopped" \in files' <=> "stopped" \in files,
           command[p].pc \in {"ask", "queue", "publish", "wait", "read"},
           command[p].pc = "read" => l = "execution" /\ result # "finished",
           l = "execution" => command[p].pc = "read"
    PROVE  LocalSound'
<1> DEFINE c == command[p]
           d == [c EXCEPT !.pc = l]
<1>1. /\ CommandSound(p, c) /\ c \in CommandType
      /\ c.pc # "idle" /\ c.round = 0 /\ c.pc \notin {"execution", "probe"}
      /\ p = Owner => OwnerAt("reporting")
  BY DEF LocalSound, CommandSound, CleanSound, LockSound
<1>2. /\ d \in CommandType /\ d.pc = l /\ d.round = 0
      /\ d.closed = c.closed /\ d.clean = c.clean /\ d.state = c.state
  BY <1>1 DEF CommandType, Stage
<1>3. Becomes(p, d)
  BY DEF Goes
<1>. HIDE DEF d
<1>4. VerdictSound(p, d)
  BY <1>1, <1>2 DEF CommandSound, VerdictSound, LookedAfter
<1>. QED
  BY <1>1, <1>2, <1>3, <1>4, StageKeeps

(* A command that goes on with a new verdict keeps the invariant when the  *)
(* verdict is one the result and the cleanup allow.                        *)
LEMMA LearnsKeeps ==
    ASSUME LocalSound, NEW p \in Reporter,
           NEW l \in {"clean", "probe", "report", "idle"},
           NEW s \in Outcome \cup {"unknown", "cancelling", "cancelled"},
           Learns(p, l, s), Quiet, UNCHANGED <<lock, files, containers>>,
           command[p].pc \in {"read", "execution", "probe", "report"},
           s = "cancelled" => l = "idle"
                              /\ (p \in Canceller => command[p].clean),
           \/ s = "terminal" /\ l # "probe"
           \/ result # "finished"
           \/ command[p].pc # "read" /\ LookedAfter(command[p])
    PROVE  LocalSound'
<1> DEFINE c == command[p]
           d == [c EXCEPT !.pc = l, !.state = s]
<1>1. /\ CommandSound(p, c) /\ c \in CommandType
      /\ c.pc # "idle" /\ c.round = 0
      /\ p = Owner => OwnerAt("reporting")
  BY DEF LocalSound, CommandSound, CleanSound, LockSound
<1>2. /\ d \in CommandType /\ d.pc = l /\ d.round = 0
      /\ d.closed = c.closed /\ d.clean = c.clean /\ d.state = s
  BY <1>1 DEF CommandType, Stage
<1>3. Becomes(p, d)
  BY DEF Learns
<1>. HIDE DEF d
<1>4. VerdictSound(p, d)
  BY <1>1, <1>2 DEF CommandSound, VerdictSound, LookedAfter
<1>. QED
  BY <1>1, <1>2, <1>3, <1>4, StageKeeps

(* A command that begins, or is over without a report.                     *)
LEMMA IdleKeeps ==
    ASSUME LocalSound, NEW p \in Reporter, NEW d \in CommandType,
           d.pc \in {"idle", "ask", "read"}, d.round = 0, ~d.closed,
           ~d.clean, d.state = "none",
           Becomes(p, d), Quiet, UNCHANGED <<files, containers>>,
           lock' = lock \/ (lock = p /\ lock' = NoProc), p \in Command
    PROVE  LocalSound'
<1>1. VerdictSound(p, d) /\ p # Owner
  BY ProcessesDiffer DEF VerdictSound
<1>. QED
  BY <1>1, StageKeeps

(* Every step of a cancel command keeps the invariant.                     *)
LEMMA CancelKeeps ==
    ASSUME LocalSound, NEW p \in Reporter, CancelStep(p)
    PROVE  LocalSound'
<1>1. CASE CancelBegins(p)
  <2> DEFINE d == [Idle EXCEPT !.pc = "ask", !.remove = TRUE]
  <2>1. /\ d \in CommandType /\ d.pc = "ask" /\ d.round = 0 /\ ~d.closed
        /\ ~d.clean /\ d.state = "none"
    BY IdleTyped DEF CommandType, Stage
  <2>2. p \in Command
    BY <1>1 DEF CancelBegins, Command
  <2>. HIDE DEF d
  <2>. QED
    BY <1>1, <2>1, <2>2, IdleKeeps DEF CancelBegins, d
<1>2. CASE CancelAsks(p)
  BY <1>2, GoesKeeps DEF CancelAsks, Local
<1>3. CASE CancelQueues(p)
  BY <1>3, GoesKeeps DEF CancelQueues, Local
<1>4. CASE CancelPublishes(p)
  BY <1>4, GoesKeeps DEF CancelPublishes, Local
<1>5. CASE CancelWaits(p)
  BY <1>5, GoesKeeps DEF CancelWaits, Local
<1>. QED
  BY <1>1, <1>2, <1>3, <1>4, <1>5 DEF CancelStep

(* Reading Harbor's result keeps the invariant.                            *)
LEMMA ResultKeeps ==
    ASSUME LocalSound, NEW p \in Reporter, ReadResult(p)
    PROVE  LocalSound'
<1>1. /\ command[p].pc = "read" /\ Quiet
      /\ UNCHANGED <<lock, files, containers>>
  BY DEF ReadResult, Local
<1>2. CASE Learns(p, "clean", "terminal")
  BY <1>1, <1>2, LearnsKeeps DEF Outcome
<1>3. CASE Goes(p, "execution") /\ result # "finished"
  BY <1>1, <1>3, GoesKeeps
<1>4. CASE Learns(p, "report", "unknown") /\ result # "finished"
  BY <1>1, <1>4, LearnsKeeps
<1>5. CASE p \in Observer /\ Becomes(p, Idle)
  <2>1. p \in Command
    BY <1>5 DEF Command
  <2>. QED
    BY <1>1, <1>5, <2>1, IdleTyped, IdleKeeps
<1>6. \/ Learns(p, "clean", "terminal")
      \/ Goes(p, "execution") /\ result # "finished"
      \/ Learns(p, "report", "unknown") /\ result # "finished"
      \/ p \in Observer /\ Becomes(p, Idle)
  <2>1. result \in {"none", "finished", "invalid"}
    BY DEF LocalSound, Types
  <2>. QED
    BY <2>1 DEF ReadResult
<1>. QED
  BY <1>2, <1>3, <1>4, <1>5, <1>6

(* The steps that decide the reported state keep the invariant.            *)
LEMMA ReportKeeps ==
    ASSUME LocalSound, NEW p \in Reporter, ReportStep(p)
    PROVE  LocalSound'
<1> DEFINE c == command[p]
<1>1. CommandSound(p, c) /\ c \in CommandType /\ execution \in Outcome
  BY DEF LocalSound, CommandSound, Types
<1>2. CASE ReadExecution(p)
  <2>1. PICK s \in Outcome \cup {"unknown"} : Learns(p, "probe", s)
    BY <1>1, <1>2 DEF ReadExecution
  <2>2. s # "cancelled" /\ c.pc = "execution"
    BY <1>2, <2>1 DEF Outcome, ReadExecution, Local
  <2>. QED
    BY <1>2, <2>1, <2>2, LearnsKeeps DEF ReadExecution, LookedAfter
<1>3. CASE ProbeOwner(p)
  <2>1. c.pc = "probe" /\ c.state # "cancelled"
    BY <1>1, <1>3 DEF ProbeOwner, Local, CommandSound, VerdictSound
  <2>2. PICK s \in Outcome \cup {"unknown", "cancelling"} :
            Learns(p, "clean", s) /\ s # "cancelled"
    BY <1>1, <1>3, <2>1 DEF ProbeOwner, CommandType, Outcome
  <2>. QED
    BY <1>3, <2>1, <2>2, LearnsKeeps DEF ProbeOwner, LookedAfter
<1>4. CASE ReportIs(p)
  <2>1. c.pc = "report" /\ c.state # "cancelled"
    BY <1>1, <1>4 DEF ReportIs, Local, CommandSound, VerdictSound
  <2>2. PICK s \in Outcome \cup {"unknown", "cancelling", "cancelled"} :
            /\ Learns(p, "idle", s)
            /\ s = "cancelled" => p \in Canceller /\ c.clean
            /\ c.state = "terminal" => s = "terminal"
    <3>1. c.state \in Outcome \cup {"unknown", "cancelling", "cancelled"}
      BY <1>1 DEF CommandType
    <3>2. CASE p \notin Canceller
      BY <1>4, <2>1, <3>1, <3>2 DEF ReportIs
    <3>3. CASE p \in Canceller /\ (c.state = "terminal" \/ ~Intent)
      <4>1. CancelState(p) = c.state
        BY <3>3 DEF CancelState
      <4>. QED
        BY <1>4, <2>1, <3>1, <3>3, <4>1 DEF ReportIs
    <3>4. CASE p \in Canceller /\ c.state # "terminal" /\ Intent /\ c.clean
      <4>1. CancelState(p) = "cancelled"
        BY <3>4 DEF CancelState
      <4>. QED
        BY <1>4, <3>4, <4>1 DEF ReportIs
    <3>5. CASE p \in Canceller /\ c.state # "terminal" /\ Intent /\ ~c.clean
      <4>1. CancelState(p) = "cancelling"
        BY <3>5 DEF CancelState
      <4>. QED
        BY <1>4, <3>5, <4>1 DEF ReportIs
    <3>. QED
      BY <3>2, <3>3, <3>4, <3>5
  <2>. QED
    BY <1>4, <2>1, <2>2, LearnsKeeps DEF ReportIs, LookedAfter
<1>. QED
  BY <1>2, <1>3, <1>4, CleanKeeps, ResultKeeps DEF ReportStep

(* Every step of a cancel or status command keeps the invariant.           *)
LEMMA CommandsKeep ==
    ASSUME LocalSound, NEW p \in Reporter,
           CancelStep(p) \/ StatusBegins(p) \/ ReportStep(p) \/ CommandFails(p)
    PROVE  LocalSound'
<1>1. CASE StatusBegins(p)
  <2> DEFINE d == [Idle EXCEPT !.pc = "read"]
  <2>1. /\ d \in CommandType /\ d.pc = "read" /\ d.round = 0 /\ ~d.closed
        /\ ~d.clean /\ d.state = "none"
    BY IdleTyped DEF CommandType, Stage
  <2>2. p \in Command
    BY <1>1 DEF StatusBegins, Command
  <2>. HIDE DEF d
  <2>. QED
    BY <1>1, <2>1, <2>2, IdleKeeps DEF StatusBegins, d
<1>2. CASE CommandFails(p)
  <2>1. lock' = lock \/ (lock = p /\ lock' = NoProc)
    BY <1>2 DEF CommandFails
  <2>. QED
    BY <1>2, <2>1, IdleTyped, IdleKeeps DEF CommandFails
<1>. QED
  BY <1>1, <1>2, CancelKeeps, ReportKeeps

-----------------------------------------------------------------------------
(* The owner, Harbor and Docker.  None of their steps undoes what follows  *)
(* an orderly stop, so what the commands know stays true.                  *)

OwnerMoves ==
    /\ command' \in {command, [command EXCEPT ![Owner] = Idle],
                     [command EXCEPT ![Owner] = [Idle EXCEPT !.pc = "clean"]]}
    /\ owner' \in OwnerType
    /\ containers' \subseteq Container
    /\ client' \in {"none", "up", "pending"}
    /\ execution' \in Outcome /\ result' \in {"none", "finished", "invalid"}
    /\ "stopped" \in files =>
          /\ "stopped" \in files' /\ result' = result
          /\ client = "none" => client' = "none" /\ containers' = containers

(* For a step of the owner it is enough to show what is said of its lock   *)
(* and of its witness.                                                     *)
LEMMA OwnerMovesKeeps ==
    ASSUME LocalSound, OwnerMoves, LockSound', WitnessSound'
    PROVE  LocalSound'
<1> DEFINE clean == [Idle EXCEPT !.pc = "clean"]
<1>1. /\ clean \in CommandType /\ clean.pc = "clean" /\ clean.round = 0
      /\ ~clean.closed /\ ~clean.clean /\ clean.state = "none"
  BY IdleTyped DEF CommandType, Stage
<1>2. /\ DOMAIN command = Reporter /\ Owner \in Reporter
      /\ command \in [Reporter -> CommandType]
      /\ Owner \notin Canceller
  BY ProcessesDiffer DEF LocalSound, Types, Reporter, Command
<1>. HIDE DEF clean
<1>3. \A q \in Reporter :
          \/ command'[q] = command[q]
          \/ q = Owner /\ command'[q] \in {Idle, clean}
  BY <1>2 DEF OwnerMoves, clean
<1>4. Types'
  <2>1. command' \in [Reporter -> CommandType]
    BY <1>1, <1>2, IdleTyped DEF OwnerMoves, clean
  <2>. QED
    BY <2>1 DEF OwnerMoves, Types
<1>5. ASSUME NEW q \in Reporter PROVE CommandSound(q, command[q])'
  <2>1. CASE command'[q] = command[q]
    <3>1. CommandSound(q, command'[q])
      BY <2>1 DEF LocalSound
    <3>2. CleanSound(command[q])'
      BY <3>1 DEF CommandSound, CleanSound, Empty, OwnerMoves
    <3>3. VerdictSound(q, command[q])'
      BY <3>1 DEF CommandSound, CleanSound, VerdictSound, LookedAfter, Empty,
                  OwnerMoves
    <3>. QED
      BY <3>1, <3>2, <3>3 DEF CommandSound, CommandType
  <2>2. CASE q = Owner /\ command'[q] \in {Idle, clean}
    <3>1. /\ command'[q] \in CommandType /\ command'[q].round = 0
          /\ command'[q].pc \notin {"remove", "scan"}
          /\ ~command'[q].closed /\ ~command'[q].clean
          /\ command'[q].state = "none" /\ q \notin Canceller
      BY <1>1, <1>2, <2>2, IdleTyped
    <3>2. CleanSound(command[q])'
      BY <3>1 DEF CleanSound
    <3>3. VerdictSound(q, command[q])'
      BY <3>1 DEF VerdictSound
    <3>. QED
      BY <3>1, <3>2, <3>3 DEF CommandSound, CommandType
  <2>. QED
    BY <1>3, <2>1, <2>2
<1>. QED
  BY <1>4, <1>5 DEF LocalSound

(* The owner's move to a phase leaves it well typed.                       *)
LEMMA OwnerToTyped ==
    ASSUME LocalSound, NEW l \in Phase, OwnerTo(l)
    PROVE  owner' \in OwnerType /\ owner'.pc = l
<1>1. owner \in OwnerType
  BY DEF LocalSound, Types, OwnerType
<1>2. CASE l = "gone"
  BY <1>2 DEF OwnerTo, Gone, OwnerType
<1>3. CASE l # "gone"
  BY <1>1, <1>3 DEF OwnerTo, OwnerType
<1>. QED
  BY <1>2, <1>3

(* The owner goes on without a change of its lock or of what Docker does.  *)
LEMMA PhaseKeeps ==
    ASSUME LocalSound, owner' \in OwnerType,
           UNCHANGED <<lock, result, client, containers, command>>,
           execution' \in Outcome,
           files' \in {files, files \cup {"stopped"}} \/
              ("stopped" \in files' <=> "stopped" \in files),
           "stopped" \in files' => "stopped" \in files \/ owner'.pc \in Ended,
           owner.pc \in Ended => owner'.pc \in Ended,
           owner'.pc \in Locking => owner.pc \in Locking,
           owner.pc \notin {"reporting", "gone"}
    PROVE  LocalSound'
<1>1. OwnerMoves
  BY DEF OwnerMoves, LocalSound, Types, OwnerType
<1>2. LockSound'
  BY DEF LocalSound, LockSound, OwnerAt
<1>3. WitnessSound'
  BY DEF LocalSound, WitnessSound, OwnerAt
<1>. QED
  BY <1>1, <1>2, <1>3, OwnerMovesKeeps

(* Every step of the owner process keeps the invariant.                    *)
LEMMA OwnerStepKeeps ==
    ASSUME LocalSound, OwnerStep
    PROVE  LocalSound'
<1>1. owner \in OwnerType /\ execution \in Outcome
  BY DEF LocalSound, Types, OwnerType
<1>2. ASSUME NEW l \in Phase, OwnerTo(l),
             UNCHANGED <<lock, result, client, containers, command>>,
             execution' \in Outcome,
             "stopped" \in files' <=> "stopped" \in files,
             owner.pc \notin Ended, l \in Locking => owner.pc \in Locking
      PROVE  LocalSound'
  BY <1>2, OwnerToTyped, PhaseKeeps DEF Ended
<1>3. CASE OwnerChecks
  BY <1>1, <1>2, <1>3 DEF OwnerChecks, outputVars, OwnerAt, Ended, Locking,
                          Active, Phase
<1>4. CASE OwnerReserves
  BY <1>1, <1>2, <1>4 DEF OwnerReserves, outputVars, OwnerAt, Ended, Locking,
                          Active, Phase
<1>5. CASE OwnerLocks
  <2>1. owner' \in OwnerType /\ owner'.pc = "locked" /\ owner.pc = "reserved"
    BY <1>5, OwnerToTyped DEF OwnerLocks, OwnerAt, Phase
  <2>2. OwnerMoves
    BY <1>5, <2>1 DEF OwnerLocks, OwnerMoves, LocalSound, Types, OwnerType
  <2>3. LockSound'
    BY <1>5, <2>1, ProcessesDiffer DEF OwnerLocks, LocalSound, LockSound,
                                       OwnerAt, Reporter
  <2>4. WitnessSound'
    BY <1>5, <2>1 DEF OwnerLocks, LocalSound, WitnessSound, OwnerAt, Ended
  <2>. QED
    BY <2>2, <2>3, <2>4, OwnerMovesKeeps
<1>6. CASE OwnerInitializes
  BY <1>1, <1>2, <1>6 DEF OwnerInitializes, OwnerAt, Ended, Locking, Active,
                          Phase
<1>7. CASE OwnerPublishes
  BY <1>1, <1>2, <1>7 DEF OwnerPublishes, outputVars, OwnerAt, Ended, Locking,
                          Active, Phase
<1>8. CASE OwnerRecordsRunning
  BY <1>1, <1>2, <1>8 DEF OwnerRecordsRunning, OwnerAt, Ended, Locking, Active,
                          Phase, Outcome
<1>9. CASE LoopStarts
  <2>1. /\ owner.pc = "prepared"
        /\ UNCHANGED <<lock, execution, result, client, containers, command>>
        /\ "stopped" \in files' <=> "stopped" \in files
    BY <1>9 DEF LoopStarts, OwnerAt
  <2>2. CASE owner' = [owner EXCEPT !.pc = "interrupted", !.cancelled = TRUE]
    <3>1. owner' \in OwnerType /\ owner'.pc = "interrupted"
      BY <1>1, <2>2 DEF OwnerType, Phase
    <3>. QED
      BY <1>1, <2>1, <3>1, PhaseKeeps DEF Ended, Locking, Active
  <2>3. CASE OwnerTo("working")
    BY <1>1, <1>2, <2>1, <2>3 DEF Ended, Locking, Active, Phase
  <2>4. CASE OwnerTo("failed")
    BY <1>1, <1>2, <2>1, <2>4 DEF Ended, Locking, Active, Phase
  <2>. QED
    BY <1>9, <2>2, <2>3, <2>4 DEF LoopStarts
<1>10. CASE CancelOnce
  <2>1. owner' \in OwnerType /\ owner'.pc = "teardown" /\ owner.pc = "working"
    BY <1>1, <1>10 DEF CancelOnce, OwnerType, Phase, OwnerAt
  <2>2. /\ UNCHANGED <<lock, execution, result, client, containers, command>>
        /\ "stopped" \in files' <=> "stopped" \in files
    BY <1>10 DEF CancelOnce
  <2>. QED
    BY <1>1, <2>1, <2>2, PhaseKeeps DEF Ended, Locking, Active
<1>11. CASE OwnerRecordsEnd
  <2>1. /\ UNCHANGED <<lock, result, client, containers, command, files>>
        /\ execution' \in Outcome
        /\ owner.pc \in {"finished", "failed", "interrupted"}
        /\ \E l \in {"succeeding", "failed", "unwinding"} : OwnerTo(l)
    BY <1>1, <1>11 DEF OwnerRecordsEnd, OwnerAt, Outcome
  <2>. QED
    BY <1>2, <2>1 DEF Ended, Locking, Active, Phase
<1>12. CASE OwnerWitnesses
  <2>1. PICK l \in {"closing", "unlocking"} : OwnerTo(l)
    BY <1>12 DEF OwnerWitnesses
  <2>2. owner' \in OwnerType /\ owner'.pc = l
    BY <2>1, OwnerToTyped DEF Phase
  <2>3. /\ UNCHANGED <<lock, execution, result, client, containers, command>>
        /\ files' \in {files, files \cup {"stopped"}}
        /\ owner.pc \in {"succeeding", "unwinding"}
    BY <1>12 DEF OwnerWitnesses
  <2>. QED
    BY <1>1, <2>1, <2>2, <2>3, PhaseKeeps DEF Ended, Locking, Active
<1>13. CASE OwnerUnlocks
  <2>1. PICK l \in {"reporting", "gone"} :
            OwnerTo(l) /\ (command' # command => l = "reporting")
    BY <1>13 DEF OwnerUnlocks
  <2>2. owner' \in OwnerType /\ owner'.pc = l
    BY <2>1, OwnerToTyped DEF Phase
  <2>3. /\ owner.pc \in {"closing", "unlocking"}
        /\ UNCHANGED <<files, execution, result, client, containers>>
        /\ lock' = IF lock = Owner THEN NoProc ELSE lock
        /\ command' \in {command, [command EXCEPT ![Owner] =
                                       [Idle EXCEPT !.pc = "clean"]]}
    BY <1>13 DEF OwnerUnlocks, OwnerAt
  <2>4. OwnerMoves
    BY <2>2, <2>3 DEF OwnerMoves, LocalSound, Types, OwnerType
  <2>5. LockSound'
    <3>1. command[Owner].pc = "idle" /\ owner'.pc \notin Locking
      BY <2>2, <2>3 DEF LocalSound, LockSound, OwnerAt, Locking, Active
    <3>2. [Idle EXCEPT !.pc = "clean"].pc = "clean"
      BY IdleTyped DEF CommandType
    <3>3. command \in [Reporter -> CommandType] /\ Owner \in Reporter
      BY DEF LocalSound, Types, Reporter
    <3>4. \A q \in Reporter : q # Owner => command'[q] = command[q]
      BY <2>3, <3>3
    <3>5. command'[Owner].pc \in {"idle", "clean"}
      BY <2>3, <3>1, <3>2, <3>3
    <3>6. command'[Owner].pc # "idle" => owner'.pc = "reporting"
      BY <2>1, <2>2, <3>1
    <3>7. ASSUME NEW q \in Reporter, command'[q].pc \in {"scan", "remove"}
          PROVE  lock' = q
      BY <2>3, <3>4, <3>5, <3>7 DEF LocalSound, LockSound
    <3>. QED
      BY <3>1, <3>6, <3>7 DEF LockSound, OwnerAt
  <2>6. WitnessSound'
    BY <2>2, <2>3 DEF LocalSound, WitnessSound, OwnerAt, Ended
  <2>. QED
    BY <2>4, <2>5, <2>6, OwnerMovesKeeps
<1>14. CASE OwnerReported
  <2>1. owner' \in OwnerType /\ owner'.pc = "gone"
    BY <1>14, OwnerToTyped DEF OwnerReported, Phase
  <2>2. OwnerMoves
    BY <1>14, <2>1 DEF OwnerReported, outputVars, OwnerMoves, LocalSound, Types,
                       OwnerType
  <2>3. LockSound'
    BY <1>14, <2>1 DEF OwnerReported, outputVars, LocalSound, LockSound, Locking,
                       Active
  <2>4. WitnessSound'
    BY <1>14, <2>1 DEF OwnerReported, outputVars, LocalSound, WitnessSound,
                       OwnerAt, Ended
  <2>. QED
    BY <2>2, <2>3, <2>4, OwnerMovesKeeps
<1>. QED
  BY <1>3, <1>4, <1>5, <1>6, <1>7, <1>8, <1>9, <1>10, <1>11, <1>12, <1>13, <1>14
     DEF OwnerStep

(* The owner is interrupted or killed: its cleanup, if it was in one, ends *)
(* with its locks.                                                         *)
LEMMA OwnerLeavesKeeps ==
    ASSUME LocalSound, owner' \in OwnerType, owner'.pc \notin Locking,
           owner.pc \in Ended => owner'.pc \in Ended, owner.pc # "gone",
           command' = [command EXCEPT ![Owner] = Idle],
           lock' = lock \/ (lock = Owner /\ lock' = NoProc),
           UNCHANGED <<files, execution, result, client, containers>>
    PROVE  LocalSound'
<1>1. OwnerMoves
  BY DEF OwnerMoves, LocalSound, Types, OwnerType
<1>2. LockSound'
  <2>1. /\ command'[Owner].pc = "idle"
        /\ \A q \in Reporter : q # Owner => command'[q] = command[q]
    BY IdleTyped DEF LocalSound, Types, Reporter
  <2>. QED
    BY <2>1 DEF LocalSound, LockSound
<1>3. WitnessSound'
  BY DEF LocalSound, WitnessSound, OwnerAt
<1>. QED
  BY <1>1, <1>2, <1>3, OwnerMovesKeeps

(* A signal to the owner, wherever it is, keeps the invariant.             *)
LEMMA SignalKeeps ==
    ASSUME LocalSound, Signal
    PROVE  LocalSound'
<1>1. owner \in OwnerType /\ owner.pc # "gone"
      /\ execution \in Outcome
  BY DEF LocalSound, Types, OwnerType, Signal
<1>2. UNCHANGED <<files, execution, result, client, containers>>
  BY DEF Signal
<1>3. CASE owner.pc \in Active
  <2>1. owner' = [owner EXCEPT !.signalled = TRUE] /\ UNCHANGED <<command, lock>>
    BY <1>3 DEF Signal
  <2>2. owner' \in OwnerType /\ owner'.pc = owner.pc
    BY <1>1, <2>1 DEF OwnerType
  <2>. QED
    BY <1>1, <1>2, <1>3, <2>1, <2>2, PhaseKeeps DEF Active, Ended
<1>4. CASE owner.pc \notin Active
  <2>1. PICK l \in Phase : /\ l = InterruptedAt(owner.pc)
                           /\ l \in {"unwinding", "interrupted", "unlocking", "gone"}
                           /\ owner.pc \in Ended => l \in Ended
    BY <1>1 DEF InterruptedAt, Phase, Ended
  <2>2. owner' \in OwnerType /\ owner'.pc = l
    BY <1>4, <2>1, OwnerToTyped DEF Signal
  <2>3. /\ command' = [command EXCEPT ![Owner] = Idle]
        /\ lock' = lock \/ (lock = Owner /\ lock' = NoProc)
    BY <1>4 DEF Signal
  <2>. QED
    BY <1>1, <1>2, <2>1, <2>2, <2>3, OwnerLeavesKeeps DEF Locking, Active
<1>. QED
  BY <1>3, <1>4

(* The owner's death, which frees its lock, keeps the invariant.           *)
LEMMA DeathKeeps ==
    ASSUME LocalSound, OwnerDies
    PROVE  LocalSound'
<1>1. owner' \in OwnerType /\ owner'.pc = "gone"
  BY OwnerToTyped DEF OwnerDies, Phase
<1>. QED
  BY <1>1, OwnerLeavesKeeps DEF OwnerDies, Locking, Active, Ended

(* What Docker and Harbor do by themselves keeps the invariant.            *)
LEMMA DockerKeeps ==
    ASSUME LocalSound, ComposeStarts \/ ComposeCreates \/ ComposeEnds \/ HarborEnds
    PROVE  LocalSound'
<1>1. CASE ComposeStarts
  <2>1. OwnerMoves
    BY <1>1 DEF ComposeStarts, OwnerMoves, LocalSound, Types, WitnessSound,
                Active, Ended
  <2>2. LockSound'
    BY <1>1 DEF ComposeStarts, LocalSound, LockSound, OwnerAt
  <2>3. WitnessSound'
    BY <1>1 DEF ComposeStarts, LocalSound, WitnessSound, OwnerAt
  <2>. QED
    BY <2>1, <2>2, <2>3, OwnerMovesKeeps
<1>2. CASE ComposeCreates
  <2>1. OwnerMoves
    BY <1>2 DEF ComposeCreates, OwnerMoves, LocalSound, Types
  <2>2. LockSound'
    BY <1>2 DEF ComposeCreates, LocalSound, LockSound, OwnerAt
  <2>3. WitnessSound'
    BY <1>2 DEF ComposeCreates, LocalSound, WitnessSound, OwnerAt
  <2>. QED
    BY <2>1, <2>2, <2>3, OwnerMovesKeeps
<1>3. CASE ComposeEnds
  <2>1. OwnerMoves
    BY <1>3 DEF ComposeEnds, OwnerMoves, LocalSound, Types
  <2>2. LockSound'
    BY <1>3 DEF ComposeEnds, LocalSound, LockSound, OwnerAt
  <2>3. WitnessSound'
    BY <1>3 DEF ComposeEnds, LocalSound, WitnessSound, OwnerAt
  <2>. QED
    BY <2>1, <2>2, <2>3, OwnerMovesKeeps
<1>4. CASE HarborEnds
  <2>1. PICK l \in {"finished", "failed", "interrupted"} : OwnerTo(l)
    BY <1>4 DEF HarborEnds
  <2>2. owner' \in OwnerType /\ owner'.pc = l
    BY <2>1, OwnerToTyped DEF Phase
  <2>3. /\ owner.pc \in Active /\ containers' \subseteq containers
        /\ UNCHANGED <<lock, files, execution, client, command>>
        /\ result' \in {"none", "finished", "invalid"}
    BY <1>4 DEF HarborEnds
  <2>4. OwnerMoves
    BY <2>2, <2>3 DEF OwnerMoves, LocalSound, Types, WitnessSound, OwnerType,
                      Active, Ended
  <2>5. LockSound'
    BY <2>2, <2>3 DEF LocalSound, LockSound, Locking, Active, OwnerAt
  <2>6. WitnessSound'
    BY <2>2, <2>3 DEF LocalSound, WitnessSound, OwnerAt, Active, Ended
  <2>. QED
    BY <2>4, <2>5, <2>6, OwnerMovesKeeps
<1>. QED
  BY <1>1, <1>2, <1>3, <1>4

-----------------------------------------------------------------------------
(* The inductive invariant holds in the initial states.                    *)
LEMMA SoundAtFirst == Init => LocalSound
<1>. SUFFICES ASSUME LocalInit PROVE LocalSound
  BY DEF Init
<1>1. \A q \in Reporter : command[q] = Idle
  BY DEF LocalInit, Reporter
<1>2. Types
  BY IdleTyped DEF LocalInit, Types, OwnerType, Phase, Outcome, Reporter
<1>3. LockSound
  BY <1>1, IdleTyped DEF LocalInit, LockSound, Locking, Active, Reporter
<1>4. WitnessSound
  BY DEF LocalInit, WitnessSound
<1>5. ASSUME NEW q \in Reporter PROVE CommandSound(q, command[q])
  BY <1>1, IdleTyped DEF CommandSound, CleanSound, VerdictSound
<1>. QED
  BY <1>2, <1>3, <1>4, <1>5 DEF LocalSound

(* Every step keeps the inductive invariant.                               *)
LEMMA SoundStays == LocalSound /\ [Next]_vars => LocalSound'
<1>. SUFFICES ASSUME LocalSound, [Next]_vars PROVE LocalSound'
  OBVIOUS
<1>1. CASE UNCHANGED localVars
  BY <1>1 DEF localVars, outputVars, LocalSound, Types, LockSound, WitnessSound,
              CommandSound, CleanSound, VerdictSound, LookedAfter, Empty, OwnerAt
<1>2. CASE LocalNext
  BY <1>2, OwnerStepKeeps, SignalKeeps, DeathKeeps, DockerKeeps, CommandsKeep
     DEF LocalNext, Reporter
<1>. QED
  BY <1>1, <1>2 DEF Next, NamespaceNext, vars

-----------------------------------------------------------------------------
(* The types of what the processes share. *)

FileNames == {"control", "binding", "stopped", "request", "observed"}

Asking == {"ask", "queue", "publish", "wait"}

OutputSound ==
    /\ lock \in Reporter \cup {NoProc}
    /\ files \subseteq FileNames
    /\ turn \in Canceller \cup {NoProc}
    /\ \A p \in Reporter : command[p].pc \in Asking => p \in Canceller

(* A step of one process moves its own locals, locks and turn.             *)
LEMMA OutputMoves ==
    ASSUME LocalSound, OutputSound, NEW p \in Reporter,
           \A q \in Reporter : q # p => command'[q] = command[q],
           command'[p].pc \in Asking => p \in Canceller,
           lock' \in {lock, p, NoProc}, files' \subseteq files \cup FileNames,
           turn' \in {turn, NoProc} \/ (turn' = p /\ p \in Canceller)
    PROVE  OutputSound'
BY DEF OutputSound

OthersStay(p) == \A q \in Reporter : q # p => command'[q] = command[q]

(* A command goes on to another stage.                                     *)
LEMMA StageReached ==
    ASSUME LocalSound, NEW p \in Reporter
    PROVE  /\ command \in [Reporter -> CommandType] /\ command[p] \in CommandType
           /\ \A l : Goes(p, l) => command'[p].pc = l /\ OthersStay(p)
           /\ \A l, v : Learns(p, l, v) => command'[p].pc = l /\ OthersStay(p)
           /\ \A v : Verdict(p, v) =>
                 command'[p].pc \in {"read", "report"} /\ OthersStay(p)
           /\ \A c : Becomes(p, c) => command'[p] = c /\ OthersStay(p)
<1>1. command \in [Reporter -> CommandType] /\ command[p] \in CommandType
  BY DEF LocalSound, Types
<1>2. \A c : Becomes(p, c) => command'[p] = c /\ OthersStay(p)
  BY <1>1 DEF Becomes, OthersStay
<1>3. \A l : Goes(p, l) => command'[p].pc = l /\ OthersStay(p)
  BY <1>1, <1>2 DEF Goes, CommandType
<1>4. ASSUME NEW l, NEW v, Learns(p, l, v)
      PROVE  command'[p].pc = l /\ OthersStay(p)
  <2> DEFINE c == [command[p] EXCEPT !.pc = l, !.state = v]
  <2>1. c.pc = l BY <1>1 DEF CommandType
  <2>2. Becomes(p, c) BY <1>4 DEF Learns
  <2> HIDE DEF c
  <2> QED BY <1>2, <2>1, <2>2
<1>5. ASSUME NEW v, Verdict(p, v)
      PROVE  command'[p].pc \in {"read", "report"} /\ OthersStay(p)
  <2> DEFINE c == [Idle EXCEPT
        !.pc = IF command[p].remove THEN "read" ELSE "report",
        !.clean = IF command[p].remove \/ p \notin Canceller
                  THEN v ELSE command[p].clean,
        !.state = command[p].state]
  <2>1. c.pc = IF command[p].remove THEN "read" ELSE "report"
    BY IdleTyped DEF CommandType
  <2>2. Becomes(p, c) BY <1>5 DEF Verdict
  <2> HIDE DEF c
  <2> QED BY <1>2, <2>1, <2>2
<1> QED BY <1>1, <1>2, <1>3, <1>4, <1>5

(* The stages of a cleanup, a report and a failure are not those of a      *)
(* cancel that asks, and every step moves one process.                     *)
LEMMA CommandOutputs ==
    ASSUME LocalSound, OutputSound, NEW p \in Reporter,
           CancelStep(p) \/ StatusBegins(p) \/ ReportStep(p) \/ CommandFails(p)
    PROVE  OutputSound'
<1>0. command \in [Reporter -> CommandType] /\ command[p] \in CommandType
  BY StageReached
<1>1. CASE CancelStep(p)
  <2>1. p \in Canceller
    BY <1>1 DEF CancelStep, CancelBegins, CancelAsks, CancelQueues, CancelPublishes,
                CancelWaits, Local, Asking, OutputSound
  <2>2. OthersStay(p)
    BY <1>1, StageReached DEF CancelStep, CancelBegins, CancelAsks, CancelQueues,
                CancelPublishes, CancelWaits
  <2>3. /\ lock' = lock /\ files' \subseteq files \cup FileNames
        /\ turn' \in {turn, NoProc, p}
    BY <1>1 DEF CancelStep, CancelBegins, CancelAsks, CancelQueues, CancelPublishes,
                CancelWaits, FileNames
  <2> QED BY <2>1, <2>2, <2>3, OutputMoves DEF OthersStay
<1>2. CASE StatusBegins(p)
  <2>1. [Idle EXCEPT !.pc = "read"].pc = "read" BY IdleTyped DEF CommandType
  <2> QED BY <1>2, <2>1, StageReached, OutputMoves DEF StatusBegins, Quiet, Asking, OthersStay
<1>3. CASE CommandFails(p)
  BY <1>3, IdleTyped, StageReached, OutputMoves DEF CommandFails, Quiet, Asking, OthersStay
<1>4. CASE ReportStep(p)
  <2>1. /\ files' = files /\ turn' \in {turn, NoProc} /\ lock' \in {lock, p, NoProc}
    BY <1>4 DEF ReportStep, CleanStep, CleanRefused, CleanEnters, Enter, CleanScans,
                CleanRemoves, ObservationFails, ReadResult, ReadExecution, ProbeOwner,
                ReportIs, Quiet, Leaves, NextRound
  <2>2. /\ OthersStay(p)
        /\ command'[p].pc \notin Asking
    <3>1. CASE CleanRefused(p) \/ ObservationFails(p)
      BY <3>1, StageReached DEF CleanRefused, ObservationFails, Leaves, Asking
    <3>2. CASE CleanEnters(p)
      <4>1. CASE Verdict(p, FALSE)
        BY <4>1, StageReached DEF Asking
      <4>2. CASE Becomes(p, [command[p] EXCEPT !.pc = "scan", !.closed = "stopped" \in files])
        <5>1. [command[p] EXCEPT !.pc = "scan", !.closed = "stopped" \in files].pc = "scan"
          BY <1>0 DEF CommandType
        <5> QED BY <4>2, <5>1, StageReached DEF Asking
      <4> QED BY <3>2, <4>1, <4>2 DEF CleanEnters, Enter
    <3>3. CASE NextRound(p)
      <4>1. [command[p] EXCEPT !.pc = "scan", !.round = command[p].round + 1].pc = "scan"
        BY <1>0 DEF CommandType
      <4>2. Becomes(p, [command[p] EXCEPT !.pc = "scan", !.round = command[p].round + 1])
        BY <3>3 DEF NextRound
      <4> QED BY <4>1, <4>2, StageReached DEF Asking
    <3>4. CASE \E v : Leaves(p, v)
      BY <3>4, StageReached DEF Leaves, Asking
    <3>5. CASE CleanScans(p)
      <4>1. \/ \E v : Leaves(p, v)
            \/ NextRound(p)
            \/ Becomes(p, [command[p] EXCEPT !.pc = "remove", !.listed = containers])
        BY <3>5 DEF CleanScans
      <4>2. [command[p] EXCEPT !.pc = "remove", !.listed = containers].pc = "remove"
        BY <1>0 DEF CommandType
      <4> QED BY <3>3, <3>4, <4>1, <4>2, StageReached DEF Asking
    <3>6. CASE CleanRemoves(p)
      <4>1. \/ \E v : Leaves(p, v)
            \/ NextRound(p)
            \/ /\ Local(p, "remove")
               /\ \E k : Becomes(p, [command[p] EXCEPT !.listed = command[p].listed \ {k}])
        BY <3>6 DEF CleanRemoves
      <4>2. \A k : [command[p] EXCEPT !.listed = command[p].listed \ {k}].pc = command[p].pc
        BY <1>0 DEF CommandType
      <4> QED BY <3>3, <3>4, <4>1, <4>2, StageReached DEF Asking, Local
    <3>7. CASE ReadResult(p)
      <4>1. \/ Goes(p, "execution") \/ Learns(p, "clean", "terminal")
            \/ Learns(p, "report", "unknown") \/ Becomes(p, Idle)
        BY <3>7 DEF ReadResult, LocalSound, Types
      <4>2. CASE Becomes(p, Idle)
        <5>1. command'[p] = Idle /\ OthersStay(p) BY <4>2, StageReached
        <5> QED BY <5>1, IdleTyped DEF Asking
      <4>3. CASE Goes(p, "execution")
        <5>1. command'[p].pc = "execution" /\ OthersStay(p) BY <4>3, StageReached
        <5> QED BY <5>1 DEF Asking
      <4>4. CASE Learns(p, "clean", "terminal") \/ Learns(p, "report", "unknown")
        <5>1. command'[p].pc \in {"clean", "report"} /\ OthersStay(p)
          BY <4>4, StageReached
        <5> QED BY <5>1 DEF Asking
      <4> QED BY <4>1, <4>2, <4>3, <4>4
    <3>8. CASE ReadExecution(p) \/ ProbeOwner(p) \/ ReportIs(p)
      <4>1. \E l \in {"probe", "clean", "idle"} : \E v : Learns(p, l, v)
        BY <3>8 DEF ReadExecution, ProbeOwner, ReportIs
      <4> QED BY <4>1, StageReached DEF Asking
    <3> QED BY <1>4, <3>1, <3>2, <3>5, <3>6, <3>7, <3>8 DEF ReportStep, CleanStep
  <2> QED BY <2>1, <2>2, OutputMoves DEF OthersStay
<1> QED BY <1>1, <1>2, <1>3, <1>4

(* Steps of the owner, Harbor and Docker.                                   *)
LEMMA OwnerOutputs ==
    ASSUME LocalSound, OutputSound,
           \/ OwnerStep \/ Signal \/ OwnerDies
           \/ ComposeStarts \/ ComposeCreates \/ ComposeEnds \/ HarborEnds
    PROVE  OutputSound'
<1> DEFINE clean == [Idle EXCEPT !.pc = "clean"]
<1>0. Owner \in Reporter /\ command \in [Reporter -> CommandType]
  BY DEF Reporter, LocalSound, Types
<1>1. clean.pc = "clean" /\ Idle.pc = "idle" BY IdleTyped DEF CommandType
<1>2. /\ turn' = turn /\ lock' \in {lock, Owner, NoProc}
      /\ files' \subseteq files \cup FileNames
  BY DEF OwnerStep, OwnerChecks, OwnerReserves, OwnerLocks, OwnerInitializes, OwnerPublishes,
         OwnerRecordsRunning, LoopStarts, CancelOnce, OwnerRecordsEnd, OwnerWitnesses,
         OwnerUnlocks, OwnerReported, Signal, OwnerDies, ComposeStarts, ComposeCreates,
         ComposeEnds, HarborEnds, outputVars, FileNames
<1>3. command' \in {command, [command EXCEPT ![Owner] = Idle],
                    [command EXCEPT ![Owner] = clean]}
  BY DEF OwnerStep, OwnerChecks, OwnerReserves, OwnerLocks, OwnerInitializes, OwnerPublishes,
         OwnerRecordsRunning, LoopStarts, CancelOnce, OwnerRecordsEnd, OwnerWitnesses,
         OwnerUnlocks, OwnerReported, Signal, OwnerDies, ComposeStarts, ComposeCreates,
         ComposeEnds, HarborEnds
<1> HIDE DEF clean
<1>4. /\ \A q \in Reporter : q # Owner => command'[q] = command[q]
      /\ command'[Owner] \in {command[Owner], Idle, clean}
  BY <1>0, <1>3
<1>5. command'[Owner].pc \in Asking => Owner \in Canceller
  BY <1>0, <1>1, <1>4 DEF Asking, OutputSound
<1> QED BY <1>0, <1>2, <1>4, <1>5, OutputMoves

(* The locks, the records and the turn keep their types.                    *)
LEMMA OutputsTyped == Spec => [](LocalSound /\ OutputSound)
<1>1. Init => LocalSound /\ OutputSound
  <2> SUFFICES ASSUME Init PROVE OutputSound BY SoundAtFirst
  <2>1. \A q \in Reporter : command[q].pc = "idle"
    BY IdleTyped DEF Init, LocalInit, Reporter
  <2> QED BY <2>1 DEF Init, LocalInit, OutputSound, Asking, FileNames
<1>2. LocalSound /\ OutputSound /\ [Next]_vars => OutputSound'
  <2> SUFFICES ASSUME LocalSound, OutputSound, [Next]_vars PROVE OutputSound' OBVIOUS
  <2>1. CASE UNCHANGED localVars
    BY <2>1 DEF localVars, outputVars, OutputSound
  <2>2. CASE LocalNext
    BY <2>2, CommandOutputs, OwnerOutputs DEF LocalNext, Reporter
  <2> QED BY <2>1, <2>2 DEF Next, NamespaceNext, vars
<1> QED BY <1>1, <1>2, SoundStays, PTL DEF Spec

-----------------------------------------------------------------------------
(* The invariant of the run, from which the theorems below follow.         *)
THEOREM LocalIsSound == Spec => []LocalSound
<1>. QED
  BY SoundAtFirst, SoundStays, PTL DEF Spec

(* A report that cleanup is complete stays true: the witness of an orderly *)
(* stop is read under the lock, no client is seen after it, and from then  *)
(* on nothing can create a container (docker_lifecycle.observe_cleanup).   *)
THEOREM CleanedStaysClean == Spec => []CompleteIsFinal
<1>1. LocalSound => CompleteIsFinal
  BY DEF LocalSound, CommandSound, CleanSound, Empty, CompleteIsFinal, Reporter
<1>. QED
  BY <1>1, LocalIsSound, PTL

(* A run that DockerEngine.cancel reports as cancelled has no native       *)
(* result, then or later, and no container.                                *)
THEOREM CancelledStaysCancelled == Spec => []CancelledIsFinal
<1>1. LocalSound => CancelledIsFinal
  <2>. SUFFICES ASSUME LocalSound, NEW p \in Canceller,
                       Local(p, "idle"), command[p].state = "cancelled"
                PROVE  result # "finished" /\ containers = {}
    BY DEF CancelledIsFinal
  <2>1. CommandSound(p, command[p])
    BY DEF LocalSound, Reporter, Command
  <2>. QED
    BY <2>1 DEF CommandSound, CleanSound, VerdictSound, LookedAfter, Empty, Local
<1>. QED
  BY <1>1, LocalIsSound, PTL

(* No command removes a container while Harbor creates or tears down its   *)
(* own: a removing command has the lock that a working owner never gives   *)
(* up (docker_lifecycle.cleanup_containers).                               *)
THEOREM RemovalWaitsForHarbor == Spec => NoRemovalWhileWorking
<1>1. LocalSound =>
        \A p \in Command : Local(p, "remove") => owner.pc \notin Active
  <2>. SUFFICES ASSUME LocalSound, NEW p \in Command, Local(p, "remove")
                PROVE  owner.pc \notin Active
    OBVIOUS
  <2>. QED
    BY ProcessesDiffer DEF LocalSound, LockSound, Locking, Local, Reporter
<1>2. LocalSound /\ [Next]_vars =>
        [\A p \in Command : Local(p, "remove") /\ containers' # containers
                                /\ command[p].listed # command'[p].listed =>
              owner.pc \notin Active]_vars
  BY <1>1
<1>. QED
  BY <1>2, LocalIsSound, PTL DEF Spec, NoRemovalWhileWorking
=============================================================================
