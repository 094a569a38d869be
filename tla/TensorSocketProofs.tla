------------------------- MODULE TensorSocketProofs -------------------------
(***************************************************************************)
(* The safety properties of TensorSocket, for any jobs, needs, buffer      *)
(* size, lag, pipe size and number of faults.  WindowInv ties what is      *)
(* prepared, sent, received and acknowledged to each other; ClosedInv and  *)
(* ServedInv say why the shutdown comes last; StreamsInv follows the       *)
(* batches of one consumer from its pipe to its training loop; RoomInv     *)
(* counts what can be in a pipe.                                           *)
(***************************************************************************)
EXTENDS TensorSocket, FiniteSetTheorems, WellFoundedInduction, TLAPS

\* The largest element of a set of integers that is bounded, and the smallest.
LEMMA MaxExists ==
    ASSUME NEW S \in SUBSET Int, S # {}, NEW bound \in Int, \A x \in S : x <= bound
    PROVE  Max(S) \in S /\ \A x \in S : x <= Max(S)
<1> DEFINE T == {n \in Nat : \E x \in S : n = bound - x}
<1>1. T \subseteq Nat /\ T # {}
  <2>1. PICK x \in S : TRUE
    OBVIOUS
  <2>2. bound - x \in T
    BY <2>1
  <2> QED BY <2>2
<1>2. PICK t \in T : \A u \in T : <<u, t>> \notin OpToRel(<, Nat)
  BY <1>1, NatLessThanWellFounded, WFMin
<1>3. PICK x \in S : t = bound - x
  OBVIOUS
<1>4. ASSUME NEW y \in S PROVE x >= y
  <2>1. bound - y \in T
    OBVIOUS
  <2>2. <<bound - y, bound - x>> \notin OpToRel(<, Nat)
    BY <1>2, <1>3, <2>1
  <2>3. ~(bound - y < bound - x)
    BY <2>2 DEF OpToRel
  <2> QED BY <2>3
<1> HIDE DEF T
<1>5. \E z \in S : \A y \in S : z >= y
  BY <1>4
<1>6. Max(S) \in S /\ \A y \in S : Max(S) >= y
  BY <1>5 DEF Max
<1> QED BY <1>6

LEMMA MinExists ==
    ASSUME NEW S \in SUBSET Int, S # {}, NEW bound \in Int, \A x \in S : bound <= x
    PROVE  Min(S) \in S /\ \A x \in S : Min(S) <= x
<1> DEFINE T == {n \in Nat : \E x \in S : n = x - bound}
<1>1. T \subseteq Nat /\ T # {}
  <2>1. PICK x \in S : TRUE
    OBVIOUS
  <2>2. x - bound \in T
    BY <2>1
  <2> QED BY <2>2
<1>2. PICK t \in T : \A u \in T : <<u, t>> \notin OpToRel(<, Nat)
  BY <1>1, NatLessThanWellFounded, WFMin
<1>3. PICK x \in S : t = x - bound
  OBVIOUS
<1>4. ASSUME NEW y \in S PROVE x =< y
  <2>1. y - bound \in T
    OBVIOUS
  <2>2. <<y - bound, x - bound>> \notin OpToRel(<, Nat)
    BY <1>2, <1>3, <2>1
  <2>3. ~(y - bound < x - bound)
    BY <2>2 DEF OpToRel
  <2> QED BY <2>3
<1> HIDE DEF T
<1>5. \E z \in S : \A y \in S : z =< y
  BY <1>4
<1>6. Min(S) \in S /\ \A y \in S : Min(S) =< y
  BY <1>5 DEF Min
<1> QED BY <1>6

-----------------------------------------------------------------------------
(* Types *)

Message == {Register, Close} \cup {AckOf(i) : i \in Nat}
Item == Nat \cup {Shutdown}
Mark == Nat \cup {-1}

ProducerTypes ==
    /\ producer \in {"starting", "waiting", "serving", "closed", "killed"}
    /\ Consumers \subseteq Jobs
    /\ lastSent \in [Consumers -> Mark]
    /\ lastAcked \in [Consumers -> Mark]
    /\ nextIndex \in Nat
    /\ buffer \subseteq Nat
    /\ run \in {"starting", "jobs", "stopping", "ended"}
    /\ faults \in 0..MaxFaults

NetTypes ==
    /\ subscribed \subseteq Jobs
    /\ pipe \in [Jobs -> Seq(Seq(Item))]
    /\ control \in [Jobs -> Seq(Message)]

ConsumerTypes ==
    /\ todo \in [Jobs -> Seq(Item)]
    /\ queue \in [Jobs -> Seq(Item)]
    /\ yielded \in [Jobs -> Seq(Nat)]
    /\ fetch \in [Jobs -> {"off", "poll", "put", "over"}]
    /\ \A j \in Jobs : fetch[j] = "put" => todo[j] # <<>>
    /\ lastReceived \in [Jobs -> Mark]
    /\ trainer \in [Jobs -> TrainerState]

Types == ProducerTypes /\ NetTypes /\ ConsumerTypes

\* What a control message is.
LEMMA MessageFields ==
    ASSUME NEW m \in Message
    PROVE  /\ m.type \in {"register", "ack", "close"}
           /\ m.type = "register" => m = Register
           /\ m.type = "close" => m = Close
           /\ m.type = "ack" => m.index \in Nat /\ m = AckOf(m.index)
BY DEF Message, Register, Close, AckOf

\* The indices from one number to another, in order.
LEMMA IntervalFacts ==
    ASSUME NEW a \in Nat, NEW b \in Mark
    PROVE  /\ Interval(a, b) \in Seq(Item)
           /\ Len(Interval(a, b)) = IF a <= b THEN b - a + 1 ELSE 0
           /\ DOMAIN Interval(a, b) = 1..Len(Interval(a, b))
           /\ \A k \in DOMAIN Interval(a, b) :
                 /\ Interval(a, b)[k] = a + k - 1
                 /\ Interval(a, b)[k] \in Nat /\ Interval(a, b)[k] <= b
           /\ a > b => Interval(a, b) = <<>>
<1> DEFINE n == IF a <= b THEN b - a + 1 ELSE 0
<1>1. n \in Nat /\ 1..n = 1..(b - a + 1)
  BY DEF Mark
<1>2. Interval(a, b) = [k \in 1..n |-> a + k - 1]
  BY <1>1 DEF Interval
<1>3. \A k \in 1..n : a + k - 1 \in Nat /\ a + k - 1 <= b
  BY DEF Mark
<1> HIDE DEF n
<1>4. Interval(a, b) \in Seq(Nat)
  BY <1>1, <1>2, <1>3
<1>5. Interval(a, b) \in Seq(Item)
  BY <1>1, <1>2, <1>3 DEF Item
<1>6. DOMAIN Interval(a, b) = 1..n /\ Len(Interval(a, b)) = n
  BY <1>1, <1>2, <1>4
<1>7. n = 0 => Interval(a, b) = <<>>
  BY <1>4, <1>6
<1> QED BY <1>1, <1>2, <1>3, <1>5, <1>6, <1>7 DEF n, Mark

-----------------------------------------------------------------------------
(* The window *)

\* Nothing is prepared or sent before the producer serves; then every job has
\* registered, so no consumer comes later and starts from nothing.
PhaseInv ==
    /\ run = "starting" => producer = "starting"
    /\ producer \in {"starting", "waiting"} =>
        /\ nextIndex = 0
        /\ \A c \in Consumers : lastSent[c] = -1
        /\ \A j \in Jobs : pipe[j] = <<>> /\ fetch[j] # "put" /\ lastReceived[j] = -1
    /\ producer = "serving" => \A j \in Jobs :
        /\ trainer[j] # "off"
        /\ trainer[j] # "ended" => j \in Consumers
        /\ \A k \in DOMAIN control[j] : control[j][k].type # "register"

\* A consumer registers once, first of all, and acknowledges what it received.
ControlInv ==
    \A j \in Jobs :
        /\ trainer[j] = "off" => control[j] = <<>> /\ j \notin Consumers
        /\ \A k \in DOMAIN control[j] :
            /\ k > 1 \/ j \in Consumers => control[j][k].type # "register"
            /\ control[j][k].type = "close" => trainer[j] = "ended"
            /\ control[j][k].type = "ack" => control[j][k].index <= lastReceived[j]

\* A job without a consumer gets nothing.
IdleInv ==
    \A j \in Jobs : trainer[j] \in {"off", "ended"} =>
        pipe[j] = <<>> /\ j \notin subscribed /\ fetch[j] \in {"off", "over"}

\* What is under way to a consumer was sent to it.
SentInv ==
    \A c \in Consumers :
        /\ \A k \in DOMAIN pipe[c] : \A i \in DOMAIN pipe[c][k] : pipe[c][k][i] <= lastSent[c]
        /\ fetch[c] = "put" => \A i \in DOMAIN todo[c] : todo[c][i] <= lastSent[c]

\* Acknowledged, received, sent and prepared, in this order, within the credit of
\* the consumer and the lag behind it.
LagInv ==
    \A c \in Consumers :
        /\ lastAcked[c] <= lastReceived[c]
        /\ lastReceived[c] <= lastSent[c]
        /\ lastSent[c] < nextIndex
        /\ lastSent[c] <= lastAcked[c] + BufferSize
        /\ nextIndex - 1 <= lastAcked[c] + MaxLag

BufferInv == buffer \subseteq (nextIndex - MaxLag)..(nextIndex - 1)

WindowInv ==
    /\ Types /\ PhaseInv /\ ControlInv /\ IdleInv /\ SentInv /\ LagInv /\ BufferInv
    /\ Servable

\* Nothing is prepared or sent at the start.
LEMMA WindowInit == Init => WindowInv
<1> SUFFICES ASSUME Init PROVE WindowInv
  OBVIOUS
<1>1. Consumers = {} /\ DOMAIN lastAcked = {}
  BY DEF Init, Consumers
<1>2. lastSent \in [Consumers -> Mark] /\ lastAcked \in [Consumers -> Mark]
  BY <1>1 DEF Init, Consumers
<1>3. ProducerTypes
  BY <1>1, <1>2, SocketAssumption DEF Init, ProducerTypes
<1>4. NetTypes /\ ConsumerTypes
  BY DEF Init, NetTypes, ConsumerTypes, Mark, TrainerState
<1>5. PhaseInv /\ ControlInv /\ IdleInv /\ SentInv /\ LagInv /\ BufferInv /\ Servable
  BY <1>1 DEF Init, PhaseInv, ControlInv, IdleInv, SentInv, LagInv, BufferInv, Servable
<1> QED BY <1>3, <1>4, <1>5 DEF WindowInv, Types

\* The limits of a round: credits, lag, and the last batch anybody may be sent.
Needed == Max({SendLimit(c) : c \in Consumers})

\* The limits lie between the credits and the lag, and Needed is the largest one.
LEMMA Limits ==
    ASSUME ProducerTypes, Consumers # {}
    PROVE  /\ SlowestAcked \in Mark
           /\ \E c \in Consumers : SlowestAcked = lastAcked[c]
           /\ \A c \in Consumers :
                /\ SlowestAcked <= lastAcked[c]
                /\ SendLimit(c) \in Nat
                /\ SendLimit(c) <= lastAcked[c] + BufferSize
                /\ SendLimit(c) <= SlowestAcked + MaxLag
                /\ SendLimit(c) <= Needed
           /\ Needed \in Nat
           /\ \E c \in Consumers : Needed = SendLimit(c)
           /\ Needed <= SlowestAcked + MaxLag
           /\ Filled = Kept \cup (nextIndex..Needed)
<1> DEFINE A == {lastAcked[c] : c \in Consumers}
           L == {SendLimit(c) : c \in Consumers}
<1>1. A \subseteq Mark /\ A # {}
  BY DEF ProducerTypes
<1>2. A \subseteq Int /\ \A x \in A : -1 <= x
  BY <1>1 DEF Mark
<1> HIDE DEF A
<1>3. Min(A) \in A /\ \A x \in A : Min(A) <= x
  BY <1>1, <1>2, MinExists
<1>4. SlowestAcked = Min(A)
  BY DEF SlowestAcked, A
<1>5. /\ SlowestAcked \in Mark
      /\ \E c \in Consumers : SlowestAcked = lastAcked[c]
      /\ \A c \in Consumers : SlowestAcked <= lastAcked[c]
  BY <1>1, <1>3, <1>4 DEF A
<1>6. ASSUME NEW c \in Consumers
      PROVE  /\ SendLimit(c) \in Nat
             /\ SendLimit(c) <= lastAcked[c] + BufferSize
             /\ SendLimit(c) <= SlowestAcked + MaxLag
  <2>1. lastAcked[c] \in Mark
    BY DEF ProducerTypes
  <2> QED BY <1>5, <2>1, SocketAssumption DEF SendLimit, MinOf, Mark
<1>7. L \subseteq Int /\ L # {} /\ \A x \in L : x <= SlowestAcked + MaxLag
  BY <1>6, Consumers # {}
<1>8. L \subseteq Nat
  BY <1>6
<1>9. \A c \in Consumers : SendLimit(c) \in L
  OBVIOUS
<1> HIDE DEF L
<1>10. SlowestAcked + MaxLag \in Int
  BY <1>5, SocketAssumption DEF Mark
<1>11. Max(L) \in L /\ \A x \in L : x <= Max(L)
  BY <1>7, <1>10, MaxExists
<1>12. Needed = Max(L)
  BY DEF Needed, L
<1>13. Filled = Kept \cup (nextIndex..Needed)
  BY DEF Filled, Needed
<1>14. \E c \in Consumers : Needed = SendLimit(c)
  BY <1>11, <1>12 DEF L
<1> QED BY <1>5, <1>6, <1>7, <1>8, <1>9, <1>11, <1>12, <1>13, <1>14

\* The last batch a consumer was sent after a round.
Reach(c) == IF lastSent[c] < SendLimit(c) THEN SendLimit(c) ELSE lastSent[c]

\* Nothing that is due is missing in the buffer: a consumer is sent all of it.
LEMMA AllIsSent ==
    ASSUME WindowInv, NEW c \in Consumers
    PROVE  /\ PartOf(c) = Interval(lastSent[c] + 1, Reach(c))
           /\ Len(PartOf(c)) = Reach(c) - lastSent[c]
           /\ PartOf(c) # <<>> <=> lastSent[c] < SendLimit(c)
           /\ Reach(c) \in Mark /\ lastSent[c] \in Mark /\ PartOf(c) \in Seq(Item)
<1>1. lastSent[c] \in Mark /\ lastAcked[c] \in Mark /\ ProducerTypes
  BY DEF WindowInv, Types, ProducerTypes
<1>2. /\ SendLimit(c) \in Nat /\ SendLimit(c) <= Needed /\ Needed \in Nat
      /\ SlowestAcked \in Mark /\ SlowestAcked <= lastAcked[c]
      /\ Filled = Kept \cup (nextIndex..Needed)
  BY <1>1, Limits
<1>3. lastAcked[c] <= lastSent[c]
  <2>1. c \in Jobs /\ lastReceived[c] \in Mark
    BY <1>1 DEF WindowInv, Types, ConsumerTypes, ProducerTypes
  <2> QED BY <1>1, <2>1 DEF WindowInv, LagInv, Mark
<1>4. (lastSent[c] + 1)..SendLimit(c) \subseteq Filled
  <2> SUFFICES ASSUME NEW b \in (lastSent[c] + 1)..SendLimit(c) PROVE b \in Filled
    OBVIOUS
  <2>1. b \in Nat /\ nextIndex \in Nat /\ b > SlowestAcked /\ b <= Needed
    BY <1>1, <1>2, <1>3 DEF Mark, ProducerTypes
  <2>2. CASE b < nextIndex
    <3>1. b \in buffer
      BY <1>1, <2>1, <2>2 DEF WindowInv, Servable, Mark
    <3> QED BY <1>2, <2>1, <3>1 DEF Kept
  <2>3. CASE b >= nextIndex
    BY <1>2, <2>1, <2>3
  <2> QED BY <2>1, <2>2, <2>3
<1> DEFINE due == (lastSent[c] + 1)..SendLimit(c)
           prepared == {i \in due : (lastSent[c] + 1)..i \subseteq Filled}
<1>5. prepared = due
  <2> SUFFICES ASSUME NEW i \in due PROVE (lastSent[c] + 1)..i \subseteq Filled
    OBVIOUS
  <2>1. (lastSent[c] + 1)..i \subseteq due
    BY <1>1, <1>2 DEF Mark
  <2> QED BY <1>4, <2>1
<1>6. Cardinality(due) = IF lastSent[c] + 1 > SendLimit(c) THEN 0
                         ELSE SendLimit(c) - (lastSent[c] + 1) + 1
  <2>1. lastSent[c] + 1 \in Int /\ SendLimit(c) \in Int
    BY <1>1, <1>2 DEF Mark
  <2> QED BY <2>1, FS_Interval
<1>7. lastSent[c] + Cardinality(prepared) = Reach(c)
  <2>1. Cardinality(prepared) = Cardinality(due)
    BY <1>5, Zenon
  <2> HIDE DEF prepared, due
  <2> QED BY <1>1, <1>2, <1>6, <2>1 DEF Reach, Mark
<1>8. PartOf(c) = Interval(lastSent[c] + 1, lastSent[c] + Cardinality(prepared))
  BY DEF PartOf
<1>9. PartOf(c) = Interval(lastSent[c] + 1, Reach(c))
  BY <1>7, <1>8
<1>10. lastSent[c] + 1 \in Nat /\ Reach(c) \in Mark /\ lastSent[c] <= Reach(c)
  BY <1>1, <1>2 DEF Reach, Mark
<1>11. /\ Len(PartOf(c)) = IF lastSent[c] + 1 <= Reach(c) THEN Reach(c) - (lastSent[c] + 1) + 1 ELSE 0
       /\ PartOf(c) \in Seq(Item)
       /\ lastSent[c] + 1 > Reach(c) => PartOf(c) = <<>>
  BY <1>9, <1>10, IntervalFacts
<1>12. Len(PartOf(c)) = Reach(c) - lastSent[c]
  BY <1>1, <1>10, <1>11 DEF Mark
<1>13. PartOf(c) # <<>> <=> lastSent[c] < SendLimit(c)
  <2>1. lastSent[c] < SendLimit(c) => Len(PartOf(c)) # 0
    BY <1>1, <1>2, <1>12 DEF Reach, Mark
  <2>2. Len(<<>>) = 0
    OBVIOUS
  <2>3. lastSent[c] < SendLimit(c) => PartOf(c) # <<>>
    BY <2>1, <2>2
  <2>4. ~(lastSent[c] < SendLimit(c)) => lastSent[c] + 1 > Reach(c)
    BY <1>1, <1>2 DEF Reach, Mark
  <2> QED BY <1>11, <2>3, <2>4
<1> QED BY <1>1, <1>9, <1>10, <1>11, <1>12, <1>13

\* What a round does.
LEMMA ServeEffect ==
    ASSUME WindowInv, Serve
    PROVE  /\ UNCHANGED <<producer, lastAcked, subscribed, control, fetchVars, jobVars, run,
                          faults>>
           /\ producer = "serving" /\ Consumers # {}
           /\ lastSent' = [c \in Consumers |-> Reach(c)]
           /\ \A c \in Consumers : lastSent[c] <= Reach(c) /\ Reach(c) \in Mark
           /\ nextIndex' \in Nat /\ nextIndex <= nextIndex'
           /\ \A c \in Consumers : Reach(c) < nextIndex'
           /\ nextIndex' - 1 <= SlowestAcked + MaxLag
           /\ nextIndex' = nextIndex \/ \E c \in Consumers : nextIndex' <= SendLimit(c) + 1
           /\ buffer' \subseteq Nat
           /\ \A b \in buffer' : b > SlowestAcked /\ b < nextIndex'
           /\ \A c \in Consumers : (Reach(c) + 1)..(nextIndex' - 1) \subseteq buffer'
           /\ \/ pipe' = pipe /\ nextIndex' = nextIndex /\ \A c \in Consumers : Reach(c) = lastSent[c]
              \/ pipe' = Published([c \in Jobs |-> IF c \in Consumers THEN PartOf(c) ELSE <<>>])
<1> DEFINE part == [c \in Jobs |-> IF c \in Consumers THEN PartOf(c) ELSE <<>>]
           due == {c \in Consumers : part[c] # <<>>}
<1>1. ProducerTypes /\ Consumers \subseteq Jobs /\ nextIndex \in Nat /\ buffer \subseteq Nat
  BY DEF WindowInv, Types, ProducerTypes
<1>2. /\ UNCHANGED <<producer, lastAcked, subscribed, control, fetchVars, jobVars, run, faults>>
      /\ producer = "serving" /\ Consumers # {}
  BY DEF Serve
<1>3. IF due = {}
      THEN buffer' = Kept /\ UNCHANGED <<lastSent, nextIndex, pipe>>
      ELSE /\ buffer' = Filled
           /\ nextIndex' = Max(Filled \cup {nextIndex - 1}) + 1
           /\ lastSent' = [c \in Consumers |-> lastSent[c] + Len(part[c])]
           /\ pipe' = Published(part)
  BY DEF Serve
<1>4. \A c \in Consumers : part[c] = PartOf(c)
  BY <1>1
<1>5. \A c \in Consumers :
        /\ Len(part[c]) = Reach(c) - lastSent[c]
        /\ part[c] # <<>> <=> lastSent[c] < SendLimit(c)
        /\ Reach(c) \in Mark /\ lastSent[c] \in Mark
  BY <1>4, AllIsSent
<1>6. /\ SlowestAcked \in Mark /\ Needed \in Nat /\ Needed <= SlowestAcked + MaxLag
      /\ Filled = Kept \cup (nextIndex..Needed)
      /\ \A c \in Consumers : SendLimit(c) \in Nat /\ SendLimit(c) <= Needed
      /\ \A c \in Consumers : SlowestAcked <= lastAcked[c]
  BY <1>1, <1>2, Limits
<1>7. \A c \in Consumers : lastSent[c] <= Reach(c)
  <2> SUFFICES ASSUME NEW c \in Consumers PROVE lastSent[c] <= Reach(c)
    OBVIOUS
  <2>1. lastSent[c] \in Mark /\ SendLimit(c) \in Nat
    BY <1>5, <1>6
  <2> QED BY <2>1 DEF Reach, Mark
<1>8. \A b \in buffer : b \in Nat /\ b < nextIndex
  BY <1>1, SocketAssumption DEF WindowInv, BufferInv
<1>9. nextIndex - 1 <= SlowestAcked + MaxLag
  <2>1. PICK c \in Consumers : SlowestAcked = lastAcked[c]
    BY <1>1, <1>2, Limits
  <2> QED BY <2>1 DEF WindowInv, LagInv
<1>10. \A c \in Consumers : lastSent[c] < nextIndex /\ lastAcked[c] <= lastSent[c]
  <2> SUFFICES ASSUME NEW c \in Consumers
               PROVE  lastSent[c] < nextIndex /\ lastAcked[c] <= lastSent[c]
    OBVIOUS
  <2>1. lastAcked[c] \in Mark /\ lastReceived[c] \in Mark /\ lastSent[c] \in Mark
    BY <1>1 DEF WindowInv, Types, ConsumerTypes, ProducerTypes
  <2> QED BY <2>1 DEF WindowInv, LagInv, Mark
<1>11. Kept = {b \in buffer : b > SlowestAcked}
  BY DEF Kept
<1>12. \A c \in Consumers : (lastSent[c] + 1)..(nextIndex - 1) \subseteq Kept
  <2> SUFFICES ASSUME NEW c \in Consumers, NEW b \in (lastSent[c] + 1)..(nextIndex - 1)
               PROVE  b \in Kept
    OBVIOUS
  <2>1. b \in buffer
    BY DEF WindowInv, Servable
  <2>2. lastAcked[c] \in Int /\ lastSent[c] \in Int /\ SlowestAcked \in Int
    BY <1>1, <1>6 DEF ProducerTypes, Mark
  <2>3. b > lastSent[c] /\ b \in Int
    BY <1>1, <2>2
  <2>4. SlowestAcked <= lastAcked[c] /\ lastAcked[c] <= lastSent[c]
    BY <1>6, <1>10
  <2>5. b > SlowestAcked
    BY <2>2, <2>3, <2>4
  <2> QED BY <1>11, <2>1, <2>5
<1> HIDE DEF part
<1>13. CASE due = {}
  <2>1. \A c \in Consumers : ~(lastSent[c] < SendLimit(c))
    BY <1>5, <1>13
  <2>2. \A c \in Consumers : Reach(c) = lastSent[c]
    BY <2>1 DEF Reach
  <2>3. buffer' = Kept /\ UNCHANGED <<lastSent, nextIndex, pipe>>
    BY <1>3, <1>13
  <2>4. lastSent' = [c \in Consumers |-> Reach(c)]
    <3>1. lastSent = [c \in Consumers |-> lastSent[c]]
      BY <1>1 DEF ProducerTypes
    <3> QED BY <2>2, <2>3, <3>1
  <2>5. /\ nextIndex' \in Nat /\ nextIndex <= nextIndex' /\ nextIndex' - 1 <= SlowestAcked + MaxLag
        /\ \A c \in Consumers : Reach(c) < nextIndex'
    BY <1>1, <1>9, <1>10, <2>2, <2>3
  <2>6. buffer' \subseteq Nat /\ \A b \in buffer' : b > SlowestAcked /\ b < nextIndex'
    BY <1>1, <1>8, <1>11, <2>3
  <2>7. \A c \in Consumers : (Reach(c) + 1)..(nextIndex' - 1) \subseteq buffer'
    BY <1>12, <2>2, <2>3
  <2> QED BY <1>2, <1>5, <1>7, <2>2, <2>3, <2>4, <2>5, <2>6, <2>7
<1>14. CASE due # {}
  <2>1. /\ buffer' = Filled
        /\ nextIndex' = Max(Filled \cup {nextIndex - 1}) + 1
        /\ lastSent' = [c \in Consumers |-> lastSent[c] + Len(part[c])]
        /\ pipe' = Published(part)
    BY <1>3, <1>14
  <2>2. lastSent' = [c \in Consumers |-> Reach(c)]
    <3>1. \A c \in Consumers : lastSent[c] + Len(part[c]) = Reach(c)
      BY <1>5 DEF Mark
    <3> QED BY <2>1, <3>1
  <2>3. /\ Filled \cup {nextIndex - 1} \subseteq Int
        /\ \A b \in Filled : b \in Nat /\ b > SlowestAcked /\ b <= SlowestAcked + MaxLag
    <3> SUFFICES ASSUME NEW b \in Filled
                 PROVE  b \in Nat /\ b > SlowestAcked /\ b <= SlowestAcked + MaxLag
      BY <1>1
    <3>1. CASE b \in Kept
      BY <1>1, <1>6, <1>8, <1>9, <1>11, <3>1, SocketAssumption DEF Mark
    <3>2. CASE b \in nextIndex..Needed
      <4>1. PICK c \in Consumers : SlowestAcked = lastAcked[c]
        BY <1>1, <1>2, Limits
      <4>2. SlowestAcked < nextIndex
        BY <1>1, <1>5, <1>6, <1>10, <4>1 DEF Mark
      <4> QED BY <1>1, <1>6, <3>2, <4>2, SocketAssumption DEF Mark
    <3> QED BY <1>6, <3>1, <3>2
  <2> DEFINE last == Max(Filled \cup {nextIndex - 1})
  <2>4. \A b \in Filled \cup {nextIndex - 1} : b <= SlowestAcked + MaxLag
    BY <1>9, <2>3
  <2>5. SlowestAcked + MaxLag \in Int
    BY <1>6, SocketAssumption DEF Mark
  <2>6. /\ last \in Filled \cup {nextIndex - 1}
        /\ \A b \in Filled \cup {nextIndex - 1} : b <= last
    BY <2>3, <2>4, <2>5, MaxExists
  <2> HIDE DEF last
  <2>7. last \in Int /\ nextIndex - 1 <= last /\ last <= SlowestAcked + MaxLag
    BY <2>3, <2>4, <2>6
  <2>8. nextIndex' = last + 1
    BY <2>1 DEF last
  <2>9. \A c \in Consumers : Reach(c) < nextIndex'
    <3> SUFFICES ASSUME NEW c \in Consumers PROVE Reach(c) <= last
      BY <1>5, <2>7, <2>8 DEF Mark
    <3>1. CASE lastSent[c] < SendLimit(c)
      <4>1. Reach(c) = SendLimit(c) /\ SendLimit(c) \in Nat /\ SendLimit(c) <= Needed
        BY <1>6, <3>1 DEF Reach
      <4>2. CASE SendLimit(c) < nextIndex
        BY <1>1, <2>7, <4>1, <4>2
      <4>3. CASE SendLimit(c) >= nextIndex
        <5>1. SendLimit(c) \in Filled
          BY <1>1, <1>6, <4>1, <4>3
        <5> QED BY <2>6, <4>1, <5>1
      <4> QED BY <1>1, <4>1, <4>2, <4>3
    <3>2. CASE ~(lastSent[c] < SendLimit(c))
      BY <1>1, <1>5, <1>10, <2>7, <3>2 DEF Reach, Mark
    <3> QED BY <3>1, <3>2
  <2>10. last <= Needed \/ last < nextIndex
    <3>1. CASE last \in Kept
      BY <1>8, <1>11, <3>1
    <3>2. CASE last \in nextIndex..Needed
      BY <3>2
    <3>3. CASE last = nextIndex - 1
      BY <1>1, <3>3
    <3> QED BY <1>6, <2>6, <3>1, <3>2, <3>3
  <2>11. \A c \in Consumers : (Reach(c) + 1)..(nextIndex' - 1) \subseteq buffer'
    <3> SUFFICES ASSUME NEW c \in Consumers, NEW b \in (Reach(c) + 1)..(nextIndex' - 1)
                 PROVE  b \in Filled
      BY <2>1
    <3>1. b \in Int /\ b <= last /\ lastSent[c] + 1 <= b /\ b \in Nat
      BY <1>5, <1>7, <2>7, <2>8 DEF Mark
    <3>2. CASE b < nextIndex
      <4>1. b \in (lastSent[c] + 1)..(nextIndex - 1)
        BY <1>1, <1>5, <3>1, <3>2 DEF Mark
      <4> QED BY <1>6, <1>12, <4>1
    <3>3. CASE b >= nextIndex
      BY <1>1, <1>6, <2>7, <2>10, <3>1, <3>3
    <3> QED BY <1>1, <3>1, <3>2, <3>3
  <2>12. buffer' \subseteq Nat /\ \A b \in buffer' : b > SlowestAcked /\ b < nextIndex'
    BY <2>1, <2>3, <2>6, <2>7, <2>8
  <2>13. nextIndex' \in Nat /\ nextIndex <= nextIndex' /\ nextIndex' - 1 <= SlowestAcked + MaxLag
    BY <1>1, <2>7, <2>8
  <2>14. pipe' = Published([c \in Jobs |-> IF c \in Consumers THEN PartOf(c) ELSE <<>>])
    BY <2>1 DEF part
  <2>15. nextIndex' = nextIndex \/ \E c \in Consumers : nextIndex' <= SendLimit(c) + 1
    <3>1. PICK c \in Consumers : Needed = SendLimit(c)
      BY <1>1, <1>2, Limits
    <3>2. last <= Needed => nextIndex' <= SendLimit(c) + 1
      BY <1>6, <2>7, <2>8, <3>1
    <3>3. last < nextIndex => nextIndex' = nextIndex
      BY <1>1, <2>7, <2>8
    <3> QED BY <2>10, <3>2, <3>3
  <2> QED BY <1>2, <1>5, <1>7, <2>2, <2>9, <2>11, <2>12, <2>13, <2>14, <2>15
<1> QED BY <1>13, <1>14

\* What a published message does to the pipes.
LEMMA PublishedPipes ==
    ASSUME NetTypes, NEW part \in [Jobs -> Seq(Item)]
    PROVE  /\ Published(part) \in [Jobs -> Seq(Seq(Item))]
           /\ \A j \in Jobs :
                Published(part)[j] = IF j \in subscribed /\ Len(pipe[j]) < PipeSize
                                     THEN Append(pipe[j], part[j]) ELSE pipe[j]
<1>1. \A j \in Jobs : /\ pipe[j] \in Seq(Seq(Item)) /\ part[j] \in Seq(Item)
                      /\ Append(pipe[j], part[j]) \in Seq(Seq(Item))
  BY DEF NetTypes
<1> QED BY <1>1 DEF Published

\* The sizes are numbers.
LEMMA Sizes ==
    /\ BufferSize \in Int /\ BufferSize > 0 /\ MaxLag \in Int /\ MaxLag >= BufferSize
    /\ PipeSize \in Int /\ PipeSize > 0
BY SocketAssumption

\* What is above the slowest consumer is within the lag.
LEMMA WithinLag ==
    ASSUME NEW slowest \in Int, NEW next \in Int, NEW lag \in Int, NEW b \in Int,
           next - 1 <= slowest + lag, b > slowest, b < next
    PROVE  b \in (next - lag)..(next - 1)
OBVIOUS

\* A limit only grows with the acknowledgements.
LEMMA LimitGrows ==
    ASSUME NEW x \in Int, NEW slowest \in Int, NEW acked \in Int, NEW lag \in Int,
           x <= slowest + lag, slowest <= acked
    PROVE  x <= acked + lag
OBVIOUS

\* A round sends within the limits and keeps what somebody still needs.
LEMMA WindowServe ==
    ASSUME WindowInv, Serve PROVE WindowInv'
<1> DEFINE part == [c \in Jobs |-> IF c \in Consumers THEN PartOf(c) ELSE <<>>]
<1>0. /\ ProducerTypes /\ NetTypes /\ ConsumerTypes /\ Consumers \subseteq Jobs
      /\ subscribed \subseteq Jobs
  BY DEF WindowInv, Types, ProducerTypes, NetTypes
<1>1. /\ UNCHANGED <<producer, lastAcked, subscribed, control, todo, fetch, lastReceived, queue,
                    trainer, yielded, run, faults>>
      /\ producer = "serving" /\ Consumers # {}
  BY ServeEffect DEF fetchVars, jobVars
<1>2. /\ lastSent' = [c \in Consumers |-> Reach(c)]
      /\ \A c \in Consumers : lastSent[c] <= Reach(c) /\ Reach(c) \in Mark
  BY ServeEffect
<1>3. /\ nextIndex' \in Nat /\ nextIndex <= nextIndex'
      /\ \A c \in Consumers : Reach(c) < nextIndex'
      /\ nextIndex' - 1 <= SlowestAcked + MaxLag
      /\ buffer' \subseteq Nat
      /\ \A b \in buffer' : b > SlowestAcked /\ b < nextIndex'
      /\ \A c \in Consumers : (Reach(c) + 1)..(nextIndex' - 1) \subseteq buffer'
  BY ServeEffect
<1>4. pipe' = pipe \/ pipe' = Published(part)
  BY ServeEffect
<1>5. Consumers' = Consumers
  BY <1>2 DEF Consumers
<1>6. \A c \in Consumers : lastSent'[c] = Reach(c)
  BY <1>2
<1>7. part \in [Jobs -> Seq(Item)]
  <2>1. \A c \in Consumers : PartOf(c) \in Seq(Item)
    BY AllIsSent
  <2> QED BY <2>1
<1>8. \A c \in Consumers : part[c] = Interval(lastSent[c] + 1, Reach(c))
  BY <1>0, AllIsSent
<1> HIDE DEF part
<1>9. /\ pipe' \in [Jobs -> Seq(Seq(Item))]
      /\ \A j \in Jobs : \/ pipe'[j] = pipe[j]
                         \/ j \in subscribed /\ pipe'[j] = Append(pipe[j], part[j])
  <2>1. pipe \in [Jobs -> Seq(Seq(Item))]
    BY <1>0 DEF NetTypes
  <2> QED BY <1>0, <1>4, <1>7, <2>1, PublishedPipes
<1>10. Types'
  <2>1. ProducerTypes'
    BY <1>0, <1>1, <1>2, <1>3, <1>5 DEF ProducerTypes
  <2>2. NetTypes' /\ ConsumerTypes'
    BY <1>0, <1>1, <1>9 DEF NetTypes, ConsumerTypes
  <2> QED BY <2>1, <2>2 DEF Types
<1>11. PhaseInv' /\ ControlInv'
  BY <1>1, <1>5 DEF WindowInv, PhaseInv, ControlInv
<1>12. IdleInv'
  BY <1>1, <1>9 DEF WindowInv, IdleInv
<1>13. SentInv'
  <2> SUFFICES ASSUME NEW c \in Consumers
      PROVE  /\ \A k \in DOMAIN pipe'[c] : \A i \in DOMAIN pipe'[c][k] :
                    pipe'[c][k][i] <= lastSent'[c]
             /\ fetch'[c] = "put" => \A i \in DOMAIN todo'[c] : todo'[c][i] <= lastSent'[c]
    BY <1>5 DEF SentInv
  <2>1. /\ lastSent[c] \in Int /\ Reach(c) \in Int /\ lastSent[c] <= Reach(c)
        /\ lastSent'[c] = Reach(c)
    BY <1>0, <1>2, <1>6 DEF ProducerTypes, Mark
  <2>2. c \in Jobs /\ pipe[c] \in Seq(Seq(Item)) /\ todo[c] \in Seq(Item) /\ part[c] \in Seq(Item)
    BY <1>0, <1>7 DEF NetTypes, ConsumerTypes
  <2>3. \A n \in Item : n <= lastSent[c] => n <= lastSent'[c]
    BY <2>1 DEF Item, Shutdown
  <2>4. fetch'[c] = "put" => \A i \in DOMAIN todo'[c] : todo'[c][i] <= lastSent'[c]
    <3> SUFFICES ASSUME fetch[c] = "put", NEW i \in DOMAIN todo[c]
                 PROVE  todo[c][i] <= lastSent'[c]
      BY <1>1
    <3>1. todo[c][i] \in Item
      BY <2>2
    <3>2. todo[c][i] <= lastSent[c]
      BY DEF WindowInv, SentInv
    <3> QED BY <2>3, <3>1, <3>2
  <2>5. \A k \in DOMAIN pipe[c] : \A i \in DOMAIN pipe[c][k] : pipe[c][k][i] <= lastSent'[c]
    <3> SUFFICES ASSUME NEW k \in DOMAIN pipe[c], NEW i \in DOMAIN pipe[c][k]
                 PROVE  pipe[c][k][i] <= lastSent'[c]
      OBVIOUS
    <3>1. pipe[c][k] \in Seq(Item)
      BY <2>2
    <3>2. pipe[c][k][i] \in Item
      BY <3>1
    <3>3. pipe[c][k][i] <= lastSent[c]
      BY DEF WindowInv, SentInv
    <3> QED BY <2>3, <3>2, <3>3
  <2>6. \A i \in DOMAIN part[c] : part[c][i] <= lastSent'[c]
    <3>1. lastSent[c] + 1 \in Nat /\ Reach(c) \in Mark
      BY <1>0, <1>2 DEF ProducerTypes, Mark
    <3> QED BY <1>8, <2>1, <3>1, IntervalFacts
  <2>7. CASE pipe'[c] = pipe[c]
    BY <2>4, <2>5, <2>7
  <2>8. CASE pipe'[c] = Append(pipe[c], part[c])
    <3> SUFFICES ASSUME NEW k \in DOMAIN pipe'[c]
                 PROVE  \A i \in DOMAIN pipe'[c][k] : pipe'[c][k][i] <= lastSent'[c]
      BY <2>4
    <3>1. \/ k \in DOMAIN pipe[c] /\ pipe'[c][k] = pipe[c][k]
          \/ pipe'[c][k] = part[c]
      BY <2>2, <2>8
    <3> QED BY <2>5, <2>6, <3>1
  <2> QED BY <1>9, <2>2, <2>7, <2>8
<1>14. LagInv'
  <2> SUFFICES ASSUME NEW c \in Consumers
      PROVE  /\ lastAcked[c] <= lastReceived[c]
             /\ lastReceived[c] <= lastSent'[c]
             /\ lastSent'[c] < nextIndex'
             /\ lastSent'[c] <= lastAcked[c] + BufferSize
             /\ nextIndex' - 1 <= lastAcked[c] + MaxLag
    BY <1>1, <1>5 DEF LagInv
  <2>1. /\ lastSent[c] \in Int /\ Reach(c) \in Int /\ lastSent[c] <= Reach(c)
        /\ lastSent'[c] = Reach(c) /\ lastReceived[c] \in Int /\ lastAcked[c] \in Int
    BY <1>0, <1>1, <1>2, <1>6 DEF ProducerTypes, ConsumerTypes, Mark
  <2>4. /\ SlowestAcked \in Int /\ SlowestAcked <= lastAcked[c]
        /\ SendLimit(c) \in Int /\ SendLimit(c) <= lastAcked[c] + BufferSize
    BY <1>0, <1>1, Limits DEF Mark
  <2>2. /\ lastAcked[c] <= lastReceived[c] /\ lastReceived[c] <= lastSent[c]
        /\ lastSent[c] <= lastAcked[c] + BufferSize
    BY DEF WindowInv, LagInv
  <2>3. Reach(c) <= lastAcked[c] + BufferSize
    BY <2>1, <2>2, <2>4 DEF Reach
  <2>5. lastReceived[c] <= lastSent'[c] /\ lastSent'[c] <= lastAcked[c] + BufferSize
    BY <2>1, <2>2, <2>3
  <2>6. nextIndex' \in Int /\ nextIndex' - 1 <= SlowestAcked + MaxLag /\ MaxLag \in Int
    BY <1>3, Sizes
  <2>7. nextIndex' - 1 <= lastAcked[c] + MaxLag
    <3>1. nextIndex' - 1 \in Int
      BY <2>6
    <3> QED BY <2>1, <2>4, <2>6, <3>1, LimitGrows
  <2> QED BY <1>3, <2>1, <2>2, <2>5, <2>7
<1>15. BufferInv'
  <2>1. SlowestAcked \in Int
    BY <1>0, <1>1, Limits DEF Mark
  <2>2. nextIndex' \in Int /\ nextIndex' - 1 <= SlowestAcked + MaxLag /\ MaxLag \in Int
    BY <1>3, Sizes
  <2> SUFFICES ASSUME NEW b \in buffer' PROVE b \in (nextIndex' - MaxLag)..(nextIndex' - 1)
    BY DEF BufferInv
  <2>3. b \in Int /\ b > SlowestAcked /\ b < nextIndex'
    BY <1>3
  <2> QED BY <2>1, <2>2, <2>3, WithinLag
<1>16. Servable'
  BY <1>3, <1>5, <1>6 DEF Servable
<1> QED BY <1>10, <1>11, <1>12, <1>13, <1>14, <1>15, <1>16 DEF WindowInv

\* The first message of a queue and the others.
LEMMA HeadAndTail ==
    ASSUME NEW S, NEW q \in Seq(S), q # <<>>
    PROVE  /\ Head(q) \in S /\ Head(q) = q[1] /\ 1 \in DOMAIN q
           /\ Tail(q) \in Seq(S) /\ Len(Tail(q)) = Len(q) - 1
           /\ \A k \in DOMAIN Tail(q) : k + 1 \in DOMAIN q /\ Tail(q)[k] = q[k + 1] /\ k >= 1
OBVIOUS

\* What a message that is added does to the others.
LEMMA Appended ==
    ASSUME NEW S, NEW q \in Seq(S), NEW x \in S, NEW k \in DOMAIN Append(q, x)
    PROVE  \/ k \in DOMAIN q /\ Append(q, x)[k] = q[k]
           \/ k = Len(q) + 1 /\ Append(q, x)[k] = x
OBVIOUS

\* The producer learns of a consumer, an acknowledgement or a close.
LEMMA WindowControl ==
    ASSUME WindowInv, NEW c \in Jobs, DrainControl(c) PROVE WindowInv'
<1> DEFINE m == Head(control[c])
<1>0. /\ ProducerTypes /\ NetTypes /\ ConsumerTypes /\ Consumers \subseteq Jobs
      /\ control[c] \in Seq(Message)
  BY DEF WindowInv, Types, ProducerTypes, NetTypes
<1>1. /\ UNCHANGED <<producer, nextIndex, buffer, subscribed, pipe, todo, fetch, lastReceived,
                    queue, trainer, yielded, run, faults>>
      /\ producer \in {"waiting", "serving"}
      /\ control[c] # <<>>
      /\ control' = [control EXCEPT ![c] = Tail(@)]
  BY DEF DrainControl, fetchVars, jobVars
<1>2. /\ m \in Message /\ m = control[c][1] /\ 1 \in DOMAIN control[c]
      /\ Tail(control[c]) \in Seq(Message)
      /\ \A k \in DOMAIN Tail(control[c]) :
            k + 1 \in DOMAIN control[c] /\ Tail(control[c])[k] = control[c][k + 1] /\ k + 1 > 1
  BY <1>0, <1>1, HeadAndTail
<1>3. \/ m.type = "register"
         /\ lastSent' = [d \in Consumers \cup {c} |-> IF d \in Consumers THEN lastSent[d] ELSE -1]
         /\ lastAcked' = [d \in Consumers \cup {c} |-> IF d \in Consumers THEN lastAcked[d] ELSE -1]
      \/ m.type = "ack" /\ c \in Consumers /\ lastAcked' = Acked(c, m.index) /\ UNCHANGED lastSent
      \/ m.type = "close" /\ c \in Consumers
         /\ lastSent' = [d \in Consumers \ {c} |-> lastSent[d]]
         /\ lastAcked' = [d \in Consumers \ {c} |-> lastAcked[d]]
      \/ UNCHANGED <<lastSent, lastAcked>>
  BY DEF DrainControl
<1> HIDE DEF m
<1>4. \A j \in Jobs : control'[j] = IF j = c THEN Tail(control[c]) ELSE control[j]
  BY <1>0, <1>1 DEF NetTypes
<1>5. NetTypes' /\ ConsumerTypes'
  BY <1>0, <1>1, <1>2 DEF NetTypes, ConsumerTypes
<1>6. \A k \in DOMAIN control'[c] :
         /\ control'[c][k].type # "register"
         /\ \E l \in DOMAIN control[c] : control'[c][k] = control[c][l]
  <2> SUFFICES ASSUME NEW k \in DOMAIN Tail(control[c])
               PROVE  /\ Tail(control[c])[k].type # "register"
                      /\ \E l \in DOMAIN control[c] : Tail(control[c])[k] = control[c][l]
    BY <1>4
  <2>1. k + 1 \in DOMAIN control[c] /\ k + 1 > 1 /\ Tail(control[c])[k] = control[c][k + 1]
    BY <1>2
  <2> QED BY <2>1 DEF WindowInv, ControlInv
<1>7. /\ m.type = "register" => c \notin Consumers /\ producer = "waiting"
      /\ m.type = "close" => trainer[c] = "ended"
      /\ m.type = "ack" => m.index \in Nat /\ m.index <= lastReceived[c]
  BY <1>1, <1>2, MessageFields DEF WindowInv, ControlInv, PhaseInv
<1>8. /\ lastSent \in [Consumers -> Mark] /\ lastAcked \in [Consumers -> Mark]
      /\ lastReceived \in [Jobs -> Mark]
      /\ \A d \in Consumers : lastAcked[d] <= lastReceived[d]
  BY <1>0 DEF WindowInv, LagInv, ProducerTypes, ConsumerTypes
<1> DEFINE Effect ==
      /\ Consumers' \subseteq Consumers \cup {c}
      /\ lastSent' \in [Consumers' -> Mark] /\ lastAcked' \in [Consumers' -> Mark]
      /\ \A d \in Consumers' :
            IF d \in Consumers
            THEN /\ lastSent'[d] = lastSent[d]
                 /\ lastAcked[d] <= lastAcked'[d] /\ lastAcked'[d] <= lastReceived[d]
            ELSE d = c /\ producer = "waiting" /\ lastSent'[d] = -1 /\ lastAcked'[d] = -1
      /\ \A d \in Consumers : d \notin Consumers' => trainer[d] = "ended"
<1>9. Effect
  <2>1. CASE /\ m.type = "register"
             /\ lastSent' = [d \in Consumers \cup {c} |->
                                IF d \in Consumers THEN lastSent[d] ELSE -1]
             /\ lastAcked' = [d \in Consumers \cup {c} |->
                                IF d \in Consumers THEN lastAcked[d] ELSE -1]
    <3>1. Consumers' = Consumers \cup {c}
      BY <2>1 DEF Consumers
    <3> QED BY <1>7, <1>8, <2>1, <3>1 DEF Mark
  <2>2. CASE /\ m.type = "ack" /\ c \in Consumers /\ UNCHANGED lastSent
             /\ lastAcked' = Acked(c, m.index)
    <3>1. Consumers' = Consumers
      BY <2>2 DEF Consumers
    <3>2. lastAcked' = [lastAcked EXCEPT ![c] = IF @ < m.index THEN m.index ELSE @]
      BY <2>2 DEF Acked
    <3>3. m.index \in Nat /\ m.index <= lastReceived[c]
      BY <1>7, <2>2
    <3>4. lastAcked' \in [Consumers -> Mark]
      BY <1>8, <3>2, <3>3 DEF Mark
    <3>5. \A d \in Consumers : lastAcked[d] <= lastAcked'[d] /\ lastAcked'[d] <= lastReceived[d]
      BY <1>0, <1>8, <3>2, <3>3 DEF Mark
    <3> QED BY <1>8, <2>2, <3>1, <3>4, <3>5
  <2>3. CASE /\ m.type = "close" /\ c \in Consumers
             /\ lastSent' = [d \in Consumers \ {c} |-> lastSent[d]]
             /\ lastAcked' = [d \in Consumers \ {c} |-> lastAcked[d]]
    <3>1. Consumers' = Consumers \ {c}
      BY <2>3 DEF Consumers
    <3> QED BY <1>7, <1>8, <2>3, <3>1 DEF Mark
  <2>4. CASE UNCHANGED <<lastSent, lastAcked>>
    <3>1. Consumers' = Consumers
      BY <2>4 DEF Consumers
    <3> QED BY <1>8, <2>4, <3>1 DEF Mark
  <2> QED BY <1>3, <2>1, <2>2, <2>3, <2>4
<1> HIDE DEF Effect
<1>10. \A d \in Consumers' : d \in Jobs /\ lastSent'[d] \in Mark /\ lastAcked'[d] \in Mark
  BY <1>0, <1>9 DEF Effect
<1>11. Types'
  <2>1. ProducerTypes'
    BY <1>0, <1>1, <1>9 DEF ProducerTypes, Effect
  <2> QED BY <1>5, <2>1 DEF Types
<1>12. PhaseInv'
  <2>1. producer \in {"starting", "waiting"} => \A d \in Consumers' : lastSent'[d] = -1
    BY <1>9 DEF Effect, WindowInv, PhaseInv
  <2>2. ASSUME producer = "serving", NEW j \in Jobs
        PROVE  /\ trainer[j] # "ended" => j \in Consumers'
               /\ \A k \in DOMAIN control'[j] : control'[j][k].type # "register"
    BY <1>4, <1>6, <1>9, <2>2 DEF Effect, WindowInv, PhaseInv
  <2> QED BY <1>1, <2>1, <2>2 DEF WindowInv, PhaseInv
<1>13. ControlInv'
  <2> SUFFICES ASSUME NEW j \in Jobs
      PROVE  /\ trainer[j] = "off" => control'[j] = <<>> /\ j \notin Consumers'
             /\ \A k \in DOMAIN control'[j] :
                 /\ k > 1 \/ j \in Consumers' => control'[j][k].type # "register"
                 /\ control'[j][k].type = "close" => trainer[j] = "ended"
                 /\ control'[j][k].type = "ack" => control'[j][k].index <= lastReceived[j]
    BY <1>1 DEF ControlInv
  <2>1. CASE j = c
    BY <1>1, <1>6, <2>1 DEF WindowInv, ControlInv
  <2>2. CASE j # c
    <3>1. control'[j] = control[j] /\ (j \in Consumers' => j \in Consumers)
      BY <1>4, <1>9, <2>2 DEF Effect
    <3> QED BY <3>1 DEF WindowInv, ControlInv
  <2> QED BY <2>1, <2>2
<1>14. IdleInv'
  BY <1>1 DEF WindowInv, IdleInv
<1>15. SentInv'
  <2> SUFFICES ASSUME NEW d \in Consumers'
      PROVE  /\ \A k \in DOMAIN pipe[d] : \A i \in DOMAIN pipe[d][k] : pipe[d][k][i] <= lastSent'[d]
             /\ fetch[d] = "put" => \A i \in DOMAIN todo[d] : todo[d][i] <= lastSent'[d]
    BY <1>1 DEF SentInv
  <2>1. CASE d \in Consumers
    BY <1>9, <2>1 DEF Effect, WindowInv, SentInv
  <2>2. CASE d \notin Consumers
    BY <1>9, <1>10, <2>2 DEF Effect, WindowInv, PhaseInv
  <2> QED BY <2>1, <2>2
<1>16. LagInv'
  <2> SUFFICES ASSUME NEW d \in Consumers'
      PROVE  /\ lastAcked'[d] <= lastReceived[d]
             /\ lastReceived[d] <= lastSent'[d]
             /\ lastSent'[d] < nextIndex
             /\ lastSent'[d] <= lastAcked'[d] + BufferSize
             /\ nextIndex - 1 <= lastAcked'[d] + MaxLag
    BY <1>1 DEF LagInv
  <2>1. CASE d \in Consumers
    <3>1. /\ lastSent'[d] = lastSent[d]
          /\ lastAcked[d] <= lastAcked'[d] /\ lastAcked'[d] <= lastReceived[d]
      BY <1>9, <2>1 DEF Effect
    <3>2. lastAcked[d] \in Int /\ lastAcked'[d] \in Int /\ lastSent[d] \in Int /\ nextIndex \in Int
      BY <1>0, <1>8, <1>10, <2>1 DEF Mark, ProducerTypes
    <3>3. /\ lastReceived[d] <= lastSent[d] /\ lastSent[d] < nextIndex
          /\ lastSent[d] <= lastAcked[d] + BufferSize /\ nextIndex - 1 <= lastAcked[d] + MaxLag
      BY <2>1 DEF WindowInv, LagInv
    <3> QED BY <3>1, <3>2, <3>3, Sizes
  <2>2. CASE d \notin Consumers
    <3>1. /\ lastSent'[d] = -1 /\ lastAcked'[d] = -1 /\ producer = "waiting" /\ d \in Jobs
      BY <1>9, <1>10, <2>2 DEF Effect
    <3>2. nextIndex = 0 /\ lastReceived[d] = -1
      BY <3>1 DEF WindowInv, PhaseInv
    <3> QED BY <3>1, <3>2, Sizes
  <2> QED BY <2>1, <2>2
<1>17. BufferInv'
  BY <1>1 DEF WindowInv, BufferInv
<1>18. Servable'
  <2> SUFFICES ASSUME NEW d \in Consumers' PROVE (lastSent'[d] + 1)..(nextIndex - 1) \subseteq buffer
    BY <1>1 DEF Servable
  <2>1. CASE d \in Consumers
    BY <1>9, <2>1 DEF Effect, WindowInv, Servable
  <2>2. CASE d \notin Consumers
    <3>1. lastSent'[d] = -1 /\ producer = "waiting"
      BY <1>9, <2>2 DEF Effect
    <3>2. nextIndex = 0
      BY <3>1 DEF WindowInv, PhaseInv
    <3> QED BY <3>1, <3>2
  <2> QED BY <2>1, <2>2
<1> QED BY <1>11, <1>12, <1>13, <1>14, <1>15, <1>16, <1>17, <1>18 DEF WindowInv

\* The fetch thread takes a message out of the pipe.
LEMMA WindowReceive ==
    ASSUME WindowInv, NEW j \in Jobs, Receive(j) PROVE WindowInv'
<1>0. /\ ProducerTypes /\ NetTypes /\ ConsumerTypes /\ Consumers \subseteq Jobs
      /\ pipe[j] \in Seq(Seq(Item))
  BY DEF WindowInv, Types, ProducerTypes, NetTypes
<1>1. /\ UNCHANGED <<producer, lastSent, lastAcked, nextIndex, buffer, subscribed, control,
                    lastReceived, queue, trainer, yielded, run, faults>>
      /\ fetch[j] = "poll" /\ pipe[j] # <<>>
      /\ todo' = [todo EXCEPT ![j] = Head(pipe[j])]
      /\ fetch' = [fetch EXCEPT ![j] = IF Head(pipe[j]) = <<>> THEN "poll" ELSE "put"]
      /\ pipe' = [pipe EXCEPT ![j] = Tail(@)]
  BY DEF Receive, producerVars, jobVars
<1>2. /\ Head(pipe[j]) \in Seq(Item) /\ Head(pipe[j]) = pipe[j][1] /\ 1 \in DOMAIN pipe[j]
      /\ Tail(pipe[j]) \in Seq(Seq(Item))
      /\ \A k \in DOMAIN Tail(pipe[j]) :
            k + 1 \in DOMAIN pipe[j] /\ Tail(pipe[j])[k] = pipe[j][k + 1]
  BY <1>0, <1>1, HeadAndTail
<1>3. /\ \A i \in Jobs : i # j => todo'[i] = todo[i] /\ fetch'[i] = fetch[i] /\ pipe'[i] = pipe[i]
      /\ todo'[j] = Head(pipe[j]) /\ pipe'[j] = Tail(pipe[j])
      /\ fetch'[j] = "put" => Head(pipe[j]) # <<>>
      /\ fetch'[j] \in {"poll", "put"}
  BY <1>0, <1>1 DEF NetTypes, ConsumerTypes
<1>4. Consumers' = Consumers
  BY <1>1 DEF Consumers
<1>5. Types'
  <2>1. pipe' \in [Jobs -> Seq(Seq(Item))]
    BY <1>0, <1>1, <1>2 DEF NetTypes
  <2>2. todo' \in [Jobs -> Seq(Item)]
    BY <1>0, <1>1, <1>2 DEF ConsumerTypes
  <2>3. fetch' \in [Jobs -> {"off", "poll", "put", "over"}]
    BY <1>0, <1>1 DEF ConsumerTypes
  <2>4. \A i \in Jobs : fetch'[i] = "put" => todo'[i] # <<>>
    BY <1>0, <1>3 DEF ConsumerTypes
  <2>5. ProducerTypes'
    BY <1>0, <1>1, <1>4 DEF ProducerTypes
  <2> QED BY <1>0, <1>1, <2>1, <2>2, <2>3, <2>4, <2>5 DEF Types, NetTypes, ConsumerTypes
<1>6. trainer[j] \notin {"off", "ended"} /\ producer \notin {"starting", "waiting"}
  BY <1>1 DEF WindowInv, IdleInv, PhaseInv
<1>7. PhaseInv' /\ ControlInv' /\ IdleInv'
  BY <1>1, <1>3, <1>4, <1>6 DEF WindowInv, PhaseInv, ControlInv, IdleInv
<1>8. SentInv'
  <2> SUFFICES ASSUME NEW c \in Consumers
      PROVE  /\ \A k \in DOMAIN pipe'[c] : \A i \in DOMAIN pipe'[c][k] : pipe'[c][k][i] <= lastSent[c]
             /\ fetch'[c] = "put" => \A i \in DOMAIN todo'[c] : todo'[c][i] <= lastSent[c]
    BY <1>1, <1>4 DEF SentInv
  <2>1. CASE c = j
    <3>1. \A k \in DOMAIN pipe[j] : \A i \in DOMAIN pipe[j][k] : pipe[j][k][i] <= lastSent[j]
      BY <2>1 DEF WindowInv, SentInv
    <3>2. \A i \in DOMAIN Head(pipe[j]) : Head(pipe[j])[i] <= lastSent[j]
      BY <1>2, <3>1
    <3>3. \A k \in DOMAIN Tail(pipe[j]) : \A i \in DOMAIN Tail(pipe[j])[k] :
             Tail(pipe[j])[k][i] <= lastSent[j]
      BY <1>2, <3>1
    <3> QED BY <1>3, <2>1, <3>2, <3>3
  <2>2. CASE c # j
    BY <1>0, <1>3, <2>2 DEF WindowInv, SentInv
  <2> QED BY <2>1, <2>2
<1>9. LagInv' /\ BufferInv' /\ Servable'
  BY <1>1, <1>4 DEF WindowInv, LagInv, BufferInv, Servable
<1> QED BY <1>5, <1>7, <1>8, <1>9 DEF WindowInv

\* A batch is put into the consumer's buffer and acknowledged, or skipped.
LEMMA WindowPut ==
    ASSUME WindowInv, NEW j \in Jobs, Put(j) PROVE WindowInv'
<1> DEFINE item == Head(todo[j])
           fresh == ~Skipped(j, item)
           batch == fresh /\ item # Shutdown
<1>0. /\ ProducerTypes /\ NetTypes /\ ConsumerTypes /\ Consumers \subseteq Jobs
      /\ todo[j] \in Seq(Item) /\ lastReceived[j] \in Mark /\ control[j] \in Seq(Message)
      /\ queue[j] \in Seq(Item)
  BY DEF WindowInv, Types, ProducerTypes, NetTypes, ConsumerTypes
<1>1. /\ UNCHANGED <<producer, lastSent, lastAcked, nextIndex, buffer, subscribed, pipe,
                    trainer, yielded, run, faults>>
      /\ fetch[j] = "put"
      /\ queue' = [queue EXCEPT ![j] = IF fresh THEN Append(@, item) ELSE @]
      /\ todo' = [todo EXCEPT ![j] = Tail(@)]
      /\ fetch' = [fetch EXCEPT ![j] = IF item = Shutdown THEN "over"
                                      ELSE IF Len(todo[j]) = 1 THEN "poll" ELSE "put"]
      /\ lastReceived' = [lastReceived EXCEPT ![j] = IF batch THEN item ELSE @]
      /\ control' = [control EXCEPT ![j] = IF batch THEN Append(@, AckOf(item)) ELSE @]
  BY DEF Put, producerVars, jobVars
<1>2. /\ item \in Item /\ item = todo[j][1] /\ 1 \in DOMAIN todo[j]
      /\ Tail(todo[j]) \in Seq(Item) /\ Len(Tail(todo[j])) = Len(todo[j]) - 1
      /\ \A k \in DOMAIN Tail(todo[j]) :
            k + 1 \in DOMAIN todo[j] /\ Tail(todo[j])[k] = todo[j][k + 1]
  BY <1>0, <1>1, HeadAndTail DEF ConsumerTypes
<1>3. batch => item \in Nat /\ item > lastReceived[j]
  BY <1>0, <1>2 DEF Skipped, Item, Mark
<1> HIDE DEF item, fresh, batch
<1>4. /\ \A i \in Jobs : i # j => /\ todo'[i] = todo[i] /\ fetch'[i] = fetch[i]
                                  /\ lastReceived'[i] = lastReceived[i]
                                  /\ control'[i] = control[i]
      /\ todo'[j] = Tail(todo[j])
      /\ fetch'[j] = "put" => Len(todo[j]) # 1
      /\ fetch'[j] \in {"poll", "put", "over"}
      /\ lastReceived'[j] = IF batch THEN item ELSE lastReceived[j]
      /\ control'[j] = IF batch THEN Append(control[j], AckOf(item)) ELSE control[j]
  BY <1>0, <1>1 DEF NetTypes, ConsumerTypes
<1>5. Consumers' = Consumers
  BY <1>1 DEF Consumers
<1>6. Types'
  <2>1. todo' \in [Jobs -> Seq(Item)]
    BY <1>0, <1>1, <1>2 DEF ConsumerTypes
  <2>2. queue' \in [Jobs -> Seq(Item)]
    BY <1>0, <1>1, <1>2 DEF ConsumerTypes
  <2>3. fetch' \in [Jobs -> {"off", "poll", "put", "over"}]
    BY <1>0, <1>1 DEF ConsumerTypes
  <2>4. \A i \in Jobs : fetch'[i] = "put" => todo'[i] # <<>>
    <3>1. Len(todo[j]) # 1 => Len(Tail(todo[j])) # 0
      BY <1>0, <1>2
    <3>2. fetch'[j] = "put" => todo'[j] # <<>>
      <4>1. Len(<<>>) = 0
        OBVIOUS
      <4> QED BY <1>4, <3>1, <4>1
    <3> QED BY <1>0, <1>4, <3>2 DEF ConsumerTypes
  <2>5. lastReceived' \in [Jobs -> Mark]
    BY <1>0, <1>1, <1>3 DEF ConsumerTypes, Mark
  <2>6. control' \in [Jobs -> Seq(Message)]
    <3>1. batch => Append(control[j], AckOf(item)) \in Seq(Message)
      BY <1>0, <1>3 DEF Message
    <3> QED BY <1>0, <1>1, <3>1 DEF NetTypes
  <2>7. ProducerTypes'
    BY <1>0, <1>1, <1>5 DEF ProducerTypes
  <2> QED BY <1>0, <1>1, <2>1, <2>2, <2>3, <2>4, <2>5, <2>6, <2>7
          DEF Types, NetTypes, ConsumerTypes
<1>7. trainer[j] \notin {"off", "ended"} /\ producer \notin {"starting", "waiting"}
  BY <1>1 DEF WindowInv, IdleInv, PhaseInv
<1>8. \A k \in DOMAIN control'[j] :
         \/ k \in DOMAIN control[j] /\ control'[j][k] = control[j][k]
         \/ batch /\ control'[j][k] = AckOf(item)
  BY <1>0, <1>4
<1>9. \A i \in Jobs : lastReceived[i] <= lastReceived'[i] /\ lastReceived[i] \in Int
                      /\ lastReceived'[i] \in Int
  <2>1. \A i \in Jobs : lastReceived[i] \in Int
    BY <1>0 DEF ConsumerTypes, Mark
  <2>2. lastReceived[j] <= lastReceived'[j] /\ lastReceived'[j] \in Int
    BY <1>3, <1>4, <2>1
  <2> QED BY <1>4, <2>1, <2>2
<1>10. /\ AckOf(item).type = "ack" /\ AckOf(item).index = item
  BY DEF AckOf
<1>11. PhaseInv'
  <2>1. \A k \in DOMAIN control'[j] : control'[j][k].type = "register" => k \in DOMAIN control[j]
                                       /\ control[j][k].type = "register"
    BY <1>8, <1>10
  <2> QED BY <1>1, <1>4, <1>5, <1>7, <2>1 DEF WindowInv, PhaseInv
<1>12. ControlInv'
  <2> SUFFICES ASSUME NEW i \in Jobs
      PROVE  /\ trainer[i] = "off" => control'[i] = <<>> /\ i \notin Consumers
             /\ \A k \in DOMAIN control'[i] :
                 /\ k > 1 \/ i \in Consumers => control'[i][k].type # "register"
                 /\ control'[i][k].type = "close" => trainer[i] = "ended"
                 /\ control'[i][k].type = "ack" => control'[i][k].index <= lastReceived'[i]
    BY <1>1, <1>5 DEF ControlInv
  <2>1. CASE i # j
    BY <1>4, <2>1 DEF WindowInv, ControlInv
  <2>2. CASE i = j
    <3>1. trainer[i] # "off"
      BY <1>7, <2>2
    <3>2. ASSUME NEW k \in DOMAIN control'[j]
          PROVE  /\ k > 1 \/ j \in Consumers => control'[j][k].type # "register"
                 /\ control'[j][k].type = "close" => trainer[j] = "ended"
                 /\ control'[j][k].type = "ack" => control'[j][k].index <= lastReceived'[j]
      <4>1. CASE k \in DOMAIN control[j] /\ control'[j][k] = control[j][k]
        <5>1. /\ k > 1 \/ j \in Consumers => control[j][k].type # "register"
              /\ control[j][k].type = "close" => trainer[j] = "ended"
              /\ control[j][k].type = "ack" => control[j][k].index <= lastReceived[j]
          BY <4>1 DEF WindowInv, ControlInv
        <5>2. control[j][k].type = "ack" => control[j][k].index \in Nat
          <6>1. control[j][k] \in Message
            BY <1>0, <4>1
          <6> QED BY <6>1, MessageFields
        <5> QED BY <1>9, <4>1, <5>1, <5>2
      <4>2. CASE batch /\ control'[j][k] = AckOf(item)
        BY <1>3, <1>4, <1>10, <4>2
      <4> QED BY <1>8, <4>1, <4>2
    <3> QED BY <2>2, <3>1, <3>2
  <2> QED BY <2>1, <2>2
<1>13. IdleInv'
  BY <1>1, <1>4, <1>7 DEF WindowInv, IdleInv
<1>14. SentInv'
  <2> SUFFICES ASSUME NEW c \in Consumers
      PROVE  /\ \A k \in DOMAIN pipe[c] : \A i \in DOMAIN pipe[c][k] : pipe[c][k][i] <= lastSent[c]
             /\ fetch'[c] = "put" => \A i \in DOMAIN todo'[c] : todo'[c][i] <= lastSent[c]
    BY <1>1, <1>5 DEF SentInv
  <2>1. CASE c = j
    BY <1>1, <1>2, <1>4, <2>1 DEF WindowInv, SentInv
  <2>2. CASE c # j
    BY <1>0, <1>4, <2>2 DEF WindowInv, SentInv
  <2> QED BY <2>1, <2>2
<1>15. LagInv'
  <2> SUFFICES ASSUME NEW c \in Consumers
      PROVE  lastAcked[c] <= lastReceived'[c] /\ lastReceived'[c] <= lastSent[c]
    BY <1>1, <1>5 DEF WindowInv, LagInv
  <2>1. lastAcked[c] <= lastReceived[c] /\ lastReceived[c] <= lastSent[c]
    BY DEF WindowInv, LagInv
  <2>2. lastAcked[c] \in Int /\ lastSent[c] \in Int /\ c \in Jobs
    BY <1>0 DEF ProducerTypes, Mark
  <2>3. c = j => item <= lastSent[c]
    BY <1>1, <1>2 DEF WindowInv, SentInv
  <2> QED BY <1>4, <1>9, <2>1, <2>2, <2>3
<1>16. BufferInv' /\ Servable'
  BY <1>1, <1>5 DEF WindowInv, BufferInv, Servable
<1> QED BY <1>6, <1>11, <1>12, <1>13, <1>14, <1>15, <1>16 DEF WindowInv

\* A consumer connects and registers.
LEMMA WindowConnect ==
    ASSUME WindowInv, NEW j \in Jobs, Connect(j) PROVE WindowInv'
<1>0. /\ ProducerTypes /\ NetTypes /\ ConsumerTypes /\ Consumers \subseteq Jobs
      /\ control[j] \in Seq(Message)
  BY DEF WindowInv, Types, ProducerTypes, NetTypes
<1>1. /\ UNCHANGED <<producer, lastSent, lastAcked, nextIndex, buffer, subscribed, pipe, todo,
                    lastReceived, queue, yielded, run, faults>>
      /\ trainer[j] = "off"
      /\ trainer' = [trainer EXCEPT ![j] = "training"]
      /\ fetch' = [fetch EXCEPT ![j] = "poll"]
      /\ control' = [control EXCEPT ![j] = Append(@, Register)]
  BY DEF Connect, producerVars
<1>2. control[j] = <<>> /\ j \notin Consumers /\ producer # "serving"
  BY <1>1 DEF WindowInv, ControlInv, PhaseInv
<1>3. /\ \A i \in Jobs : i # j => /\ trainer'[i] = trainer[i] /\ fetch'[i] = fetch[i]
                                  /\ control'[i] = control[i]
      /\ trainer'[j] = "training" /\ fetch'[j] = "poll"
      /\ control'[j] = Append(<<>>, Register)
  BY <1>0, <1>1, <1>2 DEF NetTypes, ConsumerTypes
<1>4. Consumers' = Consumers
  BY <1>1 DEF Consumers
<1>5. \A k \in DOMAIN control'[j] : k = 1 /\ control'[j][k] = Register
  BY <1>3
<1>6. Register.type = "register"
  BY DEF Register
<1>7. Types'
  <2>1. control' \in [Jobs -> Seq(Message)]
    <3>1. Append(control[j], Register) \in Seq(Message)
      BY <1>0 DEF Message
    <3> QED BY <1>0, <1>1, <3>1 DEF NetTypes
  <2>2. ProducerTypes'
    BY <1>0, <1>1, <1>4 DEF ProducerTypes
  <2>3. ConsumerTypes'
    BY <1>0, <1>1, <1>3 DEF ConsumerTypes, TrainerState
  <2> QED BY <1>0, <1>1, <2>1, <2>2, <2>3 DEF Types, NetTypes
<1>8. PhaseInv' /\ IdleInv'
  BY <1>1, <1>2, <1>3, <1>4 DEF WindowInv, PhaseInv, IdleInv
<1>9. ControlInv'
  BY <1>1, <1>2, <1>3, <1>4, <1>5, <1>6 DEF WindowInv, ControlInv
<1>10. SentInv'
  BY <1>0, <1>1, <1>2, <1>3, <1>4 DEF WindowInv, SentInv
<1>11. LagInv' /\ BufferInv' /\ Servable'
  BY <1>1, <1>4 DEF WindowInv, LagInv, BufferInv, Servable
<1> QED BY <1>7, <1>8, <1>9, <1>10, <1>11 DEF WindowInv

\* A consumer closes, and its close is on its way or lost.
LEMMA WindowClose ==
    ASSUME WindowInv, NEW j \in Jobs, CloseConsumer(j) PROVE WindowInv'
<1>0. /\ ProducerTypes /\ NetTypes /\ ConsumerTypes /\ Consumers \subseteq Jobs
      /\ control[j] \in Seq(Message)
  BY DEF WindowInv, Types, ProducerTypes, NetTypes
<1>1. /\ UNCHANGED <<producer, lastSent, lastAcked, nextIndex, buffer, todo,
                    lastReceived, queue, yielded, run>>
      /\ trainer[j] = "closing"
      /\ trainer' = [trainer EXCEPT ![j] = "ended"]
      /\ fetch' = [fetch EXCEPT ![j] = "over"]
      /\ subscribed' = subscribed \ {j}
      /\ pipe' = [pipe EXCEPT ![j] = <<>>]
      /\ control' = [control EXCEPT ![j] = Append(@, Close)] \/ control' = control
      /\ faults' \in 0..MaxFaults
  BY <1>0, SocketAssumption DEF CloseConsumer, producerVars, Fault, ProducerTypes
<1>2. /\ \A i \in Jobs : i # j => /\ trainer'[i] = trainer[i] /\ fetch'[i] = fetch[i]
                                  /\ control'[i] = control[i] /\ pipe'[i] = pipe[i]
      /\ trainer'[j] = "ended" /\ fetch'[j] = "over" /\ pipe'[j] = <<>>
      /\ control'[j] = control[j] \/ control'[j] = Append(control[j], Close)
  BY <1>0, <1>1 DEF NetTypes, ConsumerTypes
<1>3. Consumers' = Consumers
  BY <1>1 DEF Consumers
<1>4. \A k \in DOMAIN control'[j] : \/ k \in DOMAIN control[j] /\ control'[j][k] = control[j][k]
                                    \/ control'[j][k] = Close
  BY <1>0, <1>2
<1>5. Close.type = "close"
  BY DEF Close
<1>6. Types'
  <2>1. control' \in [Jobs -> Seq(Message)]
    <3>1. Append(control[j], Close) \in Seq(Message)
      BY <1>0 DEF Message
    <3> QED BY <1>0, <1>1, <3>1 DEF NetTypes
  <2>2. ProducerTypes'
    BY <1>0, <1>1, <1>3 DEF ProducerTypes
  <2>3. ConsumerTypes'
    BY <1>0, <1>1, <1>2 DEF ConsumerTypes, TrainerState
  <2>4. pipe' \in [Jobs -> Seq(Seq(Item))] /\ subscribed' \subseteq Jobs
    BY <1>0, <1>1 DEF NetTypes
  <2> QED BY <2>1, <2>2, <2>3, <2>4 DEF Types, NetTypes
<1>7. PhaseInv'
  BY <1>1, <1>2, <1>3, <1>4, <1>5 DEF WindowInv, PhaseInv
<1>8. IdleInv'
  BY <1>1, <1>2 DEF WindowInv, IdleInv
<1>9. ControlInv'
  <2>1. trainer[j] # "off"
    BY <1>1
  <2> QED BY <1>1, <1>2, <1>3, <1>4, <1>5, <2>1 DEF WindowInv, ControlInv
<1>10. SentInv'
  BY <1>0, <1>1, <1>2, <1>3 DEF WindowInv, SentInv
<1>11. LagInv' /\ BufferInv' /\ Servable'
  BY <1>1, <1>3 DEF WindowInv, LagInv, BufferInv, Servable
<1> QED BY <1>6, <1>7, <1>8, <1>9, <1>10, <1>11 DEF WindowInv

\* The producer closes, and its shutdown is published or lost.
LEMMA WindowShutdown ==
    ASSUME WindowInv, producer \in {"waiting", "serving"}, CloseProducer,
           faults' \in 0..MaxFaults
    PROVE  WindowInv'
<1> DEFINE part == [c \in Jobs |-> <<Shutdown>>]
<1>0. /\ ProducerTypes /\ NetTypes /\ ConsumerTypes /\ Consumers \subseteq Jobs
      /\ subscribed \subseteq Jobs
  BY DEF WindowInv, Types, ProducerTypes, NetTypes
<1>1. /\ UNCHANGED <<lastSent, lastAcked, nextIndex, buffer, subscribed, control, todo, fetch,
                    lastReceived, queue, trainer, yielded, run>>
      /\ producer' = "closed"
      /\ pipe' = pipe \/ pipe' = Published(part)
  BY DEF CloseProducer, fetchVars, jobVars
<1>2. part \in [Jobs -> Seq(Item)] /\ \A c \in Jobs : part[c] = <<Shutdown>>
  BY DEF Item
<1> HIDE DEF part
<1>3. /\ pipe' \in [Jobs -> Seq(Seq(Item))]
      /\ \A j \in Jobs : \/ pipe'[j] = pipe[j]
                         \/ j \in subscribed /\ pipe'[j] = Append(pipe[j], <<Shutdown>>)
  <2>1. pipe \in [Jobs -> Seq(Seq(Item))]
    BY <1>0 DEF NetTypes
  <2> QED BY <1>0, <1>1, <1>2, <2>1, PublishedPipes
<1>4. Consumers' = Consumers
  BY <1>1 DEF Consumers
<1>5. Types'
  <2>1. ProducerTypes'
    BY <1>0, <1>1, <1>4 DEF ProducerTypes
  <2> QED BY <1>0, <1>1, <1>3, <2>1 DEF Types, NetTypes, ConsumerTypes
<1>6. PhaseInv' /\ ControlInv'
  BY <1>1, <1>4 DEF WindowInv, PhaseInv, ControlInv
<1>7. IdleInv'
  BY <1>1, <1>3 DEF WindowInv, IdleInv
<1>8. SentInv'
  <2> SUFFICES ASSUME NEW c \in Consumers, NEW k \in DOMAIN pipe'[c], NEW i \in DOMAIN pipe'[c][k]
               PROVE  pipe'[c][k][i] <= lastSent[c]
    BY <1>1, <1>4 DEF WindowInv, SentInv
  <2>1. c \in Jobs /\ pipe[c] \in Seq(Seq(Item)) /\ lastSent[c] \in Mark
    BY <1>0 DEF NetTypes, ProducerTypes
  <2>2. CASE k \in DOMAIN pipe[c] /\ pipe'[c][k] = pipe[c][k]
    BY <2>2 DEF WindowInv, SentInv
  <2>3. CASE pipe'[c][k] = <<Shutdown>>
    BY <2>1, <2>3 DEF Shutdown, Mark
  <2>4. \/ k \in DOMAIN pipe[c] /\ pipe'[c][k] = pipe[c][k]
        \/ pipe'[c][k] = <<Shutdown>>
    <3>1. \/ pipe'[c] = pipe[c]
          \/ pipe'[c] = Append(pipe[c], <<Shutdown>>)
      BY <1>3, <2>1
    <3>2. <<Shutdown>> \in Seq(Item)
      BY DEF Item
    <3>3. ASSUME pipe'[c] = Append(pipe[c], <<Shutdown>>)
          PROVE  \/ k \in DOMAIN pipe[c] /\ pipe'[c][k] = pipe[c][k]
                 \/ pipe'[c][k] = <<Shutdown>>
      <4>1. k \in DOMAIN Append(pipe[c], <<Shutdown>>)
        BY <3>3
      <4>2. \/ k \in DOMAIN pipe[c] /\ Append(pipe[c], <<Shutdown>>)[k] = pipe[c][k]
            \/ Append(pipe[c], <<Shutdown>>)[k] = <<Shutdown>>
        BY <2>1, <3>2, <4>1, Appended
      <4> QED BY <3>3, <4>2
    <3> QED BY <3>1, <3>3
  <2> QED BY <2>2, <2>3, <2>4
<1>9. LagInv' /\ BufferInv' /\ Servable'
  BY <1>1, <1>4 DEF WindowInv, LagInv, BufferInv, Servable
<1> QED BY <1>5, <1>6, <1>7, <1>8, <1>9 DEF WindowInv

\* A training loop takes a batch, gives up, or fails; it does not connect or close
\* a consumer.
LEMMA WindowTrain ==
    ASSUME WindowInv, NEW j \in Jobs, Train(j) \/ GiveUpWait(j) \/ JobFails(j),
           faults' \in 0..MaxFaults
    PROVE  WindowInv'
<1>0. /\ ProducerTypes /\ NetTypes /\ ConsumerTypes /\ Consumers \subseteq Jobs
      /\ queue[j] \in Seq(Item) /\ yielded[j] \in Seq(Nat)
  BY DEF WindowInv, Types, ProducerTypes, ConsumerTypes
<1>1. /\ UNCHANGED <<producer, lastSent, lastAcked, nextIndex, buffer, subscribed, pipe, control,
                    todo, fetch, lastReceived, run>>
      /\ \E s \in TrainerState \ {"off"} :
            /\ trainer' = [trainer EXCEPT ![j] = s]
            /\ s = "ended" <=> trainer[j] = "off"
      /\ trainer[j] \in {"off", "training"}
  BY DEF Train, GiveUpWait, JobFails, producerVars, netVars, fetchVars, TrainerState
<1>2. queue' \in [Jobs -> Seq(Item)] /\ yielded' \in [Jobs -> Seq(Nat)]
  <2>1. CASE Train(j)
    <3>1. Head(queue[j]) \in Item /\ Tail(queue[j]) \in Seq(Item)
      BY <1>0, <2>1, HeadAndTail DEF Train
    <3>2. Head(queue[j]) # Shutdown => Append(yielded[j], Head(queue[j])) \in Seq(Nat)
      BY <1>0, <3>1 DEF Item
    <3> QED BY <1>0, <2>1, <3>1, <3>2 DEF Train, ConsumerTypes
  <2>2. CASE GiveUpWait(j) \/ JobFails(j)
    BY <1>0, <2>2 DEF GiveUpWait, JobFails, fetchVars, ConsumerTypes
  <2> QED BY <2>1, <2>2
<1>3. PICK s \in TrainerState \ {"off"} :
          /\ trainer' = [trainer EXCEPT ![j] = s]
          /\ s = "ended" <=> trainer[j] = "off"
  BY <1>1
<1>4. /\ \A i \in Jobs : i # j => trainer'[i] = trainer[i]
      /\ trainer'[j] = s
  BY <1>0, <1>3 DEF ConsumerTypes
<1>5. Consumers' = Consumers
  BY <1>1 DEF Consumers
<1>6. Types'
  <2>1. ProducerTypes'
    BY <1>0, <1>1, <1>5 DEF ProducerTypes
  <2> QED BY <1>0, <1>1, <1>2, <1>3, <2>1 DEF Types, NetTypes, ConsumerTypes
<1>7. \A i \in Jobs : /\ trainer'[i] # "off"  \/ trainer[i] = "off"
                      /\ trainer'[i] = "ended" => trainer[i] \in {"off", "ended"}
                      /\ trainer[i] = "ended" => trainer'[i] = "ended"
  BY <1>1, <1>3, <1>4
<1>8. PhaseInv' /\ IdleInv'
  BY <1>1, <1>5, <1>7 DEF WindowInv, PhaseInv, IdleInv
<1>9. ControlInv'
  BY <1>1, <1>5, <1>7 DEF WindowInv, ControlInv
<1>10. SentInv' /\ LagInv' /\ BufferInv' /\ Servable'
  BY <1>1, <1>5 DEF WindowInv, SentInv, LagInv, BufferInv, Servable
<1> QED BY <1>6, <1>8, <1>9, <1>10 DEF WindowInv

\* The subscription of a consumer that is connected arrives.
LEMMA WindowSubscribe ==
    ASSUME WindowInv, NEW j \in Jobs, Subscribe(j) PROVE WindowInv'
<1>1. /\ UNCHANGED <<producer, lastSent, lastAcked, nextIndex, buffer, pipe, control, todo, fetch,
                    lastReceived, queue, trainer, yielded, run, faults>>
      /\ trainer[j] \notin {"off", "ended"}
      /\ subscribed' = subscribed \cup {j}
  BY DEF Subscribe, Connected, producerVars, fetchVars, jobVars
<1>2. Consumers' = Consumers
  BY <1>1 DEF Consumers
<1>3. Types'
  BY <1>1, <1>2 DEF WindowInv, Types, ProducerTypes, NetTypes, ConsumerTypes
<1>4. PhaseInv' /\ ControlInv' /\ IdleInv' /\ SentInv'
  BY <1>1, <1>2 DEF WindowInv, PhaseInv, ControlInv, IdleInv, SentInv
<1>5. LagInv' /\ BufferInv' /\ Servable'
  BY <1>1, <1>2 DEF WindowInv, LagInv, BufferInv, Servable
<1> QED BY <1>3, <1>4, <1>5 DEF WindowInv

\* Only the phase of the producer or of the run changes.
LEMMA WindowPhase ==
    ASSUME WindowInv,
           UNCHANGED <<lastSent, lastAcked, nextIndex, buffer, subscribed, pipe, control, todo,
                       fetch, lastReceived, queue, trainer, yielded>>,
           run' \in {"starting", "jobs", "stopping", "ended"},
           run' = "starting" => producer' = "starting",
           faults' \in 0..MaxFaults,
           \/ producer' \in {producer, "closed", "killed"}
           \/ producer = "starting" /\ producer' = "waiting"
           \/ producer = "waiting" /\ producer' = "serving" /\ Consumers = Jobs
    PROVE  WindowInv'
<1>1. Consumers' = Consumers
  BY DEF Consumers
<1>2. Types'
  BY <1>1 DEF WindowInv, Types, ProducerTypes, NetTypes, ConsumerTypes
<1>3. ControlInv' /\ IdleInv' /\ SentInv'
  BY <1>1 DEF WindowInv, ControlInv, IdleInv, SentInv
<1>4. PhaseInv'
  <2>1. CASE producer = "waiting" /\ producer' = "serving" /\ Consumers = Jobs
    BY <1>1, <2>1 DEF WindowInv, PhaseInv, ControlInv
  <2>2. CASE \/ producer' \in {producer, "closed", "killed"}
             \/ producer = "starting" /\ producer' = "waiting"
    BY <1>1, <2>2 DEF WindowInv, PhaseInv
  <2> QED BY <2>1, <2>2
<1>5. LagInv' /\ BufferInv' /\ Servable'
  BY <1>1 DEF WindowInv, LagInv, BufferInv, Servable
<1> QED BY <1>2, <1>3, <1>4, <1>5 DEF WindowInv

\* When as many consumers are registered as there are jobs, these are all.
LEMMA AllOfThem ==
    ASSUME Consumers \subseteq Jobs, Cardinality(Consumers) = Cardinality(Jobs)
    PROVE  Consumers = Jobs
BY SocketAssumption, FS_Subset

\* Every step keeps the window.
LEMMA WindowStep == WindowInv /\ [Next]_vars => WindowInv'
<1> SUFFICES ASSUME WindowInv, [Next]_vars PROVE WindowInv'
  OBVIOUS
<1>0. /\ faults \in 0..MaxFaults /\ Consumers \subseteq Jobs
      /\ run \in {"starting", "jobs", "stopping", "ended"}
  BY DEF WindowInv, Types, ProducerTypes
<1>1. /\ Fault => faults' \in 0..MaxFaults
      /\ run = "starting" => producer = "starting"
  BY <1>0, SocketAssumption DEF Fault, WindowInv, PhaseInv
<1> USE DEF producerVars, netVars, fetchVars, jobVars
<1>2. CASE Ready
  BY <1>0, <1>1, <1>2, WindowPhase DEF Ready
<1>3. CASE StartFails
  BY <1>0, <1>1, <1>3, WindowPhase DEF StartFails
<1>4. CASE Begin \/ BeginEarly
  <2>1. AllRegistered /\ (UNCHANGED faults \/ Fault)
    BY <1>4 DEF Begin, BeginEarly
  <2>2. Consumers = Jobs
    BY <1>0, <2>1, AllOfThem DEF AllRegistered
  <2> QED BY <1>0, <1>1, <2>1, <2>2, WindowPhase DEF AllRegistered
<1>5. CASE Serve
  BY <1>5, WindowServe
<1>6. CASE StopProducer
  BY <1>0, <1>6, WindowShutdown DEF StopProducer
<1>7. CASE LoaderFails
  BY <1>0, <1>1, <1>7, WindowShutdown DEF LoaderFails
<1>8. CASE Terminate
  BY <1>0, <1>1, <1>8, WindowPhase DEF Terminate
<1>9. CASE Finish
  BY <1>0, <1>1, <1>9, WindowPhase DEF Finish, StopRun, EndRun
<1>10. CASE UNCHANGED vars
  BY <1>0, <1>1, <1>10, WindowPhase DEF vars
<1>11. ASSUME NEW j \in Jobs, DrainControl(j) PROVE WindowInv'
  BY <1>11, WindowControl
<1>12. ASSUME NEW j \in Jobs, Subscribe(j) PROVE WindowInv'
  BY <1>12, WindowSubscribe
<1>13. ASSUME NEW j \in Jobs, Fetch(j) PROVE WindowInv'
  BY <1>13, WindowReceive, WindowPut DEF Fetch
<1>14. ASSUME NEW j \in Jobs, Connect(j) PROVE WindowInv'
  BY <1>14, WindowConnect
<1>15. ASSUME NEW j \in Jobs, CloseConsumer(j) PROVE WindowInv'
  BY <1>15, WindowClose
<1>16. ASSUME NEW j \in Jobs, Train(j) \/ TimeOut(j) \/ SlowBatch(j) \/ JobFails(j) PROVE WindowInv'
  <2>1. Train(j) \/ GiveUpWait(j) \/ JobFails(j)
    BY <1>16 DEF TimeOut, SlowBatch
  <2>2. faults' \in 0..MaxFaults
    BY <1>0, <1>1, <1>16 DEF Train, TimeOut, SlowBatch, JobFails
  <2> QED BY <2>1, <2>2, WindowTrain
<1>17. CASE Ended
  BY <1>10, <1>17 DEF Ended
<1> QED
  BY <1>2, <1>3, <1>4, <1>5, <1>6, <1>7, <1>8, <1>9, <1>10, <1>11, <1>12, <1>13, <1>14, <1>15,
     <1>16, <1>17
     DEF Next, Produce, Work

\* The window holds in every reachable state.
LEMMA WindowAlways == Spec => []WindowInv
BY WindowInit, WindowStep, PTL DEF Spec

\* The producer never misses a batch that it has still to send.
THEOREM NothingIsMissing == Spec => []Servable
<1>1. WindowInv => Servable
  BY DEF WindowInv
<1> QED BY WindowAlways, <1>1, PTL

\* Nobody is sent a batch more than the lag after what any other consumer received,
\* or more than the credit after what it received itself.
THEOREM WindowIsHeld == Spec => []WindowHeld
<1>1. WindowInv => WindowHeld
  <2> SUFFICES ASSUME WindowInv, NEW c \in Consumers, NEW d \in Consumers
               PROVE  /\ lastSent[c] <= lastReceived[d] + MaxLag
                      /\ lastSent[c] <= lastReceived[c] + BufferSize
    BY DEF WindowHeld
  <2>1. /\ lastSent[c] \in Int /\ lastAcked[c] \in Int /\ lastAcked[d] \in Int
        /\ lastReceived[c] \in Int /\ lastReceived[d] \in Int /\ nextIndex \in Int
    BY DEF WindowInv, Types, ProducerTypes, ConsumerTypes, Mark
  <2>2. /\ lastAcked[c] <= lastReceived[c] /\ lastAcked[d] <= lastReceived[d]
        /\ lastSent[c] < nextIndex /\ lastSent[c] <= lastAcked[c] + BufferSize
        /\ nextIndex - 1 <= lastAcked[d] + MaxLag
    BY DEF WindowInv, LagInv
  <2> QED BY <2>1, <2>2, Sizes
<1> QED BY WindowAlways, <1>1, PTL

\* The producer keeps no more batches than the lag allows, also while consumers leave.
THEOREM BufferIsBounded == Spec => []BufferBounded
<1>1. WindowInv => BufferBounded
  <2> SUFFICES ASSUME WindowInv PROVE Cardinality(buffer) <= MaxLag
    BY DEF BufferBounded
  <2> DEFINE window == (nextIndex - MaxLag)..(nextIndex - 1)
  <2>1. nextIndex \in Int /\ MaxLag \in Int /\ MaxLag >= 1
    BY Sizes DEF WindowInv, Types, ProducerTypes
  <2>2. nextIndex - MaxLag \in Int /\ nextIndex - 1 \in Int
    BY <2>1
  <2>3. /\ IsFiniteSet(window)
        /\ Cardinality(window) = IF nextIndex - MaxLag > nextIndex - 1 THEN 0
                                 ELSE (nextIndex - 1) - (nextIndex - MaxLag) + 1
    BY <2>2, FS_Interval
  <2>4. Cardinality(window) = MaxLag
    BY <2>1, <2>3
  <2>5. buffer \subseteq window
    BY DEF WindowInv, BufferInv
  <2>6. Cardinality(buffer) <= Cardinality(window)
    BY <2>3, <2>5, FS_Subset
  <2> QED BY <2>4, <2>6
<1> QED BY WindowAlways, <1>1, PTL

-----------------------------------------------------------------------------
(* The jobs are served *)

\* Only batches.
NoShutdown(s) == \A k \in DOMAIN s : s[k] # Shutdown

\* A shutdown is only under way, or in a buffer, once the producer is closed.
ClosedInv ==
    producer # "closed" => \A j \in Jobs :
        /\ NoShutdown(queue[j])
        /\ NoShutdown(todo[j])
        /\ \A k \in DOMAIN pipe[j] : NoShutdown(pipe[j][k])

\* Without a fault the run stops after its jobs, the producer after that, and a job
\* after its last batch.
ServedInv ==
    faults = 0 =>
        /\ producer \in {"closed", "killed"} => run \in {"stopping", "ended"}
        /\ run \in {"stopping", "ended"} => \A j \in Jobs : trainer[j] = "ended"
        /\ \A j \in Jobs : trainer[j] # "abandoned"
        /\ ServedBeforeClose

\* The buffers, the fetch threads and the pipes a step that is not theirs leaves alone.
LEMMA ClosedByOthers ==
    ASSUME ClosedInv, UNCHANGED <<queue, todo, pipe>>, producer' # "closed" => producer # "closed"
    PROVE  ClosedInv'
BY DEF ClosedInv

\* A round sends batches, never a shutdown.
LEMMA ClosedServe ==
    ASSUME WindowInv, ClosedInv, Serve PROVE ClosedInv'
<1> DEFINE part == [c \in Jobs |-> IF c \in Consumers THEN PartOf(c) ELSE <<>>]
<1>0. ProducerTypes /\ NetTypes /\ Consumers \subseteq Jobs
  BY DEF WindowInv, Types, ProducerTypes
<1>1. /\ UNCHANGED <<todo, queue>> /\ producer = "serving"
      /\ pipe' = pipe \/ pipe' = Published(part)
  BY ServeEffect DEF fetchVars
<1>2. ASSUME NEW j \in Jobs PROVE part[j] \in Seq(Item) /\ NoShutdown(part[j])
  <2>1. CASE j \in Consumers
    <3>1. part[j] = Interval(lastSent[j] + 1, Reach(j)) /\ Reach(j) \in Mark /\ lastSent[j] \in Mark
      BY <2>1, AllIsSent
    <3>2. lastSent[j] + 1 \in Nat
      BY <3>1 DEF Mark
    <3>3. \A k \in DOMAIN part[j] : part[j][k] \in Nat
      <4> DEFINE from == lastSent[j] + 1
                 to == Reach(j)
      <4>1. from \in Nat /\ to \in Mark /\ part[j] = Interval(from, to)
        BY <3>1, <3>2
      <4> HIDE DEF from, to
      <4> QED BY <4>1, IntervalFacts
    <3>4. part[j] \in Seq(Item)
      BY <3>1, <3>2, IntervalFacts
    <3> QED BY <3>3, <3>4 DEF NoShutdown, Shutdown
  <2>2. CASE j \notin Consumers
    BY <2>2 DEF NoShutdown
  <2> QED BY <2>1, <2>2
<1>3. part \in [Jobs -> Seq(Item)]
  BY <1>2
<1> HIDE DEF part
<1>4. ASSUME NEW j \in Jobs, NEW k \in DOMAIN pipe'[j] PROVE NoShutdown(pipe'[j][k])
  <2>1. pipe[j] \in Seq(Seq(Item)) /\ part[j] \in Seq(Item)
    BY <1>0, <1>3 DEF NetTypes
  <2>2. pipe'[j] = pipe[j] \/ pipe'[j] = Append(pipe[j], part[j])
    BY <1>0, <1>1, <1>3, PublishedPipes
  <2>3. \/ k \in DOMAIN pipe[j] /\ pipe'[j][k] = pipe[j][k]
        \/ pipe'[j][k] = part[j]
    <3>1. ASSUME pipe'[j] = Append(pipe[j], part[j])
          PROVE  \/ k \in DOMAIN pipe[j] /\ pipe'[j][k] = pipe[j][k]
                 \/ pipe'[j][k] = part[j]
      <4>1. k \in DOMAIN Append(pipe[j], part[j])
        BY <3>1
      <4>2. \/ k \in DOMAIN pipe[j] /\ Append(pipe[j], part[j])[k] = pipe[j][k]
            \/ Append(pipe[j], part[j])[k] = part[j]
        BY <2>1, <4>1, Appended
      <4> QED BY <3>1, <4>2
    <3> QED BY <2>2, <3>1
  <2> QED BY <1>1, <1>2, <2>3 DEF ClosedInv
<1> QED BY <1>1, <1>4 DEF ClosedInv

\* A fetch thread moves items on and makes no shutdown.
LEMMA ClosedFetch ==
    ASSUME WindowInv, ClosedInv, NEW j \in Jobs, Fetch(j) PROVE ClosedInv'
<1>0. pipe \in [Jobs -> Seq(Seq(Item))] /\ todo \in [Jobs -> Seq(Item)] /\ queue \in [Jobs -> Seq(Item)]
      /\ (fetch[j] = "put" => todo[j] # <<>>)
  BY DEF WindowInv, Types, NetTypes, ConsumerTypes
<1> SUFFICES ASSUME producer # "closed" PROVE ClosedInv'
  <2>1. producer' = producer
    BY DEF Fetch, Receive, Put, producerVars
  <2> QED BY <2>1 DEF ClosedInv
<1>1. CASE Receive(j)
  <2>1. /\ pipe[j] # <<>> /\ UNCHANGED queue
        /\ todo' = [todo EXCEPT ![j] = Head(pipe[j])]
        /\ pipe' = [pipe EXCEPT ![j] = Tail(@)]
    BY <1>1 DEF Receive
  <2>2. /\ Head(pipe[j]) = pipe[j][1] /\ 1 \in DOMAIN pipe[j]
        /\ \A k \in DOMAIN Tail(pipe[j]) :
              k + 1 \in DOMAIN pipe[j] /\ Tail(pipe[j])[k] = pipe[j][k + 1]
    BY <1>0, <2>1, HeadAndTail
  <2>3. NoShutdown(Head(pipe[j])) /\ \A k \in DOMAIN Tail(pipe[j]) : NoShutdown(Tail(pipe[j])[k])
    BY <2>2 DEF ClosedInv
  <2>4. \A i \in Jobs : /\ todo'[i] = IF i = j THEN Head(pipe[j]) ELSE todo[i]
                        /\ pipe'[i] = IF i = j THEN Tail(pipe[j]) ELSE pipe[i]
    BY <1>0, <2>1
  <2> QED BY <2>1, <2>3, <2>4 DEF ClosedInv
<1>2. CASE Put(j)
  <2> DEFINE item == Head(todo[j])
  <2>1. /\ todo[j] # <<>> /\ UNCHANGED pipe
        /\ todo' = [todo EXCEPT ![j] = Tail(@)]
        /\ \/ queue' = queue
           \/ queue' = [queue EXCEPT ![j] = Append(@, item)]
    BY <1>0, <1>2 DEF Put
  <2>2. /\ item = todo[j][1] /\ 1 \in DOMAIN todo[j] /\ item \in Item
        /\ \A k \in DOMAIN Tail(todo[j]) :
              k + 1 \in DOMAIN todo[j] /\ Tail(todo[j])[k] = todo[j][k + 1]
    BY <1>0, <2>1, HeadAndTail
  <2>3. item # Shutdown /\ NoShutdown(Tail(todo[j])) /\ NoShutdown(queue[j])
    BY <2>2 DEF ClosedInv, NoShutdown
  <2> HIDE DEF item
  <2>4. NoShutdown(Append(queue[j], item))
    BY <1>0, <2>2, <2>3 DEF NoShutdown
  <2>5. \A i \in Jobs : /\ todo'[i] = IF i = j THEN Tail(todo[j]) ELSE todo[i]
                        /\ \/ queue'[i] = queue[i]
                           \/ i = j /\ queue'[i] = Append(queue[j], item)
    BY <1>0, <2>1
  <2> QED BY <2>1, <2>3, <2>4, <2>5 DEF ClosedInv
<1> QED BY <1>1, <1>2 DEF Fetch

\* A training loop takes items and makes no shutdown.
LEMMA ClosedTrain ==
    ASSUME WindowInv, ClosedInv, NEW j \in Jobs, Train(j) PROVE ClosedInv'
<1>0. queue \in [Jobs -> Seq(Item)]
  BY DEF WindowInv, Types, ConsumerTypes
<1>1. /\ queue[j] # <<>> /\ UNCHANGED <<producer, todo, pipe>>
      /\ queue' = [queue EXCEPT ![j] = Tail(@)]
  BY DEF Train, producerVars, netVars
<1>2. \A k \in DOMAIN Tail(queue[j]) :
         k + 1 \in DOMAIN queue[j] /\ Tail(queue[j])[k] = queue[j][k + 1]
  BY <1>0, <1>1, HeadAndTail
<1>3. NoShutdown(queue[j]) => NoShutdown(Tail(queue[j]))
  BY <1>2 DEF NoShutdown
<1>4. \A i \in Jobs : queue'[i] = IF i = j THEN Tail(queue[j]) ELSE queue[i]
  BY <1>0, <1>1
<1> QED BY <1>1, <1>3, <1>4 DEF ClosedInv

\* Only closing the producer sends shutdowns.
LEMMA ClosedStep == WindowInv /\ ClosedInv /\ [Next]_vars => ClosedInv'
<1> SUFFICES ASSUME WindowInv, ClosedInv, [Next]_vars PROVE ClosedInv'
  OBVIOUS
<1> USE DEF producerVars, netVars, fetchVars, jobVars
<1>1. CASE Ready \/ Begin \/ BeginEarly \/ Terminate \/ Finish \/ Ended \/ UNCHANGED vars
  BY <1>1, ClosedByOthers DEF Ready, Begin, BeginEarly, AllRegistered, Terminate, Finish,
                              StopRun, EndRun, Ended, vars
<1>2. CASE StartFails
  <2>1. producer = "starting"
    BY <1>2 DEF StartFails, WindowInv, PhaseInv
  <2> QED BY <1>2, <2>1, ClosedByOthers DEF StartFails
<1>3. CASE Serve
  BY <1>3, ClosedServe
<1>4. CASE StopProducer \/ LoaderFails
  BY <1>4 DEF StopProducer, LoaderFails, CloseProducer, ClosedInv
<1>5. ASSUME NEW j \in Jobs,
             DrainControl(j) \/ Subscribe(j) \/ Connect(j) \/ TimeOut(j) \/ SlowBatch(j)
             \/ JobFails(j)
      PROVE  ClosedInv'
  BY <1>5, ClosedByOthers DEF DrainControl, Subscribe, Connect, TimeOut, SlowBatch, GiveUpWait,
                              JobFails
<1>6. ASSUME NEW j \in Jobs, Fetch(j) PROVE ClosedInv'
  BY <1>6, ClosedFetch
<1>7. ASSUME NEW j \in Jobs, Train(j) PROVE ClosedInv'
  BY <1>7, ClosedTrain
<1>8. ASSUME NEW j \in Jobs, CloseConsumer(j) PROVE ClosedInv'
  <2>1. pipe \in [Jobs -> Seq(Seq(Item))]
    BY DEF WindowInv, Types, NetTypes
  <2>2. UNCHANGED <<producer, todo, queue>> /\ pipe' = [pipe EXCEPT ![j] = <<>>]
    BY <1>8 DEF CloseConsumer
  <2>3. \A i \in Jobs : pipe'[i] = IF i = j THEN <<>> ELSE pipe[i]
    BY <2>1, <2>2
  <2> QED BY <2>2, <2>3 DEF ClosedInv
<1> QED
  BY <1>1, <1>2, <1>3, <1>4, <1>5, <1>6, <1>7, <1>8 DEF Next, Produce, Work

\* The training loop of a job takes a batch.
LEMMA ServedTrain ==
    ASSUME WindowInv, ClosedInv, ServedInv, NEW j \in Jobs, Train(j) PROVE ServedInv'
<1>0. /\ trainer \in [Jobs -> TrainerState] /\ yielded \in [Jobs -> Seq(Nat)]
      /\ queue[j] \in Seq(Item)
  BY DEF WindowInv, Types, ConsumerTypes
<1> SUFFICES ASSUME faults' = 0 PROVE ServedInv'
  BY DEF ServedInv
<1> DEFINE item == Head(queue[j])
           ends == item = Shutdown \/ Len(yielded[j]) + 1 = Need[j]
<1>1. /\ UNCHANGED <<producer, run, faults>>
      /\ trainer[j] = "training" /\ queue[j] # <<>>
      /\ yielded' = [yielded EXCEPT ![j] = IF item = Shutdown THEN @ ELSE Append(@, item)]
      /\ trainer' = [trainer EXCEPT ![j] = IF ends THEN "closing" ELSE @]
  BY DEF Train, producerVars
<1>2. item = queue[j][1] /\ 1 \in DOMAIN queue[j] /\ item \in Item
  BY <1>0, <1>1, HeadAndTail
<1>3. run \notin {"stopping", "ended"} /\ producer # "closed"
  BY <1>1 DEF ServedInv
<1>4. item # Shutdown
  BY <1>2, <1>3 DEF ClosedInv, NoShutdown
<1> HIDE DEF item
<1>5. /\ \A i \in Jobs : i # j => trainer'[i] = trainer[i] /\ yielded'[i] = yielded[i]
      /\ yielded'[j] = Append(yielded[j], item)
      /\ trainer'[j] = IF Len(yielded[j]) + 1 = Need[j] THEN "closing" ELSE "training"
  BY <1>0, <1>1, <1>4
<1>6. Len(yielded'[j]) = Len(yielded[j]) + 1
  BY <1>0, <1>5
<1>7. ServedBeforeClose'
  BY <1>1, <1>5, <1>6 DEF ServedInv, ServedBeforeClose
<1> QED BY <1>1, <1>3, <1>5, <1>7 DEF ServedInv

\* Without a fault the producer outlives the jobs.
LEMMA ServedStep == WindowInv /\ ClosedInv /\ ServedInv /\ [Next]_vars => ServedInv'
<1> SUFFICES ASSUME WindowInv, ClosedInv, ServedInv, [Next]_vars, faults' = 0 PROVE ServedInv'
  BY DEF ServedInv
<1> USE DEF producerVars, netVars, fetchVars, jobVars
<1>0. /\ trainer \in [Jobs -> TrainerState] /\ faults \in Nat
      /\ (run = "starting" => producer = "starting")
  BY SocketAssumption DEF WindowInv, Types, ConsumerTypes, ProducerTypes, PhaseInv
<1>1. ~Fault
  BY <1>0 DEF Fault
<1>2. CASE Ready \/ Begin \/ Serve
  BY <1>2 DEF Ready, Begin, AllRegistered, Serve, ServedInv, ServedBeforeClose
<1>3. CASE StopProducer
  BY <1>3 DEF StopProducer, CloseProducer, ServedInv, ServedBeforeClose
<1>4. CASE StopRun
  BY <1>4 DEF StopRun, AllJobsOver, Over, ServedInv, ServedBeforeClose
<1>5. CASE EndRun \/ Terminate \/ Ended \/ UNCHANGED vars
  BY <1>5 DEF EndRun, Terminate, Ended, vars, ServedInv, ServedBeforeClose
<1>6. ASSUME NEW j \in Jobs, DrainControl(j) \/ Subscribe(j) \/ Fetch(j) PROVE ServedInv'
  BY <1>6 DEF DrainControl, Subscribe, Fetch, Receive, Put, ServedInv, ServedBeforeClose
<1>7. ASSUME NEW j \in Jobs, Connect(j) PROVE ServedInv'
  BY <1>0, <1>7 DEF Connect, ServedInv, ServedBeforeClose
<1>8. ASSUME NEW j \in Jobs, CloseConsumer(j) PROVE ServedInv'
  BY <1>0, <1>1, <1>8 DEF CloseConsumer, ServedInv, ServedBeforeClose
<1>9. ASSUME NEW j \in Jobs, Train(j) PROVE ServedInv'
  BY <1>9, ServedTrain
<1>10. ASSUME NEW j \in Jobs, TimeOut(j) PROVE FALSE
  BY <1>0, <1>10 DEF TimeOut
<1> QED
  BY <1>1, <1>2, <1>3, <1>4, <1>5, <1>6, <1>7, <1>8, <1>9, <1>10
     DEF Next, Produce, Finish, Work, StartFails, BeginEarly, LoaderFails, SlowBatch, GiveUpWait,
         JobFails

\* Without a fault every job gets all its batches before it closes its consumer.
THEOREM EveryJobIsServed == Spec => []ServedBeforeClose
<1>1. Init => ClosedInv /\ ServedInv
  BY DEF Init, ClosedInv, NoShutdown, ServedInv, ServedBeforeClose
<1>2. ServedInv => ServedBeforeClose
  BY DEF ServedInv, ServedBeforeClose
<1> QED BY WindowInit, WindowStep, ClosedStep, ServedStep, <1>1, <1>2, PTL DEF Spec

-----------------------------------------------------------------------------
(* The largest need, and what is under way in a pipe *)

\* The jobs are finitely many: one of them needs the most.
LEMMA MostNeeded ==
    /\ Max({Need[j] : j \in Jobs}) \in Nat
    /\ \A j \in Jobs : Need[j] <= Max({Need[i] : i \in Jobs})
<1> DEFINE Bounded(T) == \E bound \in Nat : \A j \in T : Need[j] <= bound
           N == {n \in Nat : \E T \in SUBSET Jobs : Cardinality(T) = n /\ ~Bounded(T)}
<1>0. /\ IsFiniteSet(Jobs) /\ Jobs # {} /\ \A j \in Jobs : Need[j] \in Nat
  BY SocketAssumption
<1>1. Bounded(Jobs)
  <2> SUFFICES ASSUME ~Bounded(Jobs) PROVE FALSE
    OBVIOUS
  <2>1. Cardinality(Jobs) \in N
    BY <1>0, FS_CardinalityType
  <2>2. PICK n \in N : \A m \in N : <<m, n>> \notin OpToRel(<, Nat)
    BY <2>1, NatLessThanWellFounded, WFMin
  <2>3. PICK T \in SUBSET Jobs : Cardinality(T) = n /\ ~Bounded(T)
    OBVIOUS
  <2>4. PICK x \in T : TRUE
    <3>1. T = {} => Bounded(T)
      OBVIOUS
    <3> QED BY <2>3, <3>1
  <2>5. /\ IsFiniteSet(T)
        /\ Cardinality(T \ {x}) = n - 1 /\ n - 1 \in Nat
    <3>1. IsFiniteSet(T)
      BY <1>0, FS_Subset
    <3>2. IsFiniteSet(T \ {x}) /\ Cardinality(T \ {x}) = Cardinality(T) - 1
      BY <2>4, <3>1, FS_RemoveElement
    <3>3. Cardinality(T \ {x}) \in Nat
      BY <3>2, FS_CardinalityType
    <3> QED BY <2>3, <3>1, <3>2, <3>3
  <2>6. Bounded(T \ {x})
    <3>1. <<n - 1, n>> \in OpToRel(<, Nat)
      BY <2>5 DEF OpToRel
    <3>2. n - 1 \notin N
      BY <2>2, <3>1
    <3>3. T \ {x} \in SUBSET Jobs
      OBVIOUS
    <3> HIDE DEF Bounded
    <3> QED BY <2>5, <3>2, <3>3
  <2>7. PICK bound \in Nat : \A j \in T \ {x} : Need[j] <= bound
    BY <2>6
  <2>8. Need[x] \in Nat
    BY <1>0
  <2>9. \A j \in T : Need[j] <= bound + Need[x]
    <3> SUFFICES ASSUME NEW j \in T PROVE Need[j] <= bound + Need[x]
      OBVIOUS
    <3>1. Need[j] \in Nat
      BY <1>0
    <3> QED BY <2>7, <2>8, <3>1
  <2>10. bound + Need[x] \in Nat
    BY <2>8
  <2> QED BY <2>3, <2>9, <2>10
<1>2. PICK bound \in Nat : \A j \in Jobs : Need[j] <= bound
  BY <1>1
<1> HIDE DEF N, Bounded
<1> DEFINE S == {Need[j] : j \in Jobs}
<1>3. S \in SUBSET Int /\ S # {} /\ S \subseteq Nat /\ \A x \in S : x <= bound
  BY <1>0, <1>2
<1>4. \A j \in Jobs : Need[j] \in S
  OBVIOUS
<1> HIDE DEF S
<1>5. Max(S) \in S /\ \A x \in S : x <= Max(S)
  BY <1>3, MaxExists
<1>6. Max(S) \in Nat /\ \A j \in Jobs : Need[j] <= Max(S)
  BY <1>3, <1>4, <1>5
<1> QED BY <1>6 DEF S

\* The messages of a pipe hold the batches after one up to another in order, and a
\* shutdown comes last: the cuts are where one message ends and the next one begins.
Chain(s, from, to) ==
    \E cut \in [0..Len(s) -> Int] :
        /\ cut[0] = from /\ cut[Len(s)] = to
        /\ \A k, l \in 0..Len(s) : k <= l => cut[k] <= cut[l]
        /\ \A k \in 1..Len(s) :
              \/ s[k] = Interval(cut[k - 1] + 1, cut[k])
              \/ cut[k] = cut[k - 1] /\ s[k] = <<Shutdown>> /\ k = Len(s)

\* The empty pipe holds nothing.
LEMMA ChainOfNothing ==
    ASSUME NEW a \in Int PROVE Chain(<<>>, a, a)
<1> DEFINE cut == [k \in 0..0 |-> a]
<1>1. Len(<<>>) = 0 /\ 1..0 = {} /\ 0..0 = {0}
  OBVIOUS
<1>2. cut \in [0..Len(<<>>) -> Int] /\ cut[0] = a /\ cut[Len(<<>>)] = a
  BY <1>1
<1> HIDE DEF cut
<1> QED BY <1>1, <1>2 DEF Chain

\* A pipe never goes back.
LEMMA ChainOrder ==
    ASSUME NEW s \in Seq(Seq(Item)), NEW a, NEW b, Chain(s, a, b)
    PROVE  a \in Int /\ b \in Int /\ a <= b
<1>1. Len(s) \in Nat /\ 0 \in 0..Len(s) /\ Len(s) \in 0..Len(s)
  OBVIOUS
<1> QED BY <1>1 DEF Chain

\* A message with the next batches, or with none, is published.
LEMMA ChainGrows ==
    ASSUME NEW s \in Seq(Seq(Item)), NEW a \in Int, NEW b \in Int, NEW c \in Int, b <= c,
           Chain(s, a, b), \A k \in DOMAIN s : s[k] # <<Shutdown>>,
           NEW m \in Seq(Item),
           m = Interval(b + 1, c) \/ (m = <<Shutdown>> /\ c = b)
    PROVE  Chain(Append(s, m), a, c)
<1> DEFINE n == Len(s)
           t == Append(s, m)
<1>1. PICK cut \in [0..n -> Int] :
        /\ cut[0] = a /\ cut[n] = b
        /\ \A k, l \in 0..n : k <= l => cut[k] <= cut[l]
        /\ \A k \in 1..n :
              \/ s[k] = Interval(cut[k - 1] + 1, cut[k])
              \/ cut[k] = cut[k - 1] /\ s[k] = <<Shutdown>> /\ k = n
  BY DEF Chain
<1>2. n \in Nat /\ DOMAIN s = 1..n /\ Len(t) = n + 1 /\ t[n + 1] = m /\ \A k \in 1..n : t[k] = s[k]
  OBVIOUS
<1> HIDE DEF n, t
<1> DEFINE new == [k \in 0..(n + 1) |-> IF k = n + 1 THEN c ELSE cut[k]]
<1>3. \A k \in 0..n : new[k] = cut[k] /\ cut[k] \in Int /\ cut[k] <= b
  BY <1>1, <1>2
<1>4. new[n + 1] = c /\ new \in [0..(n + 1) -> Int]
  BY <1>2, <1>3
<1> HIDE DEF new
<1>5. new[0] = a
  BY <1>1, <1>2, <1>3
<1>6. \A k, l \in 0..(n + 1) : k <= l => new[k] <= new[l]
  <2> SUFFICES ASSUME NEW k \in 0..(n + 1), NEW l \in 0..(n + 1), k <= l PROVE new[k] <= new[l]
    OBVIOUS
  <2>1. CASE l \in 0..n
    <3>1. k \in 0..n
      BY <1>2, <2>1
    <3> QED BY <1>1, <1>3, <2>1, <3>1
  <2>2. CASE l = n + 1
    <3>1. CASE k = n + 1
      BY <1>4, <2>2, <3>1
    <3>2. CASE k \in 0..n
      <4>1. new[k] \in Int /\ new[k] <= b
        BY <1>3, <3>2
      <4> QED BY <1>4, <2>2, <4>1
    <3> QED BY <1>2, <3>1, <3>2
  <2> QED BY <1>2, <2>1, <2>2
<1>7. ASSUME NEW k \in 1..(n + 1)
      PROVE  \/ t[k] = Interval(new[k - 1] + 1, new[k])
             \/ new[k] = new[k - 1] /\ t[k] = <<Shutdown>> /\ k = n + 1
  <2>1. CASE k \in 1..n
    <3>1. s[k] = Interval(cut[k - 1] + 1, cut[k])
      BY <1>1, <1>2, <2>1
    <3>2. k - 1 \in 0..n /\ k \in 0..n
      BY <1>2, <2>1
    <3> QED BY <1>2, <1>3, <2>1, <3>1, <3>2
  <2>2. CASE k = n + 1
    <3>1. k - 1 = n /\ n \in 0..n
      BY <1>2, <2>2
    <3>2. new[k - 1] = b /\ new[k] = c /\ t[k] = m
      BY <1>1, <1>2, <1>3, <1>4, <2>2, <3>1
    <3> QED BY <2>2, <3>2
  <2> QED BY <1>2, <2>1, <2>2
<1>8. Chain(t, a, c)
  <2>1. new \in [0..Len(t) -> Int] /\ new[0] = a /\ new[Len(t)] = c
    BY <1>2, <1>4, <1>5
  <2>2. \A k, l \in 0..Len(t) : k <= l => new[k] <= new[l]
    BY <1>2, <1>6
  <2>3. \A k \in 1..Len(t) :
           \/ t[k] = Interval(new[k - 1] + 1, new[k])
           \/ new[k] = new[k - 1] /\ t[k] = <<Shutdown>> /\ k = Len(t)
    BY <1>2, <1>7
  <2> QED BY <2>1, <2>2, <2>3 DEF Chain
<1> QED BY <1>8 DEF t

\* The first message is taken: it has the next batches, and the others come after them.
LEMMA ChainShrinks ==
    ASSUME NEW s \in Seq(Seq(Item)), NEW a \in Int, NEW b \in Int, s # <<>>, Chain(s, a, b),
           Head(s) # <<Shutdown>>
    PROVE  \E c \in Int : a <= c /\ Head(s) = Interval(a + 1, c) /\ Chain(Tail(s), c, b)
<1> DEFINE n == Len(s)
           t == Tail(s)
<1>1. PICK cut \in [0..n -> Int] :
        /\ cut[0] = a /\ cut[n] = b
        /\ \A k, l \in 0..n : k <= l => cut[k] <= cut[l]
        /\ \A k \in 1..n :
              \/ s[k] = Interval(cut[k - 1] + 1, cut[k])
              \/ cut[k] = cut[k - 1] /\ s[k] = <<Shutdown>> /\ k = n
  BY DEF Chain
<1>2. /\ n \in Nat /\ n >= 1 /\ Len(t) = n - 1 /\ Head(s) = s[1]
      /\ \A k \in 1..(n - 1) : t[k] = s[k + 1]
  OBVIOUS
<1> HIDE DEF n, t
<1> DEFINE new == [k \in 0..(n - 1) |-> cut[k + 1]]
           c == cut[1]
<1>3. \A k \in 0..(n - 1) : k + 1 \in 0..n /\ new[k] = cut[k + 1]
  BY <1>2
<1>4. new \in [0..(n - 1) -> Int] /\ new[0] = c /\ new[n - 1] = b
  <2>1. 0 \in 0..(n - 1) /\ n - 1 \in 0..(n - 1) /\ 0 + 1 = 1 /\ n - 1 + 1 = n
    BY <1>2
  <2> QED BY <1>1, <1>3, <2>1
<1>5. c \in Int /\ a <= c /\ Head(s) = Interval(a + 1, c)
  <2>1. 0 \in 0..n /\ 1 \in 0..n /\ 1 \in 1..n /\ 1 - 1 = 0
    BY <1>2
  <2>2. s[1] # <<Shutdown>>
    BY <1>2
  <2>3. s[1] = Interval(cut[1 - 1] + 1, cut[1])
    BY <1>1, <2>1, <2>2
  <2> QED BY <1>1, <1>2, <2>1, <2>3
<1> HIDE DEF new, c
<1>6. \A k, l \in 0..(n - 1) : k <= l => new[k] <= new[l]
  <2> SUFFICES ASSUME NEW k \in 0..(n - 1), NEW l \in 0..(n - 1), k <= l PROVE new[k] <= new[l]
    OBVIOUS
  <2>1. k + 1 \in 0..n /\ l + 1 \in 0..n /\ k + 1 <= l + 1
    BY <1>2
  <2> QED BY <1>1, <1>3, <2>1
<1>7. ASSUME NEW k \in 1..(n - 1)
      PROVE  \/ t[k] = Interval(new[k - 1] + 1, new[k])
             \/ new[k] = new[k - 1] /\ t[k] = <<Shutdown>> /\ k = n - 1
  <2>1. /\ k \in 0..(n - 1) /\ k - 1 \in 0..(n - 1) /\ k + 1 \in 1..n
        /\ k - 1 + 1 = k /\ k + 1 - 1 = k /\ (k + 1 = n => k = n - 1)
    BY <1>2
  <2>2. new[k] = cut[k + 1] /\ new[k - 1] = cut[k] /\ t[k] = s[k + 1]
    BY <1>2, <1>3, <2>1
  <2>3. \/ s[k + 1] = Interval(cut[k + 1 - 1] + 1, cut[k + 1])
        \/ cut[k + 1] = cut[k + 1 - 1] /\ s[k + 1] = <<Shutdown>> /\ k + 1 = n
    BY <1>1, <2>1
  <2> QED BY <2>1, <2>2, <2>3
<1>8. Chain(t, c, b)
  <2>1. new \in [0..Len(t) -> Int] /\ new[0] = c /\ new[Len(t)] = b
    BY <1>2, <1>4
  <2>2. \A k, l \in 0..Len(t) : k <= l => new[k] <= new[l]
    BY <1>2, <1>6
  <2>3. \A k \in 1..Len(t) :
           \/ t[k] = Interval(new[k - 1] + 1, new[k])
           \/ new[k] = new[k - 1] /\ t[k] = <<Shutdown>> /\ k = Len(t)
    BY <1>2, <1>7
  <2> QED BY <2>1, <2>2, <2>3 DEF Chain
<1> QED BY <1>5, <1>8 DEF t

\* A batch is taken from the front of the batches from one to another.
LEMMA IntervalShrinks ==
    ASSUME NEW a \in Nat, NEW b \in Nat, a <= b
    PROVE  Head(Interval(a, b)) = a /\ Tail(Interval(a, b)) = Interval(a + 1, b)
<1>1. /\ Interval(a, b) \in Seq(Item) /\ Len(Interval(a, b)) = b - a + 1
      /\ \A k \in 1..(b - a + 1) : Interval(a, b)[k] = a + k - 1
  BY IntervalFacts DEF Mark
<1>2. /\ Interval(a + 1, b) \in Seq(Item) /\ Len(Interval(a + 1, b)) = b - a
      /\ \A k \in 1..(b - a) : Interval(a + 1, b)[k] = a + 1 + k - 1
  <2> DEFINE c == a + 1
  <2>1. c \in Nat /\ b \in Mark /\ (IF c <= b THEN b - c + 1 ELSE 0) = b - a
    BY DEF Mark
  <2> HIDE DEF c
  <2>2. /\ Interval(c, b) \in Seq(Item) /\ Len(Interval(c, b)) = b - a
        /\ \A k \in 1..(b - a) : Interval(c, b)[k] = c + k - 1
    <3>1. /\ Interval(c, b) \in Seq(Item)
          /\ Len(Interval(c, b)) = IF c <= b THEN b - c + 1 ELSE 0
          /\ DOMAIN Interval(c, b) = 1..Len(Interval(c, b))
          /\ \A k \in DOMAIN Interval(c, b) : Interval(c, b)[k] = c + k - 1
      BY <2>1, IntervalFacts
    <3>2. Len(Interval(c, b)) = b - a
      BY <2>1, <3>1
    <3> QED BY <3>1, <3>2
  <2> QED BY <2>2 DEF c
<1> DEFINE s == Interval(a, b)
           t == Interval(a + 1, b)
<1>3. s \in Seq(Item) /\ t \in Seq(Item) /\ Len(s) = b - a + 1 /\ Len(t) = b - a
  BY <1>1, <1>2
<1>4. s[1] = a /\ \A k \in 1..(b - a) : t[k] = s[k + 1]
  BY <1>1, <1>2
<1> HIDE DEF s, t
<1>5. s # <<>> /\ Head(s) = a
  BY <1>3, <1>4
<1>6. Tail(s) \in Seq(Item) /\ Len(Tail(s)) = b - a /\ \A k \in 1..(b - a) : Tail(s)[k] = s[k + 1]
  BY <1>3, <1>5
<1>7. Tail(s) = t
  BY <1>3, <1>4, <1>6
<1> QED BY <1>5, <1>7 DEF s, t

\* The batches a training loop got and those in the buffer are 0, 1, ... last, and a
\* shutdown may follow.
Delivered(y, q, last) ==
    /\ Len(y) <= last + 1
    /\ \A k \in DOMAIN y : y[k] = k - 1
    /\ \A k \in DOMAIN q :
          q[k] = IF Len(y) + k <= last + 1 THEN Len(y) + k - 1 ELSE Shutdown
    /\ Len(y) + Len(q) \in {last + 1, last + 2}

\* The next batch, or a shutdown, is put into the buffer.
LEMMA DeliveredGrows ==
    ASSUME NEW y \in Seq(Nat), NEW q \in Seq(Item), NEW last \in Mark, Delivered(y, q, last),
           Len(y) + Len(q) = last + 1
    PROVE  /\ Delivered(y, Append(q, last + 1), last + 1)
           /\ Delivered(y, Append(q, Shutdown), last)
<1>1. Len(y) \in Nat /\ Len(q) \in Nat /\ last \in Int
  BY DEF Mark
<1>2. \A x : /\ Len(Append(q, x)) = Len(q) + 1 /\ DOMAIN Append(q, x) = 1..(Len(q) + 1)
             /\ Append(q, x)[Len(q) + 1] = x
             /\ \A k \in 1..Len(q) : Append(q, x)[k] = q[k]
  OBVIOUS
<1>3. \A k \in 1..Len(q) : q[k] = Len(y) + k - 1
  BY <1>1 DEF Delivered
<1>4. \A k \in 1..(Len(q) + 1) : k = Len(q) + 1 \/ k \in 1..Len(q)
  BY <1>1
<1>5. Delivered(y, Append(q, last + 1), last + 1)
  <2> DEFINE r == Append(q, last + 1)
  <2>1. Len(r) = Len(q) + 1 /\ DOMAIN r = 1..(Len(q) + 1)
    BY <1>2
  <2>2. ASSUME NEW k \in 1..(Len(q) + 1)
        PROVE  r[k] = Len(y) + k - 1 /\ Len(y) + k <= last + 2
    BY <1>1, <1>2, <1>3, <1>4
  <2> HIDE DEF r
  <2>3. Len(y) <= last + 2 /\ \A k \in DOMAIN y : y[k] = k - 1
    BY <1>1 DEF Delivered
  <2>4. Len(y) + Len(r) = last + 2
    BY <1>1, <2>1
  <2>5. Delivered(y, r, last + 1)
    BY <1>1, <2>1, <2>2, <2>3, <2>4 DEF Delivered
  <2> QED BY <2>5 DEF r
<1>6. Delivered(y, Append(q, Shutdown), last)
  <2> DEFINE r == Append(q, Shutdown)
  <2>1. Len(r) = Len(q) + 1 /\ DOMAIN r = 1..(Len(q) + 1)
    BY <1>2
  <2>2. ASSUME NEW k \in 1..(Len(q) + 1)
        PROVE  r[k] = IF Len(y) + k <= last + 1 THEN Len(y) + k - 1 ELSE Shutdown
    BY <1>1, <1>2, <1>3, <1>4
  <2> HIDE DEF r
  <2>3. Len(y) <= last + 1 /\ \A k \in DOMAIN y : y[k] = k - 1
    BY DEF Delivered
  <2>4. Len(y) + Len(r) = last + 2
    BY <1>1, <2>1
  <2>5. Delivered(y, r, last)
    BY <2>1, <2>2, <2>3, <2>4 DEF Delivered
  <2> QED BY <2>5 DEF r
<1> QED BY <1>5, <1>6

\* The first batch, or a shutdown, is taken out of it.
LEMMA DeliveredShrinks ==
    ASSUME NEW y \in Seq(Nat), NEW q \in Seq(Item), NEW last \in Mark, Delivered(y, q, last),
           q # <<>>
    PROVE  IF Head(q) = Shutdown THEN Delivered(y, Tail(q), last) /\ Len(y) = last + 1
                                 ELSE Delivered(Append(y, Head(q)), Tail(q), last)
<1>1. Len(y) \in Nat /\ Len(q) \in Nat /\ last \in Int /\ Len(q) >= 1
  BY DEF Mark
<1>2. /\ Head(q) = q[1] /\ 1 \in DOMAIN q /\ Len(Tail(q)) = Len(q) - 1 /\ Tail(q) \in Seq(Item)
      /\ \A k \in DOMAIN Tail(q) : k + 1 \in DOMAIN q /\ Tail(q)[k] = q[k + 1] /\ k >= 1
  BY HeadAndTail
<1>3. Head(q) = IF Len(y) + 1 <= last + 1 THEN Len(y) ELSE Shutdown
  BY <1>1, <1>2 DEF Delivered
<1>4. DOMAIN Tail(q) = 1..(Len(q) - 1)
  BY <1>2
<1>5. Len(y) <= last + 1 /\ Len(y) + Len(q) \in {last + 1, last + 2}
      /\ \A k \in DOMAIN y : y[k] = k - 1
  BY DEF Delivered
<1>6. \A k \in DOMAIN Tail(q) :
        Tail(q)[k] = IF Len(y) + (k + 1) <= last + 1 THEN Len(y) + (k + 1) - 1 ELSE Shutdown
  BY <1>2 DEF Delivered
<1>7. CASE Head(q) = Shutdown
  <2>1. Len(y) = last + 1
    BY <1>1, <1>3, <1>5, <1>7 DEF Shutdown
  <2>2. Len(q) = 1 /\ Len(Tail(q)) = 0 /\ DOMAIN Tail(q) = {}
    BY <1>1, <1>2, <1>4, <1>5, <2>1
  <2>3. Delivered(y, Tail(q), last)
    BY <1>1, <1>5, <2>1, <2>2 DEF Delivered
  <2> QED BY <1>7, <2>1, <2>3
<1>8. CASE Head(q) # Shutdown
  <2> DEFINE z == Append(y, Head(q))
  <2>1. Head(q) = Len(y) /\ Len(y) + 1 <= last + 1
    BY <1>3, <1>8
  <2>2. Len(z) = Len(y) + 1 /\ DOMAIN z = 1..(Len(y) + 1) /\ z[Len(y) + 1] = Len(y)
        /\ \A k \in 1..Len(y) : z[k] = y[k]
    BY <1>1, <2>1
  <2>3. \A k \in DOMAIN z : z[k] = k - 1
    BY <1>1, <1>5, <2>2
  <2> HIDE DEF z
  <2>4. \A k \in DOMAIN Tail(q) :
          Tail(q)[k] = IF Len(z) + k <= last + 1 THEN Len(z) + k - 1 ELSE Shutdown
    <3> SUFFICES ASSUME NEW k \in DOMAIN Tail(q)
                 PROVE  Tail(q)[k] = IF Len(z) + k <= last + 1 THEN Len(z) + k - 1 ELSE Shutdown
      OBVIOUS
    <3>1. k \in Int
      BY <1>1, <1>4
    <3>2. Tail(q)[k] = IF Len(y) + (k + 1) <= last + 1 THEN Len(y) + (k + 1) - 1 ELSE Shutdown
      BY <1>6
    <3>3. Len(z) + k = Len(y) + (k + 1)
      BY <1>1, <2>2, <3>1
    <3> DEFINE u == Len(z) + k
    <3>4. Tail(q)[k] = IF u <= last + 1 THEN u - 1 ELSE Shutdown
      BY <3>2, <3>3
    <3> QED BY <3>4
  <2>5. Len(z) + Len(Tail(q)) = Len(y) + Len(q)
    BY <1>1, <1>2, <2>2
  <2>6. Delivered(z, Tail(q), last)
    BY <1>1, <1>5, <2>1, <2>2, <2>3, <2>4, <2>5 DEF Delivered
  <2> QED BY <1>8, <2>6 DEF z
<1> QED BY <1>7, <1>8

-----------------------------------------------------------------------------
(* The streams, as long as no batch is dropped *)

\* No index goes beyond this one.
Top == Max({Need[j] : j \in Jobs}) + 2 * BufferSize

\* A fetch thread keeps nothing between two messages, and what it received is in the
\* buffer or with the training loop.
FetchInv(j) ==
    /\ fetch[j] = "off" => lastReceived[j] = -1
    /\ fetch[j] \in {"off", "poll"} => todo[j] = <<>>
    /\ trainer[j] = "off" => fetch[j] = "off"
    /\ fetch[j] # "over" => Len(yielded[j]) + Len(queue[j]) = lastReceived[j] + 1

SizeInv(j) ==
    /\ Len(yielded[j]) <= Need[j]
    /\ trainer[j] \in {"off", "training"} => Len(yielded[j]) < Need[j]
    /\ Len(queue[j]) <= BufferSize
    /\ Len(pipe[j]) <= PipeSize

\* Only what is prepared is under way.
PreparedInv(j) ==
    /\ lastReceived[j] < nextIndex
    /\ \A i \in DOMAIN todo[j] : todo[j][i] < nextIndex
    /\ \A k \in DOMAIN pipe[j] : \A i \in DOMAIN pipe[j][k] : pipe[j][k][i] < nextIndex

\* Where the batches that are under way to a consumer end: at the last one that was
\* sent, or nowhere, if the first message found no subscription; then all credit is
\* spent and no other batch will come.
EndsAt(j, end) ==
    /\ j \notin subscribed => end = -1
    /\ j \in Consumers => end = lastSent[j] \/ (end = -1 /\ lastSent[j] >= BufferSize - 1)
    /\ j \notin Consumers => end = -1

Fetching(j) == fetch[j] \in {"poll", "put"} /\ todo[j] # <<Shutdown>>

\* What is under way follows what was received, without a hole.
FlowInv(j) ==
    Fetching(j) =>
        /\ todo[j] = Interval(lastReceived[j] + 1, lastReceived[j] + Len(todo[j]))
        /\ \E end \in Mark : /\ Chain(pipe[j], lastReceived[j] + Len(todo[j]), end)
                             /\ EndsAt(j, end)

JobInv(j) ==
    /\ FetchInv(j) /\ SizeInv(j) /\ PreparedInv(j) /\ FlowInv(j)
    /\ Delivered(yielded[j], queue[j], lastReceived[j])

StreamsInv == nextIndex <= Top /\ \A j \in Jobs : JobInv(j)

\* Nothing is under way at the start.
LEMMA StreamsInit == Init => StreamsInv
<1> SUFFICES ASSUME Init PROVE StreamsInv
  OBVIOUS
<1>1. nextIndex <= Top
  <2>1. Max({Need[j] : j \in Jobs}) \in Nat
    BY MostNeeded
  <2> QED BY <2>1, SocketAssumption DEF Init, Top
<1>2. ASSUME NEW j \in Jobs PROVE JobInv(j)
  <2>1. Need[j] \in Nat /\ Need[j] > 0 /\ BufferSize \in Nat /\ PipeSize \in Nat
    BY SocketAssumption
  <2>2. /\ todo[j] = <<>> /\ queue[j] = <<>> /\ yielded[j] = <<>> /\ pipe[j] = <<>>
        /\ lastReceived[j] = -1 /\ nextIndex = 0 /\ fetch[j] = "off" /\ trainer[j] = "off"
    BY DEF Init
  <2>3. FetchInv(j) /\ SizeInv(j) /\ PreparedInv(j) /\ FlowInv(j)
    BY <2>1, <2>2 DEF FetchInv, SizeInv, PreparedInv, FlowInv, Fetching
  <2>4. Delivered(yielded[j], queue[j], lastReceived[j])
    BY <2>2 DEF Delivered
  <2> QED BY <2>3, <2>4 DEF JobInv
<1> QED BY <1>1, <1>2 DEF StreamsInv

\* A job that a step leaves alone, but for the subscription and the end of its pipe.
LEMMA JobFrame ==
    ASSUME WindowInv, NEW j \in Jobs, JobInv(j),
           UNCHANGED <<nextIndex, fetch[j], todo[j], lastReceived[j], queue[j], yielded[j], pipe[j]>>,
           trainer'[j] = "off" => trainer[j] = "off",
           trainer'[j] = "training" => trainer[j] \in {"off", "training"},
           \A end \in Mark : Fetching(j) /\ EndsAt(j, end) => EndsAt(j, end)'
    PROVE  JobInv(j)'
<1>1. FetchInv(j)' /\ SizeInv(j)' /\ PreparedInv(j)' /\ Delivered(yielded[j], queue[j], lastReceived[j])'
  BY DEF JobInv, FetchInv, SizeInv, PreparedInv, Delivered
<1>2. FlowInv(j)'
  <2>1. Fetching(j)' => Fetching(j)
    BY DEF Fetching
  <2>2. ASSUME NEW end \in Mark, Chain(pipe[j], lastReceived[j] + Len(todo[j]), end)
        PROVE  Chain(pipe[j], lastReceived[j] + Len(todo[j]), end)'
    <3>1. Chain(pipe'[j], lastReceived'[j] + Len(todo'[j]), end)
      BY <2>2
    <3> QED BY <3>1 DEF Chain
  <2>3. (todo[j] = Interval(lastReceived[j] + 1, lastReceived[j] + Len(todo[j])))
        => (todo[j] = Interval(lastReceived[j] + 1, lastReceived[j] + Len(todo[j])))'
    BY DEF Interval
  <2> QED BY <2>1, <2>2, <2>3 DEF JobInv, FlowInv
<1> QED BY <1>1, <1>2 DEF JobInv

\* Everything that does not touch the streams.
LEMMA StreamsFrame ==
    ASSUME WindowInv, StreamsInv,
           UNCHANGED <<nextIndex, fetch, todo, lastReceived, queue, yielded, pipe, lastSent>>,
           \A j \in Jobs : /\ trainer'[j] = "off" => trainer[j] = "off"
                           /\ trainer'[j] = "training" => trainer[j] \in {"off", "training"}
                           /\ j \in subscribed => j \in subscribed'
    PROVE  StreamsInv'
<1>1. nextIndex' <= Top'
  BY DEF StreamsInv, Top
<1>2. ASSUME NEW j \in Jobs PROVE JobInv(j)'
  <2>1. \A end \in Mark : EndsAt(j, end) => EndsAt(j, end)'
    BY DEF EndsAt, Consumers
  <2> QED BY <2>1, JobFrame DEF StreamsInv
<1> QED BY <1>1, <1>2 DEF StreamsInv

\* A registration, an acknowledgement or a close does not change what is under way to
\* a consumer that fetches.
LEMMA StreamsControl ==
    ASSUME WindowInv, StreamsInv, NEW c \in Jobs, DrainControl(c) PROVE StreamsInv'
<1> DEFINE m == Head(control[c])
<1>0. /\ control[c] \in Seq(Message)
      /\ lastSent \in [Consumers -> Mark]
  BY DEF WindowInv, Types, ProducerTypes, NetTypes
<1>1. /\ UNCHANGED <<nextIndex, subscribed, fetch, todo, lastReceived, queue, yielded, pipe, trainer>>
      /\ control[c] # <<>>
  BY DEF DrainControl, fetchVars, jobVars
<1>2. m = control[c][1] /\ 1 \in DOMAIN control[c]
  BY <1>0, <1>1, HeadAndTail
<1>3. \/ m.type = "register"
         /\ lastSent' = [d \in Consumers \cup {c} |-> IF d \in Consumers THEN lastSent[d] ELSE -1]
      \/ m.type = "close" /\ c \in Consumers
         /\ lastSent' = [d \in Consumers \ {c} |-> lastSent[d]]
      \/ UNCHANGED lastSent
  BY DEF DrainControl
<1> HIDE DEF m
<1>4. ASSUME m.type = "close" PROVE ~Fetching(c)
  <2>1. trainer[c] = "ended"
    BY <1>2, <1>4 DEF WindowInv, ControlInv
  <2> QED BY <2>1 DEF WindowInv, IdleInv, Fetching
<1>5. ASSUME NEW j \in Jobs, NEW end \in Mark, Fetching(j), EndsAt(j, end) PROVE EndsAt(j, end)'
  <2>1. CASE /\ m.type = "register"
             /\ lastSent' = [d \in Consumers \cup {c} |->
                                IF d \in Consumers THEN lastSent[d] ELSE -1]
    <3>1. Consumers' = Consumers \cup {c}
      BY <2>1 DEF Consumers
    <3> QED BY <1>1, <1>5, <2>1, <3>1 DEF EndsAt
  <2>2. CASE /\ m.type = "close" /\ c \in Consumers
             /\ lastSent' = [d \in Consumers \ {c} |-> lastSent[d]]
    <3>1. Consumers' = Consumers \ {c} /\ j # c
      BY <1>4, <1>5, <2>2 DEF Consumers
    <3> QED BY <1>1, <1>5, <2>2, <3>1 DEF EndsAt
  <2>3. CASE UNCHANGED lastSent
    BY <1>1, <1>5, <2>3 DEF EndsAt, Consumers
  <2> QED BY <1>3, <2>1, <2>2, <2>3
<1>6. ASSUME NEW j \in Jobs PROVE JobInv(j)'
  BY <1>1, <1>5, JobFrame DEF StreamsInv
<1> QED BY <1>1, <1>6 DEF StreamsInv, Top

\* A consumer that connects has received nothing.
LEMMA StreamsConnect ==
    ASSUME WindowInv, StreamsInv, NEW j \in Jobs, Connect(j) PROVE StreamsInv'
<1>0. fetch \in [Jobs -> {"off", "poll", "put", "over"}] /\ trainer \in [Jobs -> TrainerState]
  BY DEF WindowInv, Types, ConsumerTypes
<1>1. /\ UNCHANGED <<nextIndex, lastSent, subscribed, pipe, todo, lastReceived, queue, yielded>>
      /\ trainer[j] = "off"
      /\ trainer' = [trainer EXCEPT ![j] = "training"]
      /\ fetch' = [fetch EXCEPT ![j] = "poll"]
  BY DEF Connect, producerVars
<1>2. Consumers' = Consumers
  BY <1>1 DEF Consumers
<1>3. \A i \in Jobs, end \in Mark : EndsAt(i, end) => EndsAt(i, end)'
  BY <1>1, <1>2 DEF EndsAt
<1>4. ASSUME NEW i \in Jobs, i # j PROVE JobInv(i)'
  <2>1. fetch'[i] = fetch[i] /\ trainer'[i] = trainer[i]
    BY <1>0, <1>1, <1>4
  <2> QED BY <1>1, <1>3, <2>1, JobFrame DEF StreamsInv
<1>5. JobInv(j)'
  <2>1. /\ fetch'[j] = "poll" /\ trainer'[j] = "training" /\ fetch[j] = "off"
        /\ todo[j] = <<>> /\ lastReceived[j] = -1
    BY <1>0, <1>1 DEF StreamsInv, JobInv, FetchInv
  <2>2. pipe[j] = <<>> /\ j \notin subscribed /\ j \notin Consumers
    BY <1>1 DEF WindowInv, IdleInv, ControlInv
  <2>3. FetchInv(j)' /\ SizeInv(j)' /\ PreparedInv(j)'
    BY <1>1, <2>1 DEF StreamsInv, JobInv, FetchInv, SizeInv, PreparedInv
  <2>4. Delivered(yielded[j], queue[j], lastReceived[j])'
    BY <1>1 DEF StreamsInv, JobInv, Delivered
  <2>5. FlowInv(j)'
    <3>1. /\ todo'[j] = <<>> /\ lastReceived'[j] = -1 /\ Len(todo'[j]) = 0 /\ pipe'[j] = <<>>
      BY <1>1, <2>1, <2>2
    <3>2. Interval(0, -1) = <<>>
      <4>1. 0 \in Nat /\ -1 \in Mark /\ 0 > -1
        BY DEF Mark
      <4> QED BY <4>1, IntervalFacts
    <3>3. Chain(<<>>, -1, -1)
      BY ChainOfNothing
    <3>4. EndsAt(j, -1)'
      BY <1>1, <1>2, <2>2 DEF EndsAt
    <3>5. todo'[j] = Interval(lastReceived'[j] + 1, lastReceived'[j] + Len(todo'[j]))
      BY <3>1, <3>2
    <3>6. Chain(pipe'[j], lastReceived'[j] + Len(todo'[j]), -1)
      BY <3>1, <3>3
    <3>7. -1 \in Mark
      BY DEF Mark
    <3>8. Chain(pipe[j], lastReceived[j] + Len(todo[j]), -1)'
      BY <3>6 DEF Chain
    <3> QED BY <3>4, <3>5, <3>7, <3>8 DEF FlowInv
  <2> QED BY <2>3, <2>4, <2>5 DEF JobInv
<1> QED BY <1>1, <1>4, <1>5 DEF StreamsInv, Top

\* A consumer that closes leaves its pipe empty.
LEMMA StreamsClose ==
    ASSUME WindowInv, StreamsInv, NEW j \in Jobs, CloseConsumer(j) PROVE StreamsInv'
<1>0. /\ fetch \in [Jobs -> {"off", "poll", "put", "over"}] /\ trainer \in [Jobs -> TrainerState]
      /\ pipe \in [Jobs -> Seq(Seq(Item))]
  BY DEF WindowInv, Types, ConsumerTypes, NetTypes
<1>1. /\ UNCHANGED <<nextIndex, lastSent, todo, lastReceived, queue, yielded>>
      /\ trainer' = [trainer EXCEPT ![j] = "ended"]
      /\ fetch' = [fetch EXCEPT ![j] = "over"]
      /\ subscribed' = subscribed \ {j}
      /\ pipe' = [pipe EXCEPT ![j] = <<>>]
  BY DEF CloseConsumer, producerVars
<1>2. Consumers' = Consumers
  BY <1>1 DEF Consumers
<1>3. ASSUME NEW i \in Jobs, i # j PROVE JobInv(i)'
  <2>1. fetch'[i] = fetch[i] /\ trainer'[i] = trainer[i] /\ pipe'[i] = pipe[i]
    BY <1>0, <1>1, <1>3
  <2>2. \A end \in Mark : EndsAt(i, end) => EndsAt(i, end)'
    BY <1>1, <1>2, <1>3 DEF EndsAt
  <2> QED BY <1>1, <2>1, <2>2, JobFrame DEF StreamsInv
<1>4. JobInv(j)'
  <2>1. fetch'[j] = "over" /\ trainer'[j] = "ended" /\ pipe'[j] = <<>> /\ Len(<<>>) = 0
    BY <1>0, <1>1
  <2>2. FetchInv(j)' /\ FlowInv(j)'
    BY <2>1 DEF FetchInv, FlowInv, Fetching
  <2>3. SizeInv(j)'
    BY <1>1, <2>1, Sizes DEF StreamsInv, JobInv, SizeInv
  <2>4. PreparedInv(j)'
    BY <1>1, <2>1 DEF StreamsInv, JobInv, PreparedInv
  <2>5. Delivered(yielded[j], queue[j], lastReceived[j])'
    BY <1>1 DEF StreamsInv, JobInv, Delivered
  <2> QED BY <2>2, <2>3, <2>4, <2>5 DEF JobInv
<1> QED BY <1>1, <1>3, <1>4 DEF StreamsInv, Top

\* No credit is left for a consumer that missed its first message.
LEMMA NothingIsDue ==
    ASSUME WindowInv, NEW c \in Consumers, lastReceived[c] = -1, lastSent[c] >= BufferSize - 1
    PROVE  ~(lastSent[c] < SendLimit(c))
<1>1. ProducerTypes /\ lastSent[c] \in Int /\ lastAcked[c] \in Int
  BY DEF WindowInv, Types, ProducerTypes, Mark
<1>2. SendLimit(c) \in Int /\ SendLimit(c) <= lastAcked[c] + BufferSize
  BY <1>1, Limits
<1>3. lastAcked[c] <= -1
  BY DEF WindowInv, LagInv
<1> QED BY <1>1, <1>2, <1>3, Sizes

\* The first message has as many batches as a consumer has credit.
LEMMA FirstLimit ==
    ASSUME WindowInv, NEW c \in Consumers PROVE SendLimit(c) >= BufferSize - 1
<1>1. ProducerTypes /\ lastAcked[c] \in Mark
  BY DEF WindowInv, Types, ProducerTypes
<1>2. SlowestAcked \in Mark
  BY <1>1, Limits
<1> QED BY <1>1, <1>2, SocketAssumption DEF SendLimit, MinOf, Mark

\* What is prepared stays below the top.
LEMMA TopHolds ==
    ASSUME WindowInv, StreamsInv, Serve PROVE nextIndex' <= Top
<1>1. nextIndex \in Int /\ nextIndex' \in Int
  BY ServeEffect DEF WindowInv, Types, ProducerTypes
<1>2. CASE nextIndex' = nextIndex
  BY <1>2 DEF StreamsInv
<1>3. ASSUME NEW c \in Consumers, nextIndex' <= SendLimit(c) + 1 PROVE nextIndex' <= Top
  <2>1. /\ ProducerTypes /\ c \in Jobs /\ lastAcked[c] \in Int /\ lastReceived[c] \in Int
        /\ yielded[c] \in Seq(Nat) /\ queue[c] \in Seq(Item)
    BY DEF WindowInv, Types, ProducerTypes, ConsumerTypes, Mark
  <2>2. /\ SendLimit(c) \in Int /\ SendLimit(c) <= lastAcked[c] + BufferSize
        /\ lastAcked[c] <= lastReceived[c]
    BY <2>1, Limits DEF WindowInv, LagInv
  <2>3. /\ Len(yielded[c]) \in Int /\ Len(queue[c]) \in Int
        /\ Len(yielded[c]) <= Need[c] /\ Len(queue[c]) <= BufferSize
        /\ \/ Len(yielded[c]) + Len(queue[c]) = lastReceived[c] + 1
           \/ Len(yielded[c]) + Len(queue[c]) = lastReceived[c] + 2
    <3>1. SizeInv(c) /\ Delivered(yielded[c], queue[c], lastReceived[c])
      BY <2>1 DEF StreamsInv, JobInv
    <3>2. Len(yielded[c]) \in Int /\ Len(queue[c]) \in Int
      BY <2>1
    <3>3. Len(yielded[c]) <= Need[c] /\ Len(queue[c]) <= BufferSize
      BY <3>1 DEF SizeInv
    <3>4. Len(yielded[c]) + Len(queue[c]) \in {lastReceived[c] + 1, lastReceived[c] + 2}
      BY <3>1 DEF Delivered
    <3> QED BY <3>2, <3>3, <3>4
  <2>4. Need[c] \in Int /\ Max({Need[j] : j \in Jobs}) \in Int
        /\ Need[c] <= Max({Need[j] : j \in Jobs})
    BY <2>1, MostNeeded, SocketAssumption
  <2> DEFINE most == Max({Need[j] : j \in Jobs})
  <2> HIDE DEF most
  <2>5. Top = most + 2 * BufferSize /\ most \in Int /\ Need[c] <= most
    BY <2>4 DEF Top, most
  <2>6. lastReceived[c] + 1 <= Need[c] + BufferSize
    <3> DEFINE y == Len(yielded[c])
               q == Len(queue[c])
               last == lastReceived[c]
    <3>1. /\ y \in Int /\ q \in Int /\ last \in Int /\ y <= Need[c] /\ q <= BufferSize
          /\ y + q = last + 1 \/ y + q = last + 2
      BY <2>1, <2>3
    <3> HIDE DEF y, q, last
    <3>2. last + 1 <= Need[c] + BufferSize
      BY <2>4, <3>1, Sizes
    <3> QED BY <3>2 DEF last
  <2>7. nextIndex' <= Need[c] + 2 * BufferSize
    BY <1>1, <1>3, <2>1, <2>2, <2>4, <2>6, Sizes
  <2> QED BY <1>1, <2>4, <2>5, <2>7, Sizes
<1> QED BY <1>2, <1>3, ServeEffect

\* No shutdown is in a pipe while the producer is open.
LEMMA OpenPipes ==
    ASSUME ClosedInv, producer # "closed", NEW j \in Jobs
    PROVE  \A k \in DOMAIN pipe[j] : pipe[j][k] # <<Shutdown>>
<1> SUFFICES ASSUME NEW k \in DOMAIN pipe[j], pipe[j][k] = <<Shutdown>> PROVE FALSE
  OBVIOUS
<1>1. NoShutdown(<<Shutdown>>)
  BY DEF ClosedInv
<1> QED BY <1>1 DEF NoShutdown

\* A message that is published, or is lost for a job that has nothing in it, leaves
\* the job's stream without a hole.
LEMMA FlowServe ==
    ASSUME WindowInv, ClosedInv, StreamsInv, Serve, NEW j \in Jobs, Fetching(j),
           NEW part \in Seq(Item),
           part = IF j \in Consumers THEN PartOf(j) ELSE <<>>,
           \/ pipe'[j] = Append(pipe[j], part)
           \/ /\ pipe'[j] = pipe[j]
              /\ j \in subscribed /\ j \in Consumers => lastSent'[j] = lastSent[j],
           j \notin subscribed => pipe'[j] = pipe[j]
    PROVE  \E end \in Mark : /\ Chain(pipe'[j], lastReceived[j] + Len(todo[j]), end)
                             /\ EndsAt(j, end)'
<1> DEFINE at == lastReceived[j] + Len(todo[j])
<1>0. /\ pipe[j] \in Seq(Seq(Item)) /\ lastReceived[j] \in Mark /\ Len(todo[j]) \in Nat
      /\ (j \in Consumers => lastSent[j] \in Mark)
  BY DEF WindowInv, Types, NetTypes, ConsumerTypes, ProducerTypes
<1>1. PICK end \in Mark : Chain(pipe[j], at, end) /\ EndsAt(j, end)
  BY DEF StreamsInv, JobInv, FlowInv
<1>2. \A k \in DOMAIN pipe[j] : pipe[j][k] # <<Shutdown>>
  BY ServeEffect, OpenPipes
<1>3. /\ Consumers' = Consumers /\ subscribed' = subscribed
      /\ \A c \in Consumers : lastSent'[c] = Reach(c)
  BY ServeEffect DEF Consumers
<1>4. at \in Int /\ end \in Int /\ at <= end
  BY <1>0, <1>1, ChainOrder
<1> HIDE DEF at
<1>5. ASSUME part = <<>>, j \in Consumers => lastSent'[j] = lastSent[j]
      PROVE  Chain(pipe'[j], at, end) /\ EndsAt(j, end)'
  <2>1. EndsAt(j, end)'
    BY <1>1, <1>3, <1>5 DEF EndsAt
  <2>2. Interval(end + 1, end) = <<>>
    <3>1. end + 1 \in Nat /\ end + 1 > end
      BY DEF Mark
    <3> QED BY <3>1, IntervalFacts
  <2>3. Chain(Append(pipe[j], part), at, end)
    <3>1. part = Interval(end + 1, end) /\ end <= end
      BY <1>4, <1>5, <2>2
    <3> QED BY <1>0, <1>1, <1>2, <1>4, <3>1, ChainGrows
  <2> QED BY <1>1, <2>1, <2>3
<1>6. CASE j \notin Consumers
  BY <1>5, <1>6 DEF at
<1>7. CASE j \in Consumers /\ ~(lastSent[j] < SendLimit(j))
  <2>1. part = <<>> /\ Reach(j) = lastSent[j]
    BY <1>7, AllIsSent DEF Reach
  <2> QED BY <1>3, <1>5, <1>7, <2>1 DEF at
<1>8. CASE j \in Consumers /\ lastSent[j] < SendLimit(j)
  <2>1. /\ part = Interval(lastSent[j] + 1, Reach(j)) /\ Reach(j) = SendLimit(j)
        /\ Reach(j) \in Mark /\ lastSent[j] < Reach(j) /\ lastSent'[j] = Reach(j)
    BY <1>3, <1>8, AllIsSent DEF Reach
  <2>2. end = lastSent[j]
    <3> SUFFICES ASSUME end = -1 /\ lastSent[j] >= BufferSize - 1 PROVE FALSE
      BY <1>1, <1>8 DEF EndsAt
    <3>1. lastReceived[j] = -1
      BY <1>0, <1>4 DEF at, Mark
    <3> QED BY <1>8, <3>1, NothingIsDue
  <2>3. CASE j \in subscribed
    <3>1. pipe'[j] = Append(pipe[j], part)
      BY <1>0, <1>8, <2>1, <2>3 DEF Mark
    <3>2. PICK reach \in Mark : reach = Reach(j)
      BY <2>1
    <3>3. reach \in Int /\ end <= reach /\ part = Interval(end + 1, reach)
      BY <1>4, <2>1, <2>2, <3>2 DEF Mark
    <3>4. Chain(pipe'[j], at, reach)
      BY <1>0, <1>1, <1>2, <1>4, <3>1, <3>3, ChainGrows
    <3>5. EndsAt(j, reach)'
      BY <1>3, <1>8, <2>1, <2>3, <3>2 DEF EndsAt
    <3> QED BY <3>4, <3>5 DEF at
  <2>4. CASE j \notin subscribed
    <3>1. end = -1
      BY <1>1, <2>4 DEF EndsAt
    <3>2. lastSent'[j] >= BufferSize - 1
      BY <1>8, <2>1, FirstLimit
    <3>3. EndsAt(j, end)'
      BY <1>3, <1>8, <3>1, <3>2 DEF EndsAt
    <3> QED BY <1>1, <2>4, <3>3 DEF at
  <2> QED BY <2>3, <2>4
<1> QED BY <1>5, <1>6, <1>7, <1>8 DEF at

\* What NoBatchDropped says of a round.
NoneDropped == \A j \in subscribed \cap Consumers :
                  lastSent'[j] # lastSent[j] => Len(pipe[j]) < PipeSize

\* A round that finds room in the pipes continues every stream.
LEMMA StreamsServe ==
    ASSUME WindowInv, ClosedInv, StreamsInv, Serve, NoneDropped
    PROVE  StreamsInv'
<1> DEFINE part == [c \in Jobs |-> IF c \in Consumers THEN PartOf(c) ELSE <<>>]
<1>0. /\ NetTypes /\ Consumers \subseteq Jobs /\ lastSent \in [Consumers -> Mark]
      /\ nextIndex \in Int
  BY DEF WindowInv, Types, ProducerTypes
<1>1. /\ UNCHANGED <<subscribed, todo, fetch, lastReceived, queue, trainer, yielded>>
      /\ lastSent' = [c \in Consumers |-> Reach(c)]
      /\ \A c \in Consumers : lastSent[c] <= Reach(c) /\ Reach(c) \in Mark
      /\ nextIndex' \in Nat /\ nextIndex <= nextIndex'
      /\ \A c \in Consumers : Reach(c) < nextIndex'
  BY ServeEffect DEF fetchVars, jobVars
<1>2. \/ pipe' = pipe /\ nextIndex' = nextIndex /\ \A c \in Consumers : Reach(c) = lastSent[c]
      \/ pipe' = Published(part)
  BY ServeEffect
<1>3. CASE pipe' = pipe /\ nextIndex' = nextIndex /\ \A c \in Consumers : Reach(c) = lastSent[c]
  <2>1. lastSent' = lastSent
    BY <1>0, <1>1, <1>3
  <2> QED BY <1>1, <1>3, <2>1, StreamsFrame
<1>4. ASSUME NEW j \in Jobs
      PROVE  /\ part[j] \in Seq(Item)
             /\ part[j] = IF j \in Consumers THEN PartOf(j) ELSE <<>>
             /\ \A i \in DOMAIN part[j] : part[j][i] < nextIndex'
  <2>1. CASE j \in Consumers
    <3>1. PICK a \in Nat, b \in Mark : a = lastSent[j] + 1 /\ b = Reach(j)
      BY <1>0, <1>1, <2>1 DEF Mark
    <3>2. part[j] = Interval(a, b) /\ part[j] \in Seq(Item)
      BY <2>1, <3>1, AllIsSent
    <3>3. b < nextIndex' /\ b \in Int
      BY <1>1, <2>1, <3>1 DEF Mark
    <3>4. ASSUME NEW i \in DOMAIN part[j] PROVE part[j][i] < nextIndex'
      <4>1. part[j][i] \in Nat /\ part[j][i] <= b
        BY <3>2, IntervalFacts
      <4> QED BY <1>1, <3>3, <4>1
    <3> QED BY <2>1, <3>2, <3>4
  <2>2. CASE j \notin Consumers
    BY <2>2
  <2> QED BY <2>1, <2>2
<1>5. part \in [Jobs -> Seq(Item)]
  BY <1>4
<1> HIDE DEF part
<1>6. CASE pipe' = Published(part)
  <2>1. nextIndex' <= Top
    BY TopHolds
  <2>2. ASSUME NEW j \in Jobs PROVE JobInv(j)'
    <3>0. /\ JobInv(j) /\ part[j] \in Seq(Item) /\ pipe[j] \in Seq(Seq(Item))
          /\ lastReceived[j] \in Int /\ todo[j] \in Seq(Item)
      BY <1>0, <1>4 DEF NetTypes, StreamsInv, WindowInv, Types, ConsumerTypes, Mark
    <3>1. pipe'[j] = IF j \in subscribed /\ Len(pipe[j]) < PipeSize
                     THEN Append(pipe[j], part[j]) ELSE pipe[j]
      BY <1>0, <1>5, <1>6, PublishedPipes
    <3>2. FetchInv(j)' /\ Delivered(yielded[j], queue[j], lastReceived[j])'
      BY <1>1, <3>0 DEF JobInv, FetchInv, Delivered
    <3>3. SizeInv(j)'
      <4>1. Len(pipe'[j]) <= PipeSize
        <5>1. Len(Append(pipe[j], part[j])) = Len(pipe[j]) + 1 /\ Len(pipe[j]) \in Nat
          BY <3>0
        <5> QED BY <3>0, <3>1, <5>1, Sizes DEF JobInv, SizeInv
      <4> QED BY <1>1, <3>0, <4>1 DEF JobInv, SizeInv
    <3>4. PreparedInv(j)'
      <4>1. \A x \in Item : x < nextIndex => x < nextIndex'
        BY <1>0, <1>1 DEF Item, Shutdown
      <4>2. lastReceived[j] < nextIndex'
        BY <1>0, <1>1, <3>0 DEF JobInv, PreparedInv
      <4>3. \A i \in DOMAIN todo[j] : todo[j][i] < nextIndex'
        BY <3>0, <4>1 DEF JobInv, PreparedInv
      <4>4. ASSUME NEW k \in DOMAIN pipe[j], NEW i \in DOMAIN pipe[j][k]
            PROVE  pipe[j][k][i] < nextIndex'
        <5>1. pipe[j][k] \in Seq(Item)
          BY <3>0
        <5>2. pipe[j][k][i] \in Item
          BY <5>1
        <5> QED BY <3>0, <4>1, <5>2 DEF JobInv, PreparedInv
      <4>5. ASSUME NEW k \in DOMAIN pipe'[j]
            PROVE  \A i \in DOMAIN pipe'[j][k] : pipe'[j][k][i] < nextIndex'
        <5>1. CASE pipe'[j] = pipe[j]
          BY <4>4, <5>1
        <5>2. CASE pipe'[j] = Append(pipe[j], part[j])
          <6>1. k \in DOMAIN Append(pipe[j], part[j])
            BY <5>2
          <6>2. \/ k \in DOMAIN pipe[j] /\ Append(pipe[j], part[j])[k] = pipe[j][k]
                \/ Append(pipe[j], part[j])[k] = part[j]
            BY <3>0, <6>1, Appended
          <6> QED BY <1>4, <4>4, <5>2, <6>2
        <5> QED BY <3>1, <5>1, <5>2
      <4> QED BY <1>1, <4>2, <4>3, <4>5 DEF PreparedInv
    <3>5. FlowInv(j)'
      <4> SUFFICES ASSUME Fetching(j)
                   PROVE  /\ todo'[j] = Interval(lastReceived'[j] + 1, lastReceived'[j] + Len(todo'[j]))
                          /\ \E end \in Mark :
                                /\ Chain(pipe[j], lastReceived[j] + Len(todo[j]), end)'
                                /\ EndsAt(j, end)'
        BY <1>1 DEF FlowInv, Fetching, Interval
      <4>1. todo[j] = Interval(lastReceived[j] + 1, lastReceived[j] + Len(todo[j]))
        BY <3>0 DEF JobInv, FlowInv
      <4>2. j \in subscribed /\ j \in Consumers /\ lastSent'[j] # lastSent[j]
            => Len(pipe[j]) < PipeSize
        BY DEF NoneDropped
      <4>3. PICK end \in Mark : /\ Chain(pipe'[j], lastReceived[j] + Len(todo[j]), end)
                                /\ EndsAt(j, end)'
        <5>1. \/ pipe'[j] = Append(pipe[j], part[j])
              \/ /\ pipe'[j] = pipe[j]
                 /\ j \in subscribed /\ j \in Consumers => lastSent'[j] = lastSent[j]
          BY <3>1, <4>2
        <5>2. j \notin subscribed => pipe'[j] = pipe[j]
          BY <3>1
        <5> QED BY <1>4, <5>1, <5>2, FlowServe
      <4>4. Chain(pipe'[j], lastReceived'[j] + Len(todo'[j]), end)
        BY <1>1, <4>3
      <4>5. Chain(pipe[j], lastReceived[j] + Len(todo[j]), end)'
        BY <4>4 DEF Chain
      <4> QED BY <1>1, <4>1, <4>3, <4>5
    <3> QED BY <3>2, <3>3, <3>4, <3>5 DEF JobInv
  <2> QED BY <2>1, <2>2 DEF StreamsInv, Top
<1> QED BY <1>2, <1>3, <1>6

\* Closing the producer puts one shutdown after the batches of a stream.
LEMMA StreamsShutdown ==
    ASSUME WindowInv, ClosedInv, StreamsInv, producer \in {"waiting", "serving"}, CloseProducer
    PROVE  StreamsInv'
<1> DEFINE part == [c \in Jobs |-> <<Shutdown>>]
<1>0. NetTypes /\ nextIndex \in Nat
  BY DEF WindowInv, Types, ProducerTypes
<1>1. /\ UNCHANGED <<nextIndex, lastSent, subscribed, todo, fetch, lastReceived, queue, trainer,
                    yielded>>
      /\ pipe' = pipe \/ pipe' = Published(part)
  BY DEF CloseProducer, fetchVars, jobVars
<1>2. CASE pipe' = pipe
  BY <1>1, <1>2, StreamsFrame
<1>3. <<Shutdown>> \in Seq(Item) /\ part \in [Jobs -> Seq(Item)] /\ \A j \in Jobs : part[j] = <<Shutdown>>
  BY DEF Item
<1> HIDE DEF part
<1>4. CASE pipe' = Published(part)
  <2>1. ASSUME NEW j \in Jobs PROVE JobInv(j)'
    <3>0. /\ JobInv(j) /\ pipe[j] \in Seq(Seq(Item))
      BY <1>0 DEF NetTypes, StreamsInv
    <3>1. pipe'[j] = IF j \in subscribed /\ Len(pipe[j]) < PipeSize
                     THEN Append(pipe[j], <<Shutdown>>) ELSE pipe[j]
      BY <1>0, <1>3, <1>4, PublishedPipes
    <3>2. FetchInv(j)' /\ Delivered(yielded[j], queue[j], lastReceived[j])'
      BY <1>1, <3>0 DEF JobInv, FetchInv, Delivered
    <3>3. SizeInv(j)'
      <4>1. Len(pipe'[j]) <= PipeSize
        <5>1. Len(Append(pipe[j], <<Shutdown>>)) = Len(pipe[j]) + 1 /\ Len(pipe[j]) \in Nat
          BY <1>3, <3>0
        <5> QED BY <3>0, <3>1, <5>1, Sizes DEF JobInv, SizeInv
      <4> QED BY <1>1, <3>0, <4>1 DEF JobInv, SizeInv
    <3>4. PreparedInv(j)'
      <4>1. ASSUME NEW k \in DOMAIN pipe'[j]
            PROVE  \A i \in DOMAIN pipe'[j][k] : pipe'[j][k][i] < nextIndex
        <5>1. CASE pipe'[j] = pipe[j]
          BY <3>0, <5>1 DEF JobInv, PreparedInv
        <5>2. CASE pipe'[j] = Append(pipe[j], <<Shutdown>>)
          <6>1. k \in DOMAIN Append(pipe[j], <<Shutdown>>)
            BY <5>2
          <6>2. \/ k \in DOMAIN pipe[j] /\ Append(pipe[j], <<Shutdown>>)[k] = pipe[j][k]
                \/ Append(pipe[j], <<Shutdown>>)[k] = <<Shutdown>>
            BY <1>3, <3>0, <6>1, Appended
          <6>3. \A i \in DOMAIN <<Shutdown>> : <<Shutdown>>[i] < nextIndex
            BY <1>0 DEF Shutdown
          <6> QED BY <3>0, <5>2, <6>2, <6>3 DEF JobInv, PreparedInv
        <5> QED BY <3>1, <5>1, <5>2
      <4> QED BY <1>1, <3>0, <4>1 DEF JobInv, PreparedInv
    <3>5. FlowInv(j)'
      <4> SUFFICES ASSUME Fetching(j)
                   PROVE  /\ todo'[j] = Interval(lastReceived'[j] + 1, lastReceived'[j] + Len(todo'[j]))
                          /\ \E end \in Mark :
                                /\ Chain(pipe[j], lastReceived[j] + Len(todo[j]), end)'
                                /\ EndsAt(j, end)'
        BY <1>1 DEF FlowInv, Fetching, Interval
      <4> DEFINE at == lastReceived[j] + Len(todo[j])
      <4>1. todo[j] = Interval(lastReceived[j] + 1, lastReceived[j] + Len(todo[j]))
        BY <3>0 DEF JobInv, FlowInv
      <4>2. PICK end \in Mark : Chain(pipe[j], at, end) /\ EndsAt(j, end)
        BY <3>0 DEF JobInv, FlowInv
      <4> HIDE DEF at
      <4>3. EndsAt(j, end)'
        BY <1>1, <4>2 DEF EndsAt, Consumers
      <4>4. at \in Int /\ end \in Int /\ end <= end
        BY <3>0, <4>2, ChainOrder
      <4>5. \A k \in DOMAIN pipe[j] : pipe[j][k] # <<Shutdown>>
        BY OpenPipes
      <4>6. Chain(Append(pipe[j], <<Shutdown>>), at, end)
        BY <1>3, <3>0, <4>2, <4>4, <4>5, ChainGrows
      <4>7. Chain(pipe'[j], lastReceived'[j] + Len(todo'[j]), end)
        BY <1>1, <3>1, <4>2, <4>6 DEF at
      <4>8. Chain(pipe[j], lastReceived[j] + Len(todo[j]), end)'
        BY <4>7 DEF Chain
      <4> QED BY <1>1, <4>1, <4>3, <4>8
    <3> QED BY <3>2, <3>3, <3>4, <3>5 DEF JobInv
  <2> QED BY <1>1, <2>1 DEF StreamsInv, Top
<1> QED BY <1>1, <1>2, <1>4

\* The fetch thread takes a message: what it has to put follows what it received.
LEMMA StreamsReceive ==
    ASSUME WindowInv, StreamsInv, NEW j \in Jobs, Receive(j) PROVE StreamsInv'
<1>0. /\ fetch \in [Jobs -> {"off", "poll", "put", "over"}]
      /\ pipe \in [Jobs -> Seq(Seq(Item))] /\ todo \in [Jobs -> Seq(Item)]
      /\ lastReceived[j] \in Mark /\ JobInv(j)
  BY DEF WindowInv, Types, ConsumerTypes, NetTypes, StreamsInv
<1>1. /\ UNCHANGED <<nextIndex, lastSent, subscribed, lastReceived, queue, trainer, yielded>>
      /\ fetch[j] = "poll" /\ pipe[j] # <<>>
      /\ todo' = [todo EXCEPT ![j] = Head(pipe[j])]
      /\ fetch' = [fetch EXCEPT ![j] = IF Head(pipe[j]) = <<>> THEN "poll" ELSE "put"]
      /\ pipe' = [pipe EXCEPT ![j] = Tail(@)]
  BY DEF Receive, producerVars, jobVars
<1>2. \A i \in Jobs, end \in Mark : EndsAt(i, end) => EndsAt(i, end)'
  BY <1>1 DEF EndsAt, Consumers
<1>3. ASSUME NEW i \in Jobs, i # j PROVE JobInv(i)'
  <2>1. fetch'[i] = fetch[i] /\ todo'[i] = todo[i] /\ pipe'[i] = pipe[i]
    BY <1>0, <1>1, <1>3
  <2> QED BY <1>1, <1>2, <2>1, JobFrame DEF StreamsInv
<1>4. JobInv(j)'
  <2>1. /\ todo'[j] = Head(pipe[j]) /\ pipe'[j] = Tail(pipe[j])
        /\ fetch'[j] = IF Head(pipe[j]) = <<>> THEN "poll" ELSE "put"
    BY <1>0, <1>1
  <2>2. /\ Head(pipe[j]) = pipe[j][1] /\ 1 \in DOMAIN pipe[j]
        /\ Len(Tail(pipe[j])) = Len(pipe[j]) - 1 /\ Len(pipe[j]) \in Nat
        /\ \A k \in DOMAIN Tail(pipe[j]) :
              k + 1 \in DOMAIN pipe[j] /\ Tail(pipe[j])[k] = pipe[j][k + 1]
    BY <1>0, <1>1, HeadAndTail
  <2>3. FetchInv(j)' /\ Delivered(yielded[j], queue[j], lastReceived[j])'
    <3>1. trainer[j] # "off"
      BY <1>0, <1>1 DEF JobInv, FetchInv
    <3> QED BY <1>0, <1>1, <2>1, <3>1 DEF JobInv, FetchInv, Delivered
  <2>4. SizeInv(j)'
    BY <1>0, <1>1, <2>1, <2>2, Sizes DEF JobInv, SizeInv
  <2>5. PreparedInv(j)'
    <3>1. \A i \in DOMAIN Head(pipe[j]) : Head(pipe[j])[i] < nextIndex
      BY <1>0, <2>2 DEF JobInv, PreparedInv
    <3>2. \A k \in DOMAIN Tail(pipe[j]) : \A i \in DOMAIN Tail(pipe[j])[k] :
             Tail(pipe[j])[k][i] < nextIndex
      BY <1>0, <2>2 DEF JobInv, PreparedInv
    <3> QED BY <1>0, <1>1, <2>1, <3>1, <3>2 DEF JobInv, PreparedInv
  <2>6. FlowInv(j)'
    <3> SUFFICES ASSUME Head(pipe[j]) # <<Shutdown>>
                 PROVE  /\ todo'[j] = Interval(lastReceived'[j] + 1, lastReceived'[j] + Len(todo'[j]))
                        /\ \E end \in Mark :
                              /\ Chain(pipe[j], lastReceived[j] + Len(todo[j]), end)'
                              /\ EndsAt(j, end)'
      BY <2>1 DEF FlowInv, Fetching, Interval
    <3> DEFINE last == lastReceived[j]
    <3>1. todo[j] = <<>> /\ Fetching(j) /\ last + Len(<<>>) = last /\ last \in Int
      BY <1>0, <1>1 DEF JobInv, FetchInv, Fetching, Mark
    <3>2. PICK end \in Mark : Chain(pipe[j], last, end) /\ EndsAt(j, end)
      BY <1>0, <3>1 DEF JobInv, FlowInv
    <3> HIDE DEF last
    <3>3. end \in Int /\ pipe[j] \in Seq(Seq(Item)) /\ last \in Mark
      BY <1>0 DEF Mark, last
    <3>4. PICK c \in Int : /\ last <= c /\ Head(pipe[j]) = Interval(last + 1, c)
                           /\ Chain(Tail(pipe[j]), c, end)
      BY <1>1, <3>1, <3>2, <3>3, ChainShrinks
    <3>5. last + Len(Head(pipe[j])) = c
      <4>1. last + 1 \in Nat /\ c \in Mark
        BY <3>3, <3>4 DEF Mark
      <4>2. Len(Interval(last + 1, c)) = IF last + 1 <= c THEN c - (last + 1) + 1 ELSE 0
        BY <4>1, IntervalFacts
      <4> QED BY <3>1, <3>4, <4>2
    <3>6. Chain(pipe'[j], lastReceived'[j] + Len(todo'[j]), end)
      BY <1>1, <2>1, <3>4, <3>5 DEF last
    <3>7. Chain(pipe[j], lastReceived[j] + Len(todo[j]), end)'
      BY <3>6 DEF Chain
    <3>8. todo'[j] = Interval(lastReceived'[j] + 1, lastReceived'[j] + Len(todo'[j]))
      BY <1>1, <2>1, <3>4, <3>5 DEF last
    <3> QED BY <1>2, <3>2, <3>7, <3>8
  <2> QED BY <2>3, <2>4, <2>5, <2>6 DEF JobInv
<1> QED BY <1>1, <1>3, <1>4 DEF StreamsInv, Top

\* It puts the next batch into the buffer, or the shutdown; no batch is skipped.
LEMMA StreamsPut ==
    ASSUME WindowInv, StreamsInv, NEW j \in Jobs, Put(j) PROVE StreamsInv'
<1> DEFINE item == Head(todo[j])
           last == lastReceived[j]
           fresh == ~Skipped(j, item)
           batch == fresh /\ item # Shutdown
<1>0. /\ fetch \in [Jobs -> {"off", "poll", "put", "over"}]
      /\ queue \in [Jobs -> Seq(Item)] /\ todo \in [Jobs -> Seq(Item)]
      /\ lastReceived \in [Jobs -> Mark] /\ JobInv(j) /\ yielded[j] \in Seq(Nat)
      /\ nextIndex \in Int
  BY DEF WindowInv, Types, ConsumerTypes, ProducerTypes, StreamsInv
<1>1. /\ UNCHANGED <<nextIndex, lastSent, subscribed, pipe, trainer, yielded>>
      /\ fetch[j] = "put" /\ todo[j] # <<>>
      /\ fresh => Len(queue[j]) < BufferSize
      /\ queue' = [queue EXCEPT ![j] = IF fresh THEN Append(@, item) ELSE @]
      /\ todo' = [todo EXCEPT ![j] = Tail(@)]
      /\ fetch' = [fetch EXCEPT ![j] = IF item = Shutdown THEN "over"
                                      ELSE IF Len(todo[j]) = 1 THEN "poll" ELSE "put"]
      /\ lastReceived' = [lastReceived EXCEPT ![j] = IF batch THEN item ELSE @]
  BY DEF Put, producerVars, jobVars, WindowInv, Types, ConsumerTypes
<1>2. /\ item \in Item /\ item = todo[j][1] /\ 1 \in DOMAIN todo[j]
      /\ Tail(todo[j]) \in Seq(Item) /\ Len(Tail(todo[j])) = Len(todo[j]) - 1
      /\ Len(todo[j]) \in Nat
      /\ \A k \in DOMAIN Tail(todo[j]) :
            k + 1 \in DOMAIN todo[j] /\ Tail(todo[j])[k] = todo[j][k + 1]
  BY <1>0, <1>1, HeadAndTail
<1>3. \A i \in Jobs, end \in Mark : EndsAt(i, end) => EndsAt(i, end)'
  BY <1>1 DEF EndsAt, Consumers
<1>4. ASSUME NEW i \in Jobs, i # j PROVE JobInv(i)'
  <2>1. /\ fetch'[i] = fetch[i] /\ todo'[i] = todo[i] /\ queue'[i] = queue[i]
        /\ lastReceived'[i] = lastReceived[i]
    BY <1>0, <1>1, <1>4
  <2> QED BY <1>1, <1>3, <2>1, JobFrame DEF StreamsInv
<1>5. /\ queue'[j] = IF fresh THEN Append(queue[j], item) ELSE queue[j]
      /\ todo'[j] = Tail(todo[j])
      /\ fetch'[j] = IF item = Shutdown THEN "over"
                     ELSE IF Len(todo[j]) = 1 THEN "poll" ELSE "put"
      /\ lastReceived'[j] = IF batch THEN item ELSE last
  BY <1>0, <1>1
<1>6. /\ Delivered(yielded[j], queue[j], last) /\ Len(yielded[j]) + Len(queue[j]) = last + 1
      /\ trainer[j] # "off" /\ queue[j] \in Seq(Item) /\ last \in Mark
  BY <1>0, <1>1 DEF JobInv, FetchInv
<1>7. /\ \A i \in DOMAIN Tail(todo[j]) : Tail(todo[j])[i] < nextIndex
      /\ item < nextIndex /\ last < nextIndex
  BY <1>0, <1>2 DEF JobInv, PreparedInv
<1>8. fresh => Len(queue'[j]) <= BufferSize
  <2>1. fresh => Len(queue'[j]) = Len(queue[j]) + 1 /\ Len(queue[j]) \in Int
    BY <1>5, <1>6
  <2> QED BY <1>1, <2>1, Sizes
<1>9. SizeInv(j)' /\ PreparedInv(j)'
  <2>1. Len(queue'[j]) <= BufferSize
    BY <1>0, <1>5, <1>8 DEF JobInv, SizeInv
  <2>2. SizeInv(j)'
    BY <1>0, <1>1, <2>1 DEF JobInv, SizeInv
  <2>3. lastReceived'[j] < nextIndex
    BY <1>5, <1>7
  <2>4. PreparedInv(j)'
    BY <1>0, <1>1, <1>5, <1>7, <2>3 DEF JobInv, PreparedInv
  <2> QED BY <2>2, <2>4
<1> HIDE DEF item, fresh, batch
<1>10. ASSUME todo[j] = <<Shutdown>> PROVE JobInv(j)'
  <2>1. item = Shutdown /\ fresh /\ ~batch
    BY <1>2, <1>10 DEF Skipped, fresh, batch
  <2>2. Delivered(yielded[j], Append(queue[j], Shutdown), last)
    BY <1>0, <1>6, DeliveredGrows
  <2>3. Delivered(yielded[j], queue[j], lastReceived[j])'
    <3>1. Delivered(yielded'[j], queue'[j], lastReceived'[j])
      BY <1>1, <1>5, <2>1, <2>2
    <3> QED BY <3>1 DEF Delivered
  <2>4. FetchInv(j)' /\ FlowInv(j)'
    <3>1. fetch'[j] = "over" /\ trainer'[j] # "off"
      BY <1>1, <1>5, <1>6, <2>1
    <3> QED BY <3>1 DEF FetchInv, FlowInv, Fetching
  <2> QED BY <1>9, <2>3, <2>4 DEF JobInv
<1>11. ASSUME todo[j] # <<Shutdown>> PROVE JobInv(j)'
  <2> DEFINE upto == last + Len(todo[j])
  <2>1. PICK end \in Mark : Chain(pipe[j], upto, end) /\ EndsAt(j, end)
    BY <1>0, <1>1, <1>11 DEF JobInv, FlowInv, Fetching
  <2>2. todo[j] = Interval(last + 1, upto)
    BY <1>0, <1>1, <1>11 DEF JobInv, FlowInv, Fetching
  <2>3. Len(todo[j]) >= 1
    BY <1>0, <1>1
  <2>4. last \in Int /\ upto \in Int /\ last + 1 \in Nat /\ upto \in Nat /\ last + 1 <= upto
    BY <1>2, <1>6, <2>3 DEF Mark
  <2>5. Head(Interval(last + 1, upto)) = last + 1
        /\ Tail(Interval(last + 1, upto)) = Interval(last + 1 + 1, upto)
    BY <2>4, IntervalShrinks
  <2> HIDE DEF upto
  <2>6. item = last + 1 /\ Tail(todo[j]) = Interval(last + 1 + 1, upto)
    BY <2>2, <2>5 DEF item
  <2>7. item # Shutdown /\ fresh /\ batch
    BY <2>4, <2>6 DEF Shutdown, Skipped, fresh, batch
  <2>8. /\ queue'[j] = Append(queue[j], last + 1) /\ lastReceived'[j] = last + 1
        /\ fetch'[j] = IF Len(todo[j]) = 1 THEN "poll" ELSE "put"
    BY <1>5, <2>6, <2>7
  <2>9. Delivered(yielded[j], queue[j], lastReceived[j])'
    <3>1. Delivered(yielded'[j], queue'[j], lastReceived'[j])
      <4>1. Delivered(yielded[j], Append(queue[j], last + 1), last + 1)
        BY <1>0, <1>6, DeliveredGrows
      <4> QED BY <1>1, <2>8, <4>1
    <3> QED BY <3>1 DEF Delivered
  <2>10. FetchInv(j)'
    <3>1. Len(todo[j]) = 1 => todo'[j] = <<>>
      BY <1>2, <1>5
    <3>2. Len(yielded'[j]) + Len(queue'[j]) = lastReceived'[j] + 1
      <4>1. Len(queue'[j]) = Len(queue[j]) + 1 /\ Len(queue[j]) \in Int /\ Len(yielded[j]) \in Int
        BY <1>0, <1>6, <2>8
      <4>2. yielded'[j] = yielded[j]
        BY <1>1
      <4> DEFINE y == Len(yielded[j])
                 q == Len(queue[j])
                 q2 == Len(queue'[j])
                 r == lastReceived'[j]
      <4>3. y + q = last + 1 /\ q2 = q + 1 /\ r = last + 1 /\ y \in Int /\ q \in Int /\ last \in Int
        BY <1>6, <2>4, <2>8, <4>1
      <4>4. Len(yielded'[j]) = y
        BY <4>2
      <4> HIDE DEF y, q, q2, r, last
      <4>5. y + q2 = r + 1
        BY <4>3
      <4> QED BY <4>4, <4>5 DEF q2, r
    <3>3. fetch'[j] # "off" /\ trainer'[j] # "off" /\ (fetch'[j] = "poll" => Len(todo[j]) = 1)
      BY <1>1, <1>6, <2>8
    <3> QED BY <3>1, <3>2, <3>3 DEF FetchInv
  <2>11. FlowInv(j)'
    <3>1. lastReceived'[j] + Len(todo'[j]) = upto
      BY <1>2, <1>5, <2>4, <2>8 DEF upto
    <3>2. todo'[j] = Interval(lastReceived'[j] + 1, lastReceived'[j] + Len(todo'[j]))
      BY <1>5, <2>6, <2>8, <3>1
    <3>3. Chain(pipe'[j], lastReceived'[j] + Len(todo'[j]), end)
      BY <1>1, <2>1, <3>1
    <3>4. Chain(pipe[j], lastReceived[j] + Len(todo[j]), end)'
      BY <3>3 DEF Chain
    <3>5. (todo[j] = Interval(lastReceived[j] + 1, lastReceived[j] + Len(todo[j])))'
      BY <3>2 DEF Interval
    <3> QED BY <1>3, <2>1, <3>4, <3>5 DEF FlowInv
  <2> QED BY <1>9, <2>9, <2>10, <2>11 DEF JobInv
<1> QED BY <1>1, <1>4, <1>10, <1>11 DEF StreamsInv, Top

\* The training loop takes a batch, or the shutdown, out of the buffer.
LEMMA StreamsTrain ==
    ASSUME WindowInv, StreamsInv, NEW j \in Jobs, Train(j) PROVE StreamsInv'
<1> DEFINE item == Head(queue[j])
           ends == item = Shutdown \/ Len(yielded[j]) + 1 = Need[j]
<1>0. /\ trainer \in [Jobs -> TrainerState]
      /\ queue \in [Jobs -> Seq(Item)] /\ yielded \in [Jobs -> Seq(Nat)]
      /\ lastReceived[j] \in Mark /\ JobInv(j)
  BY DEF WindowInv, Types, ConsumerTypes, StreamsInv
<1>1. /\ UNCHANGED <<nextIndex, lastSent, subscribed, pipe, todo, fetch, lastReceived>>
      /\ trainer[j] = "training" /\ queue[j] # <<>>
      /\ queue' = [queue EXCEPT ![j] = Tail(@)]
      /\ yielded' = [yielded EXCEPT ![j] = IF item = Shutdown THEN @ ELSE Append(@, item)]
      /\ trainer' = [trainer EXCEPT ![j] = IF ends THEN "closing" ELSE @]
  BY DEF Train, producerVars, netVars
<1>2. \A i \in Jobs, end \in Mark : EndsAt(i, end) => EndsAt(i, end)'
  BY <1>1 DEF EndsAt, Consumers
<1>3. ASSUME NEW i \in Jobs, i # j PROVE JobInv(i)'
  <2>1. queue'[i] = queue[i] /\ yielded'[i] = yielded[i] /\ trainer'[i] = trainer[i]
    BY <1>0, <1>1, <1>3
  <2> QED BY <1>1, <1>2, <2>1, JobFrame DEF StreamsInv
<1>4. JobInv(j)'
  <2>1. /\ queue'[j] = Tail(queue[j])
        /\ yielded'[j] = IF item = Shutdown THEN yielded[j] ELSE Append(yielded[j], item)
        /\ trainer'[j] = IF ends THEN "closing" ELSE "training"
    BY <1>0, <1>1
  <2>2. /\ item \in Item /\ Len(Tail(queue[j])) = Len(queue[j]) - 1
        /\ Len(queue[j]) \in Nat /\ Len(yielded[j]) \in Nat /\ Need[j] \in Nat
        /\ yielded[j] \in Seq(Nat) /\ queue[j] \in Seq(Item)
    <3>1. yielded[j] \in Seq(Nat) /\ queue[j] \in Seq(Item) /\ Need[j] \in Nat
      BY <1>0, SocketAssumption
    <3>2. Len(queue[j]) \in Nat /\ Len(yielded[j]) \in Nat
      BY <3>1
    <3> QED BY <1>1, <3>1, <3>2, HeadAndTail
  <2>3. IF item = Shutdown
        THEN Delivered(yielded[j], Tail(queue[j]), lastReceived[j]) /\ Len(yielded[j]) = lastReceived[j] + 1
        ELSE Delivered(Append(yielded[j], item), Tail(queue[j]), lastReceived[j])
    BY <1>0, <1>1, <2>2, DeliveredShrinks DEF JobInv
  <2>4. item # Shutdown => Len(yielded'[j]) = Len(yielded[j]) + 1
    BY <2>1, <2>2
  <2> HIDE DEF item
  <2>5. Delivered(yielded[j], queue[j], lastReceived[j])'
    <3>1. Delivered(yielded'[j], queue'[j], lastReceived'[j])
      BY <1>1, <2>1, <2>3
    <3> QED BY <3>1 DEF Delivered
  <2>6. FetchInv(j)'
    <3>1. fetch[j] # "over" => item # Shutdown
      <4> SUFFICES ASSUME fetch[j] # "over", item = Shutdown PROVE FALSE
        OBVIOUS
      <4>1. Len(yielded[j]) + Len(queue[j]) = lastReceived[j] + 1
        BY <1>0 DEF JobInv, FetchInv
      <4>2. Len(queue[j]) # 0
        BY <1>1, <2>2
      <4>3. Len(yielded[j]) = lastReceived[j] + 1
        BY <2>3
      <4>4. \A m, n \in Nat : m + n = m => n = 0
        OBVIOUS
      <4>5. Len(yielded[j]) + Len(queue[j]) = Len(yielded[j])
        BY <4>1, <4>3
      <4> QED BY <2>2, <4>2, <4>4, <4>5
    <3>2. fetch[j] # "over" => Len(yielded'[j]) + Len(queue'[j]) = lastReceived[j] + 1
      <4>1. fetch[j] # "over" => Len(yielded[j]) + Len(queue[j]) = lastReceived[j] + 1
        BY <1>0 DEF JobInv, FetchInv
      <4>2. \A m, n \in Nat : (m + 1) + (n - 1) = m + n
        OBVIOUS
      <4>3. fetch[j] # "over" => /\ Len(yielded'[j]) = Len(yielded[j]) + 1
                                 /\ Len(queue'[j]) = Len(queue[j]) - 1
        BY <2>1, <2>2, <2>4, <3>1
      <4> QED BY <2>2, <4>1, <4>2, <4>3
    <3> QED BY <1>0, <1>1, <2>1, <3>2 DEF JobInv, FetchInv
  <2>7. SizeInv(j)'
    <3>1. Len(yielded[j]) < Need[j] /\ Len(queue[j]) <= BufferSize /\ Len(pipe[j]) <= PipeSize
      BY <1>0, <1>1 DEF JobInv, SizeInv
    <3>2. Len(queue'[j]) <= BufferSize
      BY <2>1, <2>2, <3>1, Sizes
    <3>3. Len(yielded'[j]) <= Need[j] /\ (~ends => Len(yielded'[j]) < Need[j])
      BY <2>1, <2>2, <2>4, <3>1
    <3> QED BY <1>1, <2>1, <3>1, <3>2, <3>3 DEF SizeInv
  <2>8. PreparedInv(j)' /\ FlowInv(j)'
    <3>1. PreparedInv(j)'
      BY <1>0, <1>1 DEF JobInv, PreparedInv
    <3>2. ASSUME NEW end \in Mark, Chain(pipe[j], lastReceived[j] + Len(todo[j]), end)
          PROVE  Chain(pipe[j], lastReceived[j] + Len(todo[j]), end)'
      <4>1. Chain(pipe'[j], lastReceived'[j] + Len(todo'[j]), end)
        BY <1>1, <3>2
      <4> QED BY <4>1 DEF Chain
    <3>3. FlowInv(j)'
      BY <1>0, <1>1, <1>2, <3>2 DEF JobInv, FlowInv, Fetching, Interval
    <3> QED BY <3>1, <3>3
  <2> QED BY <2>5, <2>6, <2>7, <2>8 DEF JobInv
<1> QED BY <1>1, <1>3, <1>4 DEF StreamsInv, Top

\* Every step that drops no batch continues every stream.
LEMMA StreamsStep ==
    WindowInv /\ ClosedInv /\ StreamsInv /\ [Next]_vars /\ (Serve => NoneDropped) => StreamsInv'
<1> SUFFICES ASSUME WindowInv, ClosedInv, StreamsInv, [Next]_vars, Serve => NoneDropped
             PROVE  StreamsInv'
  OBVIOUS
<1>0. trainer \in [Jobs -> TrainerState]
  BY DEF WindowInv, Types, ConsumerTypes
<1> USE DEF producerVars, netVars, fetchVars, jobVars
<1>1. CASE Ready \/ StartFails \/ Begin \/ BeginEarly \/ Terminate \/ Finish \/ Ended \/ UNCHANGED vars
  BY <1>1, StreamsFrame DEF Ready, StartFails, Begin, BeginEarly, AllRegistered, Terminate, Finish,
                            StopRun, EndRun, Ended, vars
<1>2. CASE Serve
  BY <1>2, StreamsServe
<1>3. CASE StopProducer \/ LoaderFails
  BY <1>3, StreamsShutdown DEF StopProducer, LoaderFails
<1>4. ASSUME NEW j \in Jobs, DrainControl(j) PROVE StreamsInv'
  BY <1>4, StreamsControl
<1>5. ASSUME NEW j \in Jobs, Subscribe(j) PROVE StreamsInv'
  BY <1>5, StreamsFrame DEF Subscribe
<1>6. ASSUME NEW j \in Jobs, Fetch(j) PROVE StreamsInv'
  BY <1>6, StreamsReceive, StreamsPut DEF Fetch
<1>7. ASSUME NEW j \in Jobs, Connect(j) PROVE StreamsInv'
  BY <1>7, StreamsConnect
<1>8. ASSUME NEW j \in Jobs, CloseConsumer(j) PROVE StreamsInv'
  BY <1>8, StreamsClose
<1>9. ASSUME NEW j \in Jobs, Train(j) PROVE StreamsInv'
  BY <1>9, StreamsTrain
<1>10. ASSUME NEW j \in Jobs, TimeOut(j) \/ SlowBatch(j) \/ JobFails(j) PROVE StreamsInv'
  <2>1. /\ UNCHANGED <<nextIndex, fetch, todo, lastReceived, queue, yielded, pipe, lastSent, subscribed>>
        /\ \E s \in {"closing", "ended", "abandoned"} : trainer' = [trainer EXCEPT ![j] = s]
    BY <1>10 DEF TimeOut, SlowBatch, GiveUpWait, JobFails
  <2>2. \A i \in Jobs : /\ trainer'[i] = "off" => trainer[i] = "off"
                        /\ trainer'[i] = "training" => trainer[i] = "training"
    BY <1>0, <2>1
  <2> QED BY <2>1, <2>2, StreamsFrame
<1> QED
  BY <1>1, <1>2, <1>3, <1>4, <1>5, <1>6, <1>7, <1>8, <1>9, <1>10 DEF Next, Produce, Work

\* What TensorSocketTypeOK says follows: the indices stay below the top.
LEMMA StreamTypes ==
    ASSUME WindowInv, StreamsInv PROVE TensorSocketTypeOK
<1>0. ProducerTypes /\ NetTypes /\ ConsumerTypes /\ nextIndex <= Top
  BY DEF WindowInv, Types, StreamsInv
<1>1. Top \in Nat /\ Index = 0..Top
  <2>1. Max({Need[j] : j \in Jobs}) \in Nat
    BY MostNeeded
  <2> QED BY <2>1, SocketAssumption DEF Top, Index
<1>2. \A x \in Nat : x < nextIndex => x \in Index
  BY <1>0, <1>1 DEF ProducerTypes
<1>3. \A x \in Mark : x < nextIndex => x \in Index \cup {-1}
  BY <1>2 DEF Mark
<1>4. \A x \in Item : x < nextIndex => x \in Index \cup {Shutdown}
  BY <1>2 DEF Item
<1>5. ASSUME NEW c \in Consumers PROVE lastSent[c] \in Index \cup {-1} /\ lastAcked[c] \in Index \cup {-1}
  <2>1. /\ lastSent[c] \in Mark /\ lastAcked[c] \in Mark /\ lastReceived[c] \in Mark
        /\ nextIndex \in Int
    BY <1>0 DEF ProducerTypes, ConsumerTypes
  <2>2. lastSent[c] < nextIndex /\ lastAcked[c] <= lastReceived[c] /\ lastReceived[c] <= lastSent[c]
    BY DEF WindowInv, LagInv
  <2>3. lastAcked[c] < nextIndex
    BY <2>1, <2>2 DEF Mark
  <2> QED BY <1>3, <2>1, <2>2, <2>3
<1>6. nextIndex \in Index
  BY <1>0, <1>1 DEF ProducerTypes
<1>7. buffer \subseteq Index
  <2> SUFFICES ASSUME NEW b \in buffer PROVE b \in Index
    OBVIOUS
  <2>1. b \in Nat /\ b \in (nextIndex - MaxLag)..(nextIndex - 1) /\ nextIndex \in Int
    BY <1>0 DEF ProducerTypes, WindowInv, BufferInv
  <2>2. b < nextIndex
    BY <2>1, Sizes
  <2> QED BY <1>2, <2>1, <2>2
<1>8. ASSUME NEW j \in Jobs
      PROVE  /\ Len(pipe[j]) <= PipeSize
             /\ \A k \in DOMAIN pipe[j] : pipe[j][k] \in Seq(Index \cup {Shutdown})
             /\ \A k \in DOMAIN control[j] :
                   control[j][k] \in {Register, Close} \cup {AckOf(i) : i \in Index}
             /\ {todo[j], queue[j]} \subseteq Seq(Index \cup {Shutdown})
             /\ yielded[j] \in Seq(Index)
             /\ lastReceived[j] \in Index \cup {-1}
  <2>1. /\ pipe[j] \in Seq(Seq(Item)) /\ control[j] \in Seq(Message) /\ todo[j] \in Seq(Item)
        /\ queue[j] \in Seq(Item) /\ yielded[j] \in Seq(Nat) /\ lastReceived[j] \in Mark
        /\ nextIndex \in Int
    BY <1>0 DEF NetTypes, ConsumerTypes, ProducerTypes
  <2>2. SizeInv(j) /\ PreparedInv(j) /\ Delivered(yielded[j], queue[j], lastReceived[j])
    BY DEF StreamsInv, JobInv
  <2>3. Len(pipe[j]) <= PipeSize
    BY <2>2 DEF SizeInv
  <2>4. lastReceived[j] \in Index \cup {-1}
    BY <1>3, <2>1, <2>2 DEF PreparedInv
  <2>5. \A S, T : \A s \in Seq(S) : (\A k \in DOMAIN s : s[k] \in T) => s \in Seq(T)
    OBVIOUS
  <2>6. todo[j] \in Seq(Index \cup {Shutdown})
    <3>1. \A k \in DOMAIN todo[j] : todo[j][k] \in Index \cup {Shutdown}
      BY <1>4, <2>1, <2>2 DEF PreparedInv
    <3> QED BY <2>1, <2>5, <3>1
  <2>7. \A k \in DOMAIN pipe[j] : pipe[j][k] \in Seq(Index \cup {Shutdown})
    <3> SUFFICES ASSUME NEW k \in DOMAIN pipe[j] PROVE pipe[j][k] \in Seq(Index \cup {Shutdown})
      OBVIOUS
    <3>1. pipe[j][k] \in Seq(Item)
      BY <2>1
    <3>2. \A i \in DOMAIN pipe[j][k] : pipe[j][k][i] \in Index \cup {Shutdown}
      BY <1>4, <2>2, <3>1 DEF PreparedInv
    <3> QED BY <2>5, <3>1, <3>2
  <2>8. \A k \in DOMAIN control[j] :
           control[j][k] \in {Register, Close} \cup {AckOf(i) : i \in Index}
    <3> SUFFICES ASSUME NEW k \in DOMAIN control[j]
                 PROVE  control[j][k] \in {Register, Close} \cup {AckOf(i) : i \in Index}
      OBVIOUS
    <3> DEFINE m == control[j][k]
    <3>1. m \in Message
      BY <2>1
    <3>2. m.type = "ack" => m.index \in Nat /\ m.index <= lastReceived[j]
      BY <3>1, MessageFields DEF WindowInv, ControlInv
    <3>3. m.type = "ack" => m.index \in Index
      BY <1>2, <2>1, <2>2, <3>2 DEF PreparedInv, Mark
    <3> HIDE DEF m
    <3>4. m \in {Register, Close} \cup {AckOf(i) : i \in Index}
      BY <3>1, <3>3, MessageFields
    <3> QED BY <3>4 DEF m
  <2>9. ASSUME NEW k \in Nat, k - 1 < lastReceived[j] + 1, k >= 1 PROVE k - 1 \in Index
    BY <1>2, <2>1, <2>2, <2>9 DEF PreparedInv, Mark
  <2>10. yielded[j] \in Seq(Index)
    <3>1. ASSUME NEW k \in DOMAIN yielded[j] PROVE yielded[j][k] \in Index
      <4>1. k \in Nat /\ k >= 1 /\ k <= Len(yielded[j]) /\ Len(yielded[j]) \in Nat
        BY <2>1
      <4>2. yielded[j][k] = k - 1 /\ Len(yielded[j]) <= lastReceived[j] + 1
        BY <2>2 DEF Delivered
      <4>3. k - 1 < lastReceived[j] + 1
        BY <2>1, <4>1, <4>2 DEF Mark
      <4> QED BY <2>9, <4>1, <4>2, <4>3
    <3> QED BY <2>1, <2>5, <3>1
  <2>11. queue[j] \in Seq(Index \cup {Shutdown})
    <3>1. ASSUME NEW k \in DOMAIN queue[j] PROVE queue[j][k] \in Index \cup {Shutdown}
      <4> DEFINE n == Len(yielded[j]) + k
      <4>1. n \in Nat /\ n >= 1
        BY <2>1
      <4>2. \/ n <= lastReceived[j] + 1 /\ queue[j][k] = n - 1
            \/ queue[j][k] = Shutdown
        <5>1. queue[j][k] = IF Len(yielded[j]) + k <= lastReceived[j] + 1
                            THEN Len(yielded[j]) + k - 1 ELSE Shutdown
          BY <2>2 DEF Delivered
        <5> DEFINE arrived == Len(yielded[j]) + k <= lastReceived[j] + 1
                   index == Len(yielded[j]) + k - 1
        <5>2. queue[j][k] = IF arrived THEN index ELSE Shutdown
          BY <5>1
        <5>3. (arrived <=> n <= lastReceived[j] + 1) /\ index = n - 1
          OBVIOUS
        <5> HIDE DEF arrived, index, n
        <5>4. (arrived /\ queue[j][k] = index) \/ queue[j][k] = Shutdown
          BY <5>2
        <5> QED BY <5>3, <5>4
      <4> HIDE DEF n
      <4>3. n <= lastReceived[j] + 1 => n - 1 < lastReceived[j] + 1
        BY <2>1, <4>1 DEF Mark
      <4> QED BY <2>9, <4>1, <4>2, <4>3
    <3> QED BY <2>1, <2>5, <3>1
  <2> QED BY <2>3, <2>4, <2>6, <2>7, <2>8, <2>10, <2>11
<1>9. /\ lastSent \in [Consumers -> Index \cup {-1}] /\ lastAcked \in [Consumers -> Index \cup {-1}]
      /\ lastReceived \in [Jobs -> Index \cup {-1}]
  BY <1>0, <1>5, <1>8 DEF ProducerTypes, ConsumerTypes
<1> QED BY <1>0, <1>6, <1>7, <1>8, <1>9
        DEF TensorSocketTypeOK, ProducerTypes, NetTypes, ConsumerTypes

\* The stream of a consumer is the batches in order, and at most a shutdown.
LEMMA StreamIsInOrder ==
    ASSUME NEW y \in Seq(Nat), NEW q \in Seq(Item), NEW last \in Mark, Delivered(y, q, last)
    PROVE  \A k \in DOMAIN (y \o q) :
              \/ (y \o q)[k] = k - 1
              \/ k = Len(y \o q) /\ (y \o q)[k] = Shutdown
<1>1. /\ Len(y) \in Nat /\ Len(q) \in Nat /\ last \in Int
      /\ Len(y \o q) = Len(y) + Len(q) /\ DOMAIN (y \o q) = 1..(Len(y) + Len(q))
      /\ \A k \in 1..Len(y) : (y \o q)[k] = y[k]
      /\ \A k \in 1..Len(q) : (y \o q)[Len(y) + k] = q[k]
  BY DEF Mark
<1> DEFINE s == y \o q
           m == Len(y)
           n == Len(q)
<1>2. /\ m \in Nat /\ n \in Nat /\ last \in Int /\ Len(s) = m + n /\ DOMAIN s = 1..(m + n)
      /\ \A k \in 1..m : s[k] = y[k]
      /\ \A k \in 1..n : s[m + k] = q[k]
  BY <1>1
<1>3. /\ \A k \in 1..m : y[k] = k - 1
      /\ \A k \in 1..n : q[k] = IF m + k <= last + 1 THEN m + k - 1 ELSE Shutdown
      /\ m + n = last + 1 \/ m + n = last + 2
  BY DEF Delivered
<1> HIDE DEF s, m, n
<1>4. ASSUME NEW k \in 1..(m + n) PROVE s[k] = k - 1 \/ (k = m + n /\ s[k] = Shutdown)
  <2>1. CASE k \in 1..m
    BY <1>2, <1>3, <2>1
  <2>2. CASE k \notin 1..m
    <3>1. PICK i \in 1..n : k = m + i
      <4>1. k - m \in 1..n /\ k = m + (k - m)
        BY <1>2, <2>2
      <4> QED BY <4>1
    <3>2. s[m + i] = q[i] /\ q[i] = IF m + i <= last + 1 THEN m + i - 1 ELSE Shutdown
      BY <1>2, <1>3
    <3>3. s[k] = q[i]
      BY <3>1, <3>2
    <3>4. CASE k <= last + 1
      <4>1. m + i <= last + 1
        BY <3>1, <3>4
      <4>2. q[i] = m + i - 1
        BY <3>2, <4>1
      <4>3. m + i - 1 = k - 1
        BY <1>2, <3>1
      <4> QED BY <3>3, <4>2, <4>3
    <3>5. CASE ~(k <= last + 1)
      <4>1. ~(m + i <= last + 1)
        BY <3>1, <3>5
      <4>2. q[i] = Shutdown
        BY <3>2, <4>1
      <4>3. k = m + n
        BY <1>2, <1>3, <3>5
      <4> QED BY <3>3, <4>2, <4>3
    <3> QED BY <3>4, <3>5
  <2> QED BY <2>1, <2>2
<1> QED BY <1>2, <1>4 DEF s

\* As long as no pipe is full when a batch for its consumer is published, every
\* consumer gets the batches in order and without a hole, and at most one shutdown
\* after them: messages without a batch for it, a late subscription, consumers that
\* close and a producer that fails do no harm to that.
THEOREM NoHoleWithoutDrop == Spec /\ NoBatchDropped => []InSequence
<1> DEFINE Drop == \A j \in subscribed \cap Consumers :
                      Serve /\ lastSent'[j] # lastSent[j] => Len(pipe[j]) < PipeSize
<1>1. Init => WindowInv /\ ClosedInv /\ StreamsInv
  <2>1. Init => ClosedInv
    BY DEF Init, ClosedInv, NoShutdown
  <2> QED BY <2>1, WindowInit, StreamsInit
<1>2. [Drop]_vars /\ [Next]_vars /\ WindowInv /\ ClosedInv /\ StreamsInv => StreamsInv'
  <2> SUFFICES ASSUME [Drop]_vars, [Next]_vars, WindowInv, ClosedInv, StreamsInv PROVE StreamsInv'
    OBVIOUS
  <2>1. CASE Drop
    <3>1. Serve => NoneDropped
      BY <2>1 DEF NoneDropped
    <3> QED BY <3>1, StreamsStep
  <2>2. CASE UNCHANGED vars
    <3>1. Serve => NoneDropped
      <4>1. lastSent' = lastSent
        BY <2>2 DEF vars, producerVars
      <4> QED BY <4>1 DEF NoneDropped
    <3> QED BY <3>1, StreamsStep
  <2> QED BY <2>1, <2>2
<1>3. WindowInv /\ StreamsInv => InSequence
  <2> SUFFICES ASSUME WindowInv, StreamsInv, NEW j \in Jobs
               PROVE  \A k \in DOMAIN (yielded[j] \o queue[j]) :
                         \/ (yielded[j] \o queue[j])[k] = k - 1
                         \/ /\ k = Len(yielded[j] \o queue[j])
                            /\ (yielded[j] \o queue[j])[k] = Shutdown
    BY StreamTypes DEF InSequence
  <2>1. yielded[j] \in Seq(Nat) /\ queue[j] \in Seq(Item) /\ lastReceived[j] \in Mark
    BY DEF WindowInv, Types, ConsumerTypes
  <2>2. Delivered(yielded[j], queue[j], lastReceived[j])
    BY DEF StreamsInv, JobInv
  <2> QED BY <2>1, <2>2, StreamIsInOrder
<1> HIDE DEF Drop
<1>4. NoBatchDropped <=> [][Drop]_vars
  BY DEF NoBatchDropped, Drop
<1> QED BY <1>1, <1>2, <1>3, <1>4, WindowStep, ClosedStep, PTL DEF Spec

-----------------------------------------------------------------------------
(* The size of the pipes *)

\* This much room is enough.
EnoughRoom == PipeSize >= (Cardinality(Jobs) - 1) * (2 * MaxLag) + BufferSize

\* All that j received, or has taken from its pipe, comes before b.
TakenBefore(j, b) ==
    /\ lastReceived[j] < b
    /\ fetch[j] = "put" => \A i \in DOMAIN todo[j] : todo[j][i] < b

\* So does all that it will take before message k.
Before(j, k, b) ==
    /\ TakenBefore(j, b)
    /\ \A l \in DOMAIN pipe[j] : l < k => \A i \in DOMAIN pipe[j][l] : pipe[j][l][i] < b

\* Message k of j was published because c was sent its batches through i: that was
\* within the lag after what j has received, and what j had been sent by then was
\* within the lag after i.
CausedBy(j, k, c, i) ==
    /\ c \in Consumers => i <= lastSent[c]
    /\ i <= lastReceived[j] + MaxLag
    /\ Before(j, k, IF c = j THEN i ELSE i + MaxLag)

\* Every message in a pipe has a cause of its own.
CausesInv(j) ==
    \E who \in [1..Len(pipe[j]) -> Jobs], upto \in [1..Len(pipe[j]) -> Int] :
        /\ \A k, l \in 1..Len(pipe[j]) : who[k] = who[l] /\ upto[k] = upto[l] => k = l
        /\ \A k \in 1..Len(pipe[j]) : CausedBy(j, k, who[k], upto[k])

RoomInv == producer = "serving" => \A j \in Consumers : CausesInv(j)

\* What the window says, as numbers.
LEMMA Numbers ==
    ASSUME WindowInv, NEW j \in Jobs
    PROVE  /\ lastReceived[j] \in Int /\ Consumers \subseteq Jobs /\ nextIndex \in Int
           /\ pipe[j] \in Seq(Seq(Item)) /\ todo[j] \in Seq(Item)
           /\ \A k \in DOMAIN pipe[j] : \A i \in DOMAIN pipe[j][k] : pipe[j][k][i] \in Int
           /\ \A i \in DOMAIN todo[j] : todo[j][i] \in Int
           /\ \A c \in Consumers : lastSent[c] \in Int /\ lastAcked[c] \in Int
           /\ MaxLag \in Int /\ BufferSize \in Int /\ BufferSize >= 1 /\ MaxLag >= BufferSize
<1>0. ProducerTypes /\ NetTypes /\ ConsumerTypes
  BY DEF WindowInv, Types
<1>1. pipe[j] \in Seq(Seq(Item)) /\ todo[j] \in Seq(Item) /\ Item \subseteq Int
  BY <1>0 DEF NetTypes, ConsumerTypes, Item, Shutdown
<1>2. lastReceived[j] \in Int /\ Consumers \subseteq Jobs /\ nextIndex \in Int
  BY <1>0 DEF ProducerTypes, ConsumerTypes, Mark
<1>3. \A c \in Consumers : lastSent[c] \in Int /\ lastAcked[c] \in Int
  BY <1>0 DEF ProducerTypes, Mark
<1>4. \A s \in Seq(Item) : \A i \in DOMAIN s : s[i] \in Int
  <2>1. \A s \in Seq(Item) : \A i \in DOMAIN s : s[i] \in Item
    OBVIOUS
  <2> QED BY <1>1, <2>1
<1>5. \A k \in DOMAIN pipe[j] : pipe[j][k] \in Seq(Item)
  BY <1>1
<1>6. \A k \in DOMAIN pipe[j] : \A i \in DOMAIN pipe[j][k] : pipe[j][k][i] \in Int
  BY <1>4, <1>5, Zenon
<1>7. \A i \in DOMAIN todo[j] : todo[j][i] \in Int
  BY <1>1, <1>4
<1>8. MaxLag \in Int /\ BufferSize \in Int /\ BufferSize >= 1 /\ MaxLag >= BufferSize
  BY SocketAssumption
<1> QED BY ONLY <1>1, <1>2, <1>3, <1>6, <1>7, <1>8

\* A step that leaves the pipe alone, takes no new item and forgets no batch sent.
LEMMA CausesKept ==
    ASSUME WindowInv, WindowInv', NEW j \in Jobs, CausesInv(j), pipe'[j] = pipe[j],
           \A c \in Consumers' : c \in Consumers /\ lastSent[c] <= lastSent'[c],
           lastReceived[j] <= lastReceived'[j],
           \A b \in Int : TakenBefore(j, b) => TakenBefore(j, b)'
    PROVE  CausesInv(j)'
<1> DEFINE n == Len(pipe[j])
<1>1. PICK who \in [1..n -> Jobs], upto \in [1..n -> Int] :
        /\ \A k, l \in 1..n : who[k] = who[l] /\ upto[k] = upto[l] => k = l
        /\ \A k \in 1..n : CausedBy(j, k, who[k], upto[k])
  BY DEF CausesInv
<1>2. ASSUME NEW k \in 1..n PROVE CausedBy(j, k, who[k], upto[k])'
  <2> DEFINE c == who[k]
             i == upto[k]
             b == IF c = j THEN i ELSE i + MaxLag
  <2>1. c \in Jobs /\ i \in Int /\ b \in Int
    BY Numbers
  <2>2. CausedBy(j, k, c, i)
    BY <1>1
  <2> HIDE DEF c, i
  <2>3. c \in Consumers' => i <= lastSent'[c]
    <3>1. ASSUME c \in Consumers' PROVE i <= lastSent'[c]
      <4>1. c \in Consumers /\ lastSent[c] <= lastSent'[c] /\ i <= lastSent[c]
        BY <2>2, <3>1 DEF CausedBy
      <4>2. lastSent[c] \in Int
        BY <4>1, Numbers
      <4>3. lastSent'[c] \in Int
        BY <3>1 DEF WindowInv, Types, ProducerTypes, Mark
      <4> QED BY <2>1, <4>1, <4>2, <4>3
    <3> QED BY <3>1
  <2>4. i <= lastReceived'[j] + MaxLag
    <3>1. lastReceived[j] \in Int /\ MaxLag \in Int
      BY Numbers
    <3>2. lastReceived'[j] \in Int
      BY DEF WindowInv, Types, ConsumerTypes, Mark
    <3> QED BY <2>1, <2>2, <3>1, <3>2 DEF CausedBy
  <2>5. Before(j, k, b)
    BY <2>2 DEF CausedBy
  <2> HIDE DEF b
  <2>6. Before(j, k, b)'
    BY <2>1, <2>5 DEF Before
  <2> QED BY <2>3, <2>4, <2>6 DEF CausedBy, c, i, b
<1>3. n = Len(pipe'[j])
  OBVIOUS
<1> HIDE DEF n
<1> QED BY <1>1, <1>2, <1>3 DEF CausesInv

\* A round publishes nothing unless somebody is sent a batch.
LEMMA SomebodyIsSent ==
    ASSUME WindowInv, Serve, pipe' # pipe
    PROVE  \E c \in Consumers : lastSent[c] < lastSent'[c]
<1> DEFINE part == [c \in Jobs |-> IF c \in Consumers THEN PartOf(c) ELSE <<>>]
           due == {c \in Consumers : part[c] # <<>>}
<1>1. due # {}
  BY DEF Serve
<1>2. PICK c \in Consumers : part[c] # <<>>
  BY <1>1
<1>3. PartOf(c) # <<>>
  <2>1. c \in Jobs
    BY DEF WindowInv, Types, ProducerTypes
  <2> QED BY <1>2, <2>1
<1>4. lastSent[c] < SendLimit(c)
  BY <1>3, AllIsSent
<1>5. lastSent'[c] = SendLimit(c)
  BY <1>4, ServeEffect DEF Reach
<1> QED BY <1>4, <1>5

\* A round appends at most one message, and somebody's batches are why.
LEMMA CausesServe ==
    ASSUME WindowInv, WindowInv', Serve, NEW j \in Consumers, CausesInv(j)
    PROVE  CausesInv(j)'
<1> DEFINE part == [c \in Jobs |-> IF c \in Consumers THEN PartOf(c) ELSE <<>>]
<1>0. /\ j \in Jobs /\ pipe \in [Jobs -> Seq(Seq(Item))] /\ Consumers \subseteq Jobs
      /\ lastSent \in [Consumers -> Mark]
  BY DEF WindowInv, Types, NetTypes, ProducerTypes
<1>1. /\ UNCHANGED <<lastReceived, todo, fetch>>
      /\ Consumers' = Consumers
      /\ \A c \in Consumers : lastSent[c] <= lastSent'[c]
  BY ServeEffect DEF fetchVars, Consumers
<1>2. CASE pipe'[j] = pipe[j]
  <2>1. \A b \in Int : TakenBefore(j, b) => TakenBefore(j, b)'
    BY <1>1 DEF TakenBefore
  <2>2. lastReceived[j] <= lastReceived'[j]
    BY <1>0, <1>1, Numbers
  <2>3. \A c \in Consumers' : c \in Consumers /\ lastSent[c] <= lastSent'[c]
    BY <1>1
  <2> QED BY <1>0, <1>2, <2>1, <2>2, <2>3, CausesKept
<1>3. CASE pipe'[j] # pipe[j]
  <2>1. pipe'[j] = Append(pipe[j], part[j])
    <3>1. pipe' = pipe \/ pipe' = Published(part)
      BY ServeEffect
    <3> HIDE DEF part
    <3> QED BY <1>0, <1>3, <3>1 DEF Published
  <2>2. PICK c \in Consumers : lastSent[c] < lastSent'[c]
    <3>1. pipe' # pipe
      BY <1>3
    <3> QED BY <3>1, SomebodyIsSent
  <2>9. PICK n \in Nat : n = Len(pipe[j])
    BY <1>0
  <2>5. PICK i \in Int : i = lastSent'[c] /\ lastSent[c] \in Int /\ lastSent[c] < i
    <3>1. lastSent'[c] \in Int
      BY <1>1 DEF WindowInv, Types, ProducerTypes, Mark
    <3> QED BY <1>0, <2>2, <3>1, Numbers
  <2>3. n \in Nat /\ Len(pipe'[j]) = n + 1 /\ \A k \in 1..n : pipe'[j][k] = pipe[j][k]
    <3>1. part[j] \in Seq(Item) /\ pipe[j] \in Seq(Seq(Item))
      BY <1>0, AllIsSent
    <3> HIDE DEF part
    <3> QED BY <2>1, <2>9, <3>1
  <2>4. PICK who \in [1..n -> Jobs], upto \in [1..n -> Int] :
          /\ \A k, l \in 1..n : who[k] = who[l] /\ upto[k] = upto[l] => k = l
          /\ \A k \in 1..n : CausedBy(j, k, who[k], upto[k])
    BY <2>9 DEF CausesInv
  <2> DEFINE who2 == [k \in 1..(n + 1) |-> IF k <= n THEN who[k] ELSE c]
             upto2 == [k \in 1..(n + 1) |-> IF k <= n THEN upto[k] ELSE i]
  <2>6. \A k \in 1..n : ~(who[k] = c /\ upto[k] = i)
    <3> SUFFICES ASSUME NEW k \in 1..n, who[k] = c, upto[k] = i PROVE FALSE
      OBVIOUS
    <3>1. CausedBy(j, k, c, i)
      BY <2>4
    <3>2. i <= lastSent[c]
      BY <3>1 DEF CausedBy
    <3> QED BY <2>5, <3>2
  <2>7. ASSUME NEW k \in 1..n PROVE CausedBy(j, k, who[k], upto[k])'
    <3> DEFINE d == who[k]
               u == upto[k]
    <3>1. d \in Jobs /\ u \in Int
      OBVIOUS
    <3>2. CausedBy(j, k, d, u)
      BY <2>4
    <3> HIDE DEF d, u
    <3>3. d \in Consumers' => u <= lastSent'[d]
      <4>1. ASSUME d \in Consumers' PROVE u <= lastSent'[d]
        <5>1. d \in Consumers /\ lastSent[d] <= lastSent'[d] /\ u <= lastSent[d]
          BY <1>1, <3>2, <4>1 DEF CausedBy
        <5>2. lastSent[d] \in Int
          BY <1>0, <5>1, Numbers
        <5>3. lastSent'[d] \in Int
          BY <4>1 DEF WindowInv, Types, ProducerTypes, Mark
        <5> QED BY <3>1, <5>1, <5>2, <5>3
      <4> QED BY <4>1
    <3>4. u <= lastReceived'[j] + MaxLag
      BY <1>1, <3>2 DEF CausedBy
    <3>5. ASSUME NEW b, Before(j, k, b) PROVE Before(j, k, b)'
      <4>1. \A l \in DOMAIN pipe'[j] : l < k => l \in DOMAIN pipe[j] /\ pipe'[j][l] = pipe[j][l]
        <5>1. DOMAIN pipe'[j] = 1..(n + 1) /\ DOMAIN pipe[j] = 1..n
          <6>1. pipe'[j] \in Seq(Seq(Item))
            BY <1>0 DEF WindowInv, Types, NetTypes
          <6> QED BY <1>0, <2>3, <2>9, <6>1
        <5> QED BY <2>3, <5>1
      <4> QED BY <1>1, <3>5, <4>1 DEF Before, TakenBefore
    <3>6. (Before(j, k, IF d = j THEN u ELSE u + MaxLag))'
      BY <3>2, <3>5 DEF CausedBy
    <3> QED BY <3>3, <3>4, <3>6 DEF CausedBy, d, u
  <2>8. CausedBy(j, n + 1, c, i)'
    <3>1. /\ lastAcked'[j] \in Int /\ lastReceived'[j] \in Int /\ nextIndex' \in Int
          /\ lastSent'[c] < nextIndex' /\ nextIndex' - 1 <= lastAcked'[j] + MaxLag
          /\ lastAcked'[j] <= lastReceived'[j]
      <4>1. j \in Consumers' /\ c \in Consumers'
        BY <1>1
      <4>2. lastAcked'[j] \in Int /\ lastReceived'[j] \in Int /\ nextIndex' \in Int
        <5>1. ProducerTypes' /\ ConsumerTypes'
          BY DEF WindowInv, Types
        <5>2. /\ lastAcked' \in [Consumers' -> Mark] /\ lastReceived' \in [Jobs -> Mark]
              /\ nextIndex' \in Nat
          BY <5>1 DEF ProducerTypes, ConsumerTypes
        <5> QED BY <1>0, <4>1, <5>2 DEF Mark
      <4>3. /\ lastSent'[c] < nextIndex' /\ nextIndex' - 1 <= lastAcked'[j] + MaxLag
            /\ lastAcked'[j] <= lastReceived'[j]
        BY <4>1 DEF WindowInv, LagInv
      <4> QED BY <4>2, <4>3
    <3>2. i <= lastReceived'[j] + MaxLag
      <4>1. MaxLag \in Int
        BY SocketAssumption
      <4> QED BY <2>5, <3>1, <4>1
    <3> DEFINE b == IF c = j THEN i ELSE i + MaxLag
    <3>3. lastSent[j] < b /\ b \in Int /\ lastSent[j] \in Int
      <4>1. /\ lastSent[j] < nextIndex /\ nextIndex - 1 <= lastAcked[c] + MaxLag
            /\ lastAcked[c] <= lastReceived[c] /\ lastReceived[c] <= lastSent[c]
        BY DEF WindowInv, LagInv
      <4>2. /\ lastSent[j] \in Int /\ nextIndex \in Int /\ lastAcked[c] \in Int
            /\ lastReceived[c] \in Int /\ MaxLag \in Int
        BY <1>0, Numbers
      <4>3. CASE c = j
        BY <2>5, <4>2, <4>3
      <4>4. CASE c # j
        <5>1. b = i + MaxLag
          BY <4>4
        <5>2. lastAcked[c] < i
          BY <2>5, <4>1, <4>2
        <5>3. lastSent[j] <= lastAcked[c] + MaxLag
          BY <4>1, <4>2
        <5>4. lastSent[j] < i + MaxLag /\ i + MaxLag \in Int
          <6>1. i \in Int
            BY <2>5
          <6> QED BY <4>2, <5>2, <5>3, <6>1
        <5> HIDE DEF b
        <5> QED BY <4>2, <5>1, <5>4
      <4> QED BY <4>3, <4>4
    <3> HIDE DEF b
    <3>4. lastReceived[j] < b
      <4>1. lastReceived[j] <= lastSent[j] /\ lastReceived[j] \in Int
        BY <1>0, Numbers DEF WindowInv, LagInv
      <4> QED BY <3>3, <4>1
    <3>5. fetch[j] = "put" => \A m \in DOMAIN todo[j] : todo[j][m] < b
      <4> SUFFICES ASSUME fetch[j] = "put", NEW m \in DOMAIN todo[j] PROVE todo[j][m] < b
        OBVIOUS
      <4>1. todo[j][m] <= lastSent[j]
        BY DEF WindowInv, SentInv
      <4>2. todo[j][m] \in Int
        BY <1>0, Numbers
      <4> QED BY <3>3, <4>1, <4>2
    <3>6. \A l \in DOMAIN pipe[j] : \A m \in DOMAIN pipe[j][l] : pipe[j][l][m] < b
      <4> SUFFICES ASSUME NEW l \in DOMAIN pipe[j], NEW m \in DOMAIN pipe[j][l]
                   PROVE  pipe[j][l][m] < b
        OBVIOUS
      <4>1. pipe[j][l][m] <= lastSent[j]
        BY DEF WindowInv, SentInv
      <4>2. pipe[j][l][m] \in Int
        BY <1>0, Numbers
      <4> QED BY <3>3, <4>1, <4>2
    <3>7. \A l \in DOMAIN pipe'[j] : l < n + 1 => l \in DOMAIN pipe[j] /\ pipe'[j][l] = pipe[j][l]
      <4>1. DOMAIN pipe'[j] = 1..(n + 1) /\ DOMAIN pipe[j] = 1..n
        <5>1. pipe'[j] \in Seq(Seq(Item))
          BY <1>0 DEF WindowInv, Types, NetTypes
        <5> QED BY <1>0, <2>3, <2>9, <5>1
      <4> QED BY <2>3, <4>1
    <3>8. Before(j, n + 1, b)'
      BY <1>1, <3>4, <3>5, <3>6, <3>7 DEF Before, TakenBefore
    <3>9. c \in Consumers' => i <= lastSent'[c]
      BY <2>5
    <3> QED BY <3>2, <3>8, <3>9 DEF CausedBy, b
  <2>10. who2 \in [1..(n + 1) -> Jobs] /\ upto2 \in [1..(n + 1) -> Int]
    BY <1>0
  <2>11. /\ who2[n + 1] = c /\ upto2[n + 1] = i
         /\ \A k \in 1..n : who2[k] = who[k] /\ upto2[k] = upto[k]
         /\ 1..(n + 1) = 1..n \cup {n + 1}
    OBVIOUS
  <2> HIDE DEF who2, upto2
  <2>12. \A k, l \in 1..(n + 1) : who2[k] = who2[l] /\ upto2[k] = upto2[l] => k = l
    BY <2>4, <2>6, <2>11
  <2>13. \A k \in 1..(n + 1) : CausedBy(j, k, who2[k], upto2[k])'
    BY <2>7, <2>8, <2>11
  <2>14. PICK m : m = 1..(n + 1) /\ m = 1..Len(pipe'[j])
    BY <2>3
  <2>15. \E w \in [m -> Jobs], u \in [m -> Int] :
            /\ \A k, l \in m : w[k] = w[l] /\ u[k] = u[l] => k = l
            /\ \A k \in m : CausedBy(j, k, w[k], u[k])'
    BY <2>10, <2>12, <2>13, <2>14
  <2> QED BY <2>14, <2>15, Zenon DEF CausesInv
<1> QED BY <1>2, <1>3

\* A fetch thread that takes a message has the rest before it.
LEMMA CausesReceive ==
    ASSUME WindowInv, NEW j \in Jobs, Receive(j), CausesInv(j)
    PROVE  CausesInv(j)'
<1>0. /\ pipe \in [Jobs -> Seq(Seq(Item))] /\ todo \in [Jobs -> Seq(Item)]
      /\ fetch \in [Jobs -> {"off", "poll", "put", "over"}]
  BY DEF WindowInv, Types, NetTypes, ConsumerTypes
<1>1. /\ pipe[j] # <<>> /\ UNCHANGED <<lastReceived, lastSent>>
      /\ pipe'[j] = Tail(pipe[j]) /\ todo'[j] = Head(pipe[j])
  BY <1>0 DEF Receive, producerVars
<1>2. Consumers' = Consumers
  BY <1>1 DEF Consumers
<1>3. PICK n \in Nat : Len(pipe[j]) = n + 1
  <2>1. Len(pipe[j]) \in Nat /\ Len(pipe[j]) # 0
    BY <1>0, <1>1
  <2>2. Len(pipe[j]) - 1 \in Nat /\ Len(pipe[j]) = (Len(pipe[j]) - 1) + 1
    BY <2>1
  <2> QED BY <2>2
<1>4. /\ Len(pipe'[j]) = n /\ DOMAIN pipe'[j] = 1..n /\ DOMAIN pipe[j] = 1..(n + 1)
      /\ \A k \in 1..n : pipe'[j][k] = pipe[j][k + 1]
      /\ todo'[j] = pipe[j][1]
  <2>1. pipe[j] \in Seq(Seq(Item))
    BY <1>0
  <2> QED BY <1>1, <1>3, <2>1
<1>5. PICK who \in [1..(n + 1) -> Jobs], upto \in [1..(n + 1) -> Int] :
        /\ \A k, l \in 1..(n + 1) : who[k] = who[l] /\ upto[k] = upto[l] => k = l
        /\ \A k \in 1..(n + 1) : CausedBy(j, k, who[k], upto[k])
  BY <1>3 DEF CausesInv
<1> DEFINE who2 == [k \in 1..n |-> who[k + 1]]
           upto2 == [k \in 1..n |-> upto[k + 1]]
<1>6. /\ who2 \in [1..n -> Jobs] /\ upto2 \in [1..n -> Int]
      /\ \A k \in 1..n : /\ k + 1 \in 1..(n + 1)
                         /\ who2[k] = who[k + 1] /\ upto2[k] = upto[k + 1]
  OBVIOUS
<1> HIDE DEF who2, upto2
<1>7. \A k, l \in 1..n : who2[k] = who2[l] /\ upto2[k] = upto2[l] => k = l
  <2> SUFFICES ASSUME NEW k \in 1..n, NEW l \in 1..n, who2[k] = who2[l], upto2[k] = upto2[l]
               PROVE  k = l
    OBVIOUS
  <2>1. k + 1 = l + 1
    BY <1>5, <1>6
  <2> QED BY <2>1
<1>8. ASSUME NEW k \in 1..n PROVE CausedBy(j, k, who2[k], upto2[k])'
  <2>1. PICK m \in 1..(n + 1) : m = k + 1
    BY <1>6
  <2>2. CausedBy(j, m, who2[k], upto2[k])
    BY <1>5, <1>6, <2>1
  <2>3. ASSUME NEW b, Before(j, m, b) PROVE Before(j, k, b)'
    <3>1. lastReceived'[j] < b
      BY <1>1, <2>3 DEF Before, TakenBefore
    <3>2. \A l \in 1..(n + 1) : l < m => \A i \in DOMAIN pipe[j][l] : pipe[j][l][i] < b
      BY <1>4, <2>3 DEF Before
    <3>3. \A i \in DOMAIN todo'[j] : todo'[j][i] < b
      <4>1. 1 \in 1..(n + 1) /\ 1 < m
        BY <2>1
      <4> QED BY <1>4, <3>2, <4>1
    <3>4. \A l \in 1..n : l < k => \A i \in DOMAIN pipe'[j][l] : pipe'[j][l][i] < b
      <4> SUFFICES ASSUME NEW l \in 1..n, l < k
                   PROVE  \A i \in DOMAIN pipe'[j][l] : pipe'[j][l][i] < b
        OBVIOUS
      <4>1. l + 1 \in 1..(n + 1) /\ l + 1 < m
        BY <2>1
      <4> QED BY <1>4, <3>2, <4>1
    <3> QED BY <1>4, <3>1, <3>3, <3>4 DEF Before, TakenBefore
  <2>4. /\ who2[k] \in Consumers' => upto2[k] <= lastSent'[who2[k]]
        /\ upto2[k] <= lastReceived'[j] + MaxLag
    BY <1>1, <1>2, <2>2 DEF CausedBy
  <2>5. Before(j, m, IF who2[k] = j THEN upto2[k] ELSE upto2[k] + MaxLag)
    BY <2>2 DEF CausedBy
  <2>6. Before(j, k, IF who2[k] = j THEN upto2[k] ELSE upto2[k] + MaxLag)'
    BY <2>3, <2>5
  <2> QED BY <2>4, <2>6 DEF CausedBy
<1> QED BY <1>4, <1>6, <1>7, <1>8 DEF CausesInv

\* A batch that is put was taken before.
LEMMA CausesPut ==
    ASSUME WindowInv, WindowInv', NEW j \in Jobs, Put(j), CausesInv(j)
    PROVE  CausesInv(j)'
<1>0. /\ todo \in [Jobs -> Seq(Item)] /\ lastReceived \in [Jobs -> Mark] /\ todo[j] # <<>>
      /\ fetch \in [Jobs -> {"off", "poll", "put", "over"}]
  BY DEF WindowInv, Types, ConsumerTypes, Put
<1>1. /\ UNCHANGED <<pipe, lastSent>>
      /\ fetch[j] = "put" /\ todo'[j] = Tail(todo[j])
      /\ \/ lastReceived'[j] = lastReceived[j]
         \/ /\ lastReceived'[j] = Head(todo[j])
            /\ ~(Head(todo[j]) <= lastReceived[j])
  BY <1>0 DEF Put, Skipped, producerVars
<1>2. /\ 1 \in DOMAIN todo[j] /\ Head(todo[j]) = todo[j][1]
      /\ \A i \in DOMAIN Tail(todo[j]) : i + 1 \in DOMAIN todo[j] /\ Tail(todo[j])[i] = todo[j][i + 1]
  BY <1>0
<1>3. ASSUME NEW b \in Int, TakenBefore(j, b) PROVE TakenBefore(j, b)'
  <2>1. lastReceived[j] < b /\ \A i \in DOMAIN todo[j] : todo[j][i] < b
    BY <1>1, <1>3 DEF TakenBefore
  <2> QED BY <1>1, <1>2, <2>1 DEF TakenBefore
<1>4. lastReceived[j] <= lastReceived'[j]
  <2>1. lastReceived[j] \in Int /\ Head(todo[j]) \in Int
    BY <1>0, <1>2, Numbers
  <2> QED BY <1>1, <2>1
<1>5. \A c \in Consumers' : c \in Consumers /\ lastSent[c] <= lastSent'[c]
  BY <1>1, Numbers DEF Consumers
<1> QED BY <1>1, <1>3, <1>4, <1>5, CausesKept

\* Causes are few: while a consumer may still be sent a batch, there is room for it.
LEMMA RoomForTheNext ==
    ASSUME EnoughRoom, WindowInv, NEW j \in Consumers, CausesInv(j),
           lastSent[j] < SendLimit(j)
    PROVE  Len(pipe[j]) < PipeSize
<1>0. /\ j \in Jobs /\ pipe[j] \in Seq(Seq(Item)) /\ ProducerTypes
  BY Numbers DEF WindowInv, Types, ProducerTypes, NetTypes
<1>1. PICK n \in Nat : n = Len(pipe[j])
  BY <1>0
<1>2. PICK r \in Int : r = lastReceived[j]
  BY <1>0, Numbers
<1>3. PICK who \in [1..n -> Jobs], upto \in [1..n -> Int] :
        /\ \A k, l \in 1..n : who[k] = who[l] /\ upto[k] = upto[l] => k = l
        /\ \A k \in 1..n : CausedBy(j, k, who[k], upto[k])
  BY <1>1 DEF CausesInv
<1>4. BufferSize \in Nat /\ BufferSize >= 1 /\ MaxLag \in Nat /\ MaxLag >= 1 /\ PipeSize \in Nat
  BY Sizes, SocketAssumption
<1> DEFINE others == Jobs \ {j}
           around == (r - MaxLag + 1)..(r + MaxLag)
           next == (r + 1)..(r + BufferSize - 1)
           causes == (others \X around) \cup ({j} \X next)
           f == [k \in 1..n |-> <<who[k], upto[k]>>]
<1>5. ASSUME NEW k \in 1..n PROVE <<who[k], upto[k]>> \in causes
  <2>1. who[k] \in Jobs /\ upto[k] \in Int
    OBVIOUS
  <2>2. CausedBy(j, k, who[k], upto[k])
    BY <1>3
  <2>3. CASE who[k] = j
    <3>1. upto[k] <= lastSent[j] /\ r < upto[k]
      BY <1>2, <2>2, <2>3 DEF CausedBy, Before, TakenBefore
    <3>2. lastSent[j] \in Int /\ lastAcked[j] \in Int /\ lastAcked[j] <= r
      BY <1>0, <1>2, Numbers DEF WindowInv, LagInv
    <3>3. SendLimit(j) \in Nat /\ SendLimit(j) <= lastAcked[j] + BufferSize
      BY <1>0, Limits
    <3>4. upto[k] \in next
      BY <1>4, <2>1, <3>1, <3>2, <3>3
    <3> QED BY <2>3, <3>4
  <2>4. CASE who[k] # j
    <3>1. upto[k] <= r + MaxLag /\ r < upto[k] + MaxLag
      BY <1>2, <2>2, <2>4 DEF CausedBy, Before, TakenBefore
    <3>2. upto[k] \in around
      BY <1>4, <2>1, <3>1
    <3>3. who[k] \in others
      BY <2>1, <2>4
    <3> QED BY <3>2, <3>3
  <2> QED BY <2>3, <2>4
<1>6. IsFiniteSet(others) /\ Cardinality(others) = Cardinality(Jobs) - 1
  BY <1>0, FS_RemoveElement, SocketAssumption
<1>7. IsFiniteSet(around) /\ Cardinality(around) = 2 * MaxLag
  <2>1. r - MaxLag + 1 \in Int /\ r + MaxLag \in Int
    BY <1>4
  <2>2. /\ IsFiniteSet(around)
        /\ Cardinality(around) = IF r - MaxLag + 1 > r + MaxLag THEN 0
                                 ELSE (r + MaxLag) - (r - MaxLag + 1) + 1
    BY <2>1, FS_Interval
  <2> HIDE DEF around
  <2> QED BY <1>4, <2>2
<1>8. IsFiniteSet(next) /\ Cardinality(next) = BufferSize - 1
  <2>1. r + 1 \in Int /\ r + BufferSize - 1 \in Int
    BY <1>4
  <2>2. /\ IsFiniteSet(next)
        /\ Cardinality(next) = IF r + 1 > r + BufferSize - 1 THEN 0
                               ELSE (r + BufferSize - 1) - (r + 1) + 1
    BY <2>1, FS_Interval
  <2> HIDE DEF next
  <2> QED BY <1>4, <2>2
<1>9. f \in [1..n -> causes] /\ \A k \in 1..n : f[k] = <<who[k], upto[k]>>
  BY <1>5
<1> HIDE DEF others, around, next, f
<1>10. /\ IsFiniteSet(others \X around)
       /\ Cardinality(others \X around) = (Cardinality(Jobs) - 1) * (2 * MaxLag)
  <2>1. Cardinality(others \X around) = Cardinality(others) * Cardinality(around)
    BY <1>6, <1>7, FS_Product
  <2> QED BY <1>6, <1>7, <2>1, FS_Product
<1>11. IsFiniteSet({j} \X next) /\ Cardinality({j} \X next) = BufferSize - 1
  <2>1. IsFiniteSet({j}) /\ Cardinality({j}) = 1
    BY FS_Singleton
  <2>2. /\ IsFiniteSet({j} \X next)
        /\ Cardinality({j} \X next) = Cardinality({j}) * Cardinality(next)
    BY <1>8, <2>1, FS_Product
  <2> QED BY <1>4, <1>8, <2>1, <2>2
<1> DEFINE product == (Cardinality(Jobs) - 1) * (2 * MaxLag)
<1>12. IsFiniteSet(causes) /\ Cardinality(causes) <= product + BufferSize - 1
  <2> DEFINE A == others \X around
             B == {j} \X next
  <2>1. /\ IsFiniteSet(A) /\ IsFiniteSet(B)
        /\ Cardinality(A) = product /\ Cardinality(B) = BufferSize - 1
    BY <1>10, <1>11
  <2> HIDE DEF A, B, product
  <2>2. /\ IsFiniteSet(A \cup B)
        /\ Cardinality(A \cup B) = Cardinality(A) + Cardinality(B) - Cardinality(A \cap B)
    BY <2>1, FS_Union
  <2>3. Cardinality(A \cap B) \in Nat
    <3>1. A \cap B \in SUBSET A
      OBVIOUS
    <3>2. IsFiniteSet(A \cap B)
      BY <2>1, <3>1, FS_Subset
    <3> QED BY <3>2, FS_CardinalityType
  <2>4. Cardinality(A) \in Nat
    BY <2>1, FS_CardinalityType
  <2>5. Cardinality(A \cup B) <= product + BufferSize - 1
    BY <1>4, <2>1, <2>2, <2>3, <2>4
  <2> QED BY <2>2, <2>5 DEF A, B
<1> HIDE DEF causes
<1>13. product + BufferSize <= PipeSize /\ product \in Nat
  <2>1. Cardinality(others \X around) \in Nat
    BY <1>10, FS_CardinalityType
  <2> QED BY <1>4, <1>10, <2>1 DEF EnoughRoom
<1> HIDE DEF product
<1>14. SUFFICES ASSUME n >= PipeSize PROVE FALSE
  BY <1>1, <1>4
<1>15. IsFiniteSet(1..n) /\ Cardinality(1..n) = n
  BY FS_Interval
<1>16. Cardinality(causes) \in Nat
  BY <1>12, FS_CardinalityType
<1>17. Cardinality(causes) < Cardinality(1..n)
  BY <1>4, <1>12, <1>13, <1>14, <1>15, <1>16
<1>18. \E k, l \in 1..n : k # l /\ f[k] = f[l]
  <2>1. f \in [1..n -> causes]
    BY <1>9
  <2>2. IsFiniteSet(causes)
    BY <1>12
  <2>3. IsFiniteSet(1..n)
    BY <1>15
  <2> HIDE DEF f
  <2> QED BY <2>1, <2>2, <2>3, <1>17, FS_PigeonHole, Zenon
<1> QED BY <1>3, <1>9, <1>18

\* A batch is published for a consumer only within its limit.
LEMMA RoomIsEnough ==
    ASSUME EnoughRoom, WindowInv, RoomInv, Serve, NEW j \in Consumers, lastSent'[j] # lastSent[j]
    PROVE  Len(pipe[j]) < PipeSize
<1>1. lastSent[j] < SendLimit(j)
  BY ServeEffect DEF Reach
<1>2. CausesInv(j)
  BY ServeEffect DEF RoomInv
<1> QED BY <1>1, <1>2, RoomForTheNext

\* An empty pipe needs no cause.
LEMMA NoCause ==
    ASSUME NEW j \in Jobs, pipe'[j] = <<>> PROVE CausesInv(j)'
<1>1. Len(pipe'[j]) = 0 /\ 1..0 = {}
  OBVIOUS
<1>2. [k \in 1..0 |-> j] \in [1..0 -> Jobs] /\ [k \in 1..0 |-> 0] \in [1..0 -> Int]
  BY <1>1
<1>3. PICK who \in [1..0 -> Jobs], upto \in [1..0 -> Int] : TRUE
  BY <1>2
<1> QED BY <1>1, <1>3 DEF CausesInv

\* Nobody registers while the producer serves.
LEMMA DrainWhileServing ==
    ASSUME WindowInv, producer = "serving", NEW c \in Jobs, DrainControl(c)
    PROVE  Consumers' \subseteq Consumers /\ \A d \in Consumers' : lastSent'[d] = lastSent[d]
<1> DEFINE m == Head(control[c])
<1>1. control[c] \in Seq(Message) /\ control[c] # <<>>
  BY DEF WindowInv, Types, NetTypes, DrainControl
<1>2. m = control[c][1] /\ 1 \in DOMAIN control[c]
  BY <1>1, HeadAndTail
<1>3. m.type # "register"
  BY <1>2 DEF WindowInv, PhaseInv
<1>4. \/ m.type = "register"
      \/ lastSent' = [d \in Consumers \ {c} |-> lastSent[d]]
      \/ UNCHANGED lastSent
  BY DEF DrainControl
<1> QED BY <1>3, <1>4 DEF Consumers

\* Every step keeps the causes.
LEMMA RoomStep ==
    ASSUME WindowInv, WindowInv', RoomInv, [Next]_vars PROVE RoomInv'
<1> SUFFICES ASSUME producer' = "serving", NEW j \in Consumers' PROVE CausesInv(j)'
  BY DEF RoomInv
<1>0. /\ Consumers' \subseteq Jobs /\ j \in Jobs
      /\ fetch \in [Jobs -> {"off", "poll", "put", "over"}]
      /\ lastReceived \in [Jobs -> Mark] /\ pipe \in [Jobs -> Seq(Seq(Item))]
      /\ todo \in [Jobs -> Seq(Item)]
  <2>1. ProducerTypes' /\ ConsumerTypes /\ NetTypes
    BY DEF WindowInv, Types
  <2> QED BY <2>1 DEF ProducerTypes, ConsumerTypes, NetTypes
<1>1. CASE Begin \/ BeginEarly
  <2>1. producer = "waiting" /\ UNCHANGED pipe
    BY <1>1 DEF Begin, BeginEarly, AllRegistered, netVars
  <2>2. pipe'[j] = <<>>
    BY <1>0, <2>1 DEF WindowInv, PhaseInv
  <2> QED BY <1>0, <2>2, NoCause
<1>2. CASE Serve
  <2>1. producer = "serving" /\ Consumers' = Consumers
    BY <1>2, ServeEffect DEF Consumers
  <2> QED BY <1>2, <2>1, CausesServe DEF RoomInv
<1>3. CASE ~Serve /\ ~Begin /\ ~BeginEarly
  <2>1. /\ producer = "serving"
        /\ Consumers' \subseteq Consumers /\ \A d \in Consumers' : lastSent'[d] = lastSent[d]
    <3>1. CASE \E c \in Jobs : DrainControl(c)
      <4>1. PICK c \in Jobs : DrainControl(c)
        BY <3>1
      <4>2. producer = "serving"
        BY <4>1 DEF DrainControl
      <4> QED BY <4>1, <4>2, DrainWhileServing
    <3>2. CASE ~\E c \in Jobs : DrainControl(c)
      <4>1. UNCHANGED <<producer, lastSent>>
        BY <1>3, <3>2 DEF Next, Produce, Ready, StartFails, LoaderFails, StopProducer, CloseProducer,
              Terminate, Finish, StopRun, EndRun, Ended, vars, producerVars, Subscribe, Fetch, Receive,
              Put, Work, Connect, Train, TimeOut, SlowBatch, GiveUpWait, CloseConsumer, JobFails
      <4> QED BY <4>1 DEF Consumers
    <3> QED BY <3>1, <3>2
  <2>2. CausesInv(j)
    BY <2>1 DEF RoomInv
  <2>3. CASE Receive(j)
    BY <1>0, <2>2, <2>3, CausesReceive
  <2>4. CASE Put(j)
    BY <1>0, <2>2, <2>4, CausesPut
  <2>5. CASE CloseConsumer(j)
    <3>1. pipe'[j] = <<>>
      BY <1>0, <2>5 DEF CloseConsumer
    <3> QED BY <1>0, <3>1, NoCause
  <2>6. CASE ~Receive(j) /\ ~Put(j) /\ ~CloseConsumer(j)
    <3>1. /\ pipe'[j] = pipe[j] /\ lastReceived'[j] = lastReceived[j] /\ todo'[j] = todo[j]
          /\ fetch'[j] = "put" => fetch[j] = "put"
      <4>1. CASE UNCHANGED <<pipe, lastReceived, todo, fetch>>
        BY <4>1
      <4>2. CASE \E i \in Jobs \ {j} : Receive(i) \/ Put(i) \/ CloseConsumer(i)
        BY <1>0, <4>2 DEF Receive, Put, CloseConsumer
      <4>3. CASE \E i \in Jobs : Connect(i)
        BY <1>0, <4>3 DEF Connect
      <4>4. CASE StopProducer \/ LoaderFails
        BY <4>4 DEF StopProducer, LoaderFails, CloseProducer
      <4>5. \/ UNCHANGED <<pipe, lastReceived, todo, fetch>>
            \/ \E i \in Jobs : Receive(i) \/ Put(i) \/ CloseConsumer(i) \/ Connect(i)
            \/ StopProducer \/ LoaderFails
        BY <1>3 DEF Next, Produce, Ready, StartFails, Terminate, Finish, StopRun, EndRun, Ended, vars,
              netVars, fetchVars, DrainControl, Subscribe, Fetch, Work, Train, TimeOut, SlowBatch,
              GiveUpWait, JobFails
      <4> QED BY <2>6, <4>1, <4>2, <4>3, <4>4, <4>5
    <3>2. \A b \in Int : TakenBefore(j, b) => TakenBefore(j, b)'
      BY <3>1 DEF TakenBefore
    <3>3. lastReceived[j] <= lastReceived'[j]
      <4>1. lastReceived[j] \in Int
        BY <1>0, Numbers
      <4> QED BY <3>1, <4>1
    <3>4. \A c \in Consumers' : c \in Consumers /\ lastSent[c] <= lastSent'[c]
      BY <1>0, <2>1, Numbers
    <3> QED BY <1>0, <2>2, <3>1, <3>2, <3>3, <3>4, CausesKept
  <2> QED BY <2>3, <2>4, <2>5, <2>6
<1> QED BY <1>1, <1>2, <1>3

\* Pipes with room for twice the lag for each of the other jobs, and for the credit,
\* drop no batch, however slow a fetch thread or a training loop is.
THEOREM LargePipesDropNothing ==
    ASSUME EnoughRoom PROVE Spec => NoBatchDropped
<1> DEFINE Drop == \A j \in subscribed \cap Consumers :
                      Serve /\ lastSent'[j] # lastSent[j] => Len(pipe[j]) < PipeSize
<1>1. Init => RoomInv
  BY DEF Init, RoomInv
<1>2. WindowInv /\ WindowInv' /\ RoomInv /\ [Next]_vars => RoomInv'
  BY RoomStep
<1>3. WindowInv /\ RoomInv /\ [Next]_vars => [Drop]_vars
  <2> SUFFICES ASSUME WindowInv, RoomInv PROVE Drop
    OBVIOUS
  <2> QED BY RoomIsEnough
<1>4. NoBatchDropped <=> [][Drop]_vars
  BY DEF NoBatchDropped, Drop
<1> HIDE DEF Drop
<1> QED BY <1>1, <1>2, <1>3, <1>4, WindowAlways, PTL DEF Spec

\* So with such pipes every consumer gets the batches in order and without a hole.
THEOREM NoHole ==
    ASSUME EnoughRoom PROVE Spec => []InSequence
BY LargePipesDropNothing, NoHoleWithoutDrop, PTL
=============================================================================
