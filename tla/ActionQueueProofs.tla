------------------------- MODULE ActionQueueProofs --------------------------
(***************************************************************************)
(* The bookkeeping of the action queue, for any number of senders and any  *)
(* size: no place is counted twice, and the writer is at most a round      *)
(* ahead of the reader.  (That what is read is what was written holds for  *)
(* one sender only, see ActionQueue.)                                      *)
(***************************************************************************)
EXTENDS ActionQueue, FiniteSetTheorems, TLAPS

\* The senders whose place the writer index counts already.
Placed == {s \in Senders : spc[s] \in {"write", "release"}}

\* How far the writer is ahead: what is placed, announced or claimed.
Ahead ==
  m_writer_index - m_reader_index
    = Cardinality(Placed) + m_semaphore_data + (IF rpc = "copy" THEN 1 ELSE 0)

Accounted ==
  m_semaphore_space + Cardinality(Filling) + m_semaphore_data
    + (IF rpc \in {"copy", "free"} THEN 1 ELSE 0) = Size

Inv == TypeOK /\ Accounted /\ Ahead

\* Sets of senders are finite, and a placed sender is filling.
LEMMA SenderSets ==
  ASSUME TypeOK
  PROVE  /\ IsFiniteSet(Filling) /\ IsFiniteSet(Placed)
         /\ Cardinality(Filling) \in Nat /\ Cardinality(Placed) \in Nat
         /\ Cardinality(Placed) <= Cardinality(Filling)
<1>1. Filling \subseteq Senders /\ Placed \subseteq Filling BY DEF Filling, Placed
<1>2. IsFiniteSet(Filling) BY <1>1, FS_Subset, SizesAssumption
<1>3. IsFiniteSet(Placed) /\ Cardinality(Placed) <= Cardinality(Filling)
  BY <1>1, <1>2, FS_Subset
<1> QED BY <1>2, <1>3, FS_CardinalityType

\* The invariant implies what the runs check.
LEMMA InvImplies == Inv => PlacesAccounted
<1> SUFFICES ASSUME Inv PROVE PlacesAccounted OBVIOUS
<1>1. Cardinality(Filling) \in Nat /\ Cardinality(Placed) \in Nat
      /\ Cardinality(Placed) <= Cardinality(Filling)
  BY SenderSets DEF Inv
<1> QED BY <1>1, SizesAssumption DEF Inv, TypeOK, Accounted, Ahead, PlacesAccounted

LEMMA InitInv == Init => Inv
<1> SUFFICES ASSUME Init PROVE Inv OBVIOUS
<1>1. Filling = {} /\ Placed = {} BY DEF Init, Filling, Placed
<1>2. Cardinality({}) = 0 BY FS_EmptySet
<1>3. TypeOK
  <2>1. 0 \in Places /\ 0 \in 0 .. Size /\ Size \in 0 .. Size /\ 0 \in 0 .. MaxSent
    BY SizesAssumption DEF Places
  <2>2. m_data \in [Places -> Actions] BY DEF Init, Actions
  <2>3. sval \in [Senders -> Actions] /\ v \in Actions BY DEF Init, Actions
  <2>4. sidx \in [Senders -> Places] BY <2>1 DEF Init
  <2> QED BY <2>1, <2>2, <2>3, <2>4 DEF Init, TypeOK
<1> QED BY <1>1, <1>2, <1>3, SizesAssumption DEF Init, Inv, Accounted, Ahead

\* A sender that joins or leaves a set of senders changes its size by one.
LEMMA Joins ==
  ASSUME NEW S, IsFiniteSet(S), NEW T, NEW s, s \notin S, T = S \cup {s}
  PROVE  Cardinality(T) = Cardinality(S) + 1
BY FS_AddElement

LEMMA Leaves ==
  ASSUME NEW S, IsFiniteSet(S), NEW T, NEW s, s \in S, T = S \ {s}
  PROVE  Cardinality(T) = Cardinality(S) - 1
BY FS_RemoveElement

\* Every step of every thread keeps the invariant.
LEMMA StepInv == Inv /\ [Next]_vars => Inv'
<1> SUFFICES ASSUME Inv, [Next]_vars PROVE Inv' OBVIOUS
<1> USE SizesAssumption
<1> DEFINE F == Cardinality(Filling)
           P == Cardinality(Placed)
<1>f. /\ IsFiniteSet(Filling) /\ IsFiniteSet(Placed)
      /\ F \in Nat /\ P \in Nat /\ P <= F
  BY SenderSets DEF Inv
<1>s. ASSUME Filling' = Filling, Placed' = Placed PROVE F' = F /\ P' = P
  BY <1>s
<1>t. TypeOK /\ Accounted /\ Ahead BY DEF Inv
<1> HIDE DEF F, P
<1>a. m_semaphore_space + F + m_semaphore_data
        + (IF rpc \in {"copy", "free"} THEN 1 ELSE 0) = Size
  BY <1>t DEF Accounted, F
<1>b. m_writer_index - m_reader_index
        = P + m_semaphore_data + (IF rpc = "copy" THEN 1 ELSE 0)
  BY <1>t DEF Ahead, P
<1>c. ASSUME m_semaphore_space' + F' + m_semaphore_data'
               + (IF rpc' \in {"copy", "free"} THEN 1 ELSE 0) = Size,
             m_writer_index' - m_reader_index'
               = P' + m_semaphore_data' + (IF rpc' = "copy" THEN 1 ELSE 0),
             TypeOK'
      PROVE  Inv'
  BY <1>c DEF Inv, Accounted, Ahead, F, P
<1>1. ASSUME NEW s \in Senders, NEW a \in Values, Send(s, a) PROVE Inv'
  <2>1. Filling' = Filling /\ Placed' = Placed
    BY <1>1, <1>t DEF Send, TypeOK, Filling, Placed
  <2>2. TypeOK' BY <1>1, <1>t DEF Send, TypeOK, memVars, semVars, Actions
  <2> QED BY <2>1, <2>2, <1>1, <1>a, <1>b, <1>c, <1>s DEF Send, memVars, semVars
<1>2. ASSUME NEW s \in Senders, Acquire(s) PROVE Inv'
  <2>1. Placed' = Placed /\ s \notin Filling /\ Filling' = Filling \cup {s}
    BY <1>2, <1>t DEF Acquire, TypeOK, Filling, Placed
  <2>2. F' = F + 1 BY <2>1, <1>f, Joins DEF F
  <2>3. P' = P BY <2>1 DEF P
  <2>4. TypeOK' BY <1>2, <1>t DEF Acquire, TypeOK, memVars
  <2> QED BY <2>2, <2>3, <2>4, <1>2, <1>a, <1>b, <1>c, <1>f, <1>t DEF Acquire, memVars, TypeOK
<1>3. ASSUME NEW s \in Senders, GiveUp(s) PROVE Inv'
  <2>1. Filling' = Filling /\ Placed' = Placed
    BY <1>3, <1>t DEF GiveUp, TypeOK, Filling, Placed
  <2>2. TypeOK' BY <1>3, <1>t DEF GiveUp, TypeOK, memVars, semVars
  <2> QED BY <2>1, <2>2, <1>3, <1>a, <1>b, <1>c, <1>s DEF GiveUp, memVars, semVars
<1>4. ASSUME NEW s \in Senders, Reserve(s) PROVE Inv'
  <2>1. Filling' = Filling /\ s \notin Placed /\ Placed' = Placed \cup {s}
    BY <1>4, <1>t DEF Reserve, TypeOK, Filling, Placed
  <2>2. P' = P + 1 BY <2>1, <1>f, Joins DEF P
  <2>3. F' = F BY <2>1 DEF F
  <2>4. m_writer_index % Size \in Places
    BY <1>t DEF TypeOK, Places
  <2>5. TypeOK' BY <2>4, <1>4, <1>t DEF Reserve, TypeOK, semVars
  <2> QED BY <2>2, <2>3, <2>5, <1>4, <1>a, <1>b, <1>c, <1>f, <1>t DEF Reserve, semVars, TypeOK
<1>5. ASSUME NEW s \in Senders, Write(s) PROVE Inv'
  <2>1. Filling' = Filling /\ Placed' = Placed
    BY <1>5, <1>t DEF Write, TypeOK, Filling, Placed
  <2>2. TypeOK' BY <1>5, <1>t DEF Write, TypeOK, semVars
  <2> QED BY <2>1, <2>2, <1>5, <1>a, <1>b, <1>c, <1>s DEF Write, semVars
<1>6. ASSUME NEW s \in Senders, Release(s) PROVE Inv'
  <2>1. s \in Filling /\ Filling' = Filling \ {s} /\ s \in Placed /\ Placed' = Placed \ {s}
    BY <1>6, <1>t DEF Release, TypeOK, Filling, Placed
  <2>2. F' = F - 1 BY <2>1, <1>f, Leaves DEF F
  <2>3. P' = P - 1 BY <2>1, <1>f, Leaves DEF P
  <2>4. F # 0 BY <2>1, <1>f, FS_EmptySet DEF F
  <2>5. m_semaphore_data + 1 \in 0 .. Size
    BY <2>4, <1>a, <1>f, <1>t DEF TypeOK
  <2>6. TypeOK' BY <2>5, <1>6, <1>t DEF Release, TypeOK, memVars
  <2> QED BY <2>2, <2>3, <2>6, <1>6, <1>a, <1>b, <1>c, <1>f, <1>t DEF Release, memVars, TypeOK
<1>7. CASE notifyExit
  <2>1. Filling' = Filling /\ Placed' = Placed BY <1>7 DEF notifyExit, sendVars, Filling, Placed
  <2>2. TypeOK' BY <1>7, <1>t DEF notifyExit, TypeOK, memVars, semVars, sendVars
  <2> QED BY <2>1, <2>2, <1>7, <1>a, <1>b, <1>c, <1>s DEF notifyExit, memVars, semVars
<1>8. CASE Test
  <2>1. Filling' = Filling /\ Placed' = Placed BY <1>8 DEF Test, sendVars, Filling, Placed
  <2>2. TypeOK' BY <1>8, <1>t DEF Test, TypeOK, memVars, semVars, sendVars, Actions
  <2> QED BY <2>1, <2>2, <1>8, <1>a, <1>b, <1>c, <1>s DEF Test, memVars, semVars
<1>9. CASE WaitData
  <2>1. Filling' = Filling /\ Placed' = Placed BY <1>9 DEF WaitData, sendVars, Filling, Placed
  <2>2. TypeOK' BY <1>9, <1>t DEF WaitData, TypeOK, memVars, sendVars
  <2> QED BY <2>1, <2>2, <1>9, <1>a, <1>b, <1>c, <1>f, <1>s, <1>t DEF WaitData, memVars, TypeOK
<1>10. CASE WaitTimeout
  <2>1. Filling' = Filling /\ Placed' = Placed
    BY <1>10 DEF WaitTimeout, sendVars, Filling, Placed
  <2>2. TypeOK' BY <1>10, <1>t DEF WaitTimeout, TypeOK, memVars, semVars, sendVars
  <2> QED BY <2>1, <2>2, <1>10, <1>a, <1>b, <1>c, <1>s DEF WaitTimeout, memVars, semVars
<1>11. CASE Copy
  <2>1. Filling' = Filling /\ Placed' = Placed BY <1>11 DEF Copy, sendVars, Filling, Placed
  <2>2. m_reader_index % Size \in Places BY <1>t DEF TypeOK, Places
  <2>3. TypeOK' BY <2>2, <1>11, <1>t DEF Copy, TypeOK, semVars, sendVars
  <2> QED BY <2>1, <2>3, <1>11, <1>a, <1>b, <1>c, <1>f, <1>s, <1>t DEF Copy, semVars, TypeOK
<1>12. CASE FreePlace
  <2>1. Filling' = Filling /\ Placed' = Placed BY <1>12 DEF FreePlace, sendVars, Filling, Placed
  <2>2. m_semaphore_space + 1 \in 0 .. Size
    BY <1>12, <1>a, <1>f, <1>t DEF FreePlace, TypeOK
  <2>3. TypeOK' BY <2>2, <1>12, <1>t DEF FreePlace, TypeOK, memVars, sendVars
  <2> QED BY <2>1, <2>3, <1>12, <1>a, <1>b, <1>c, <1>f, <1>s, <1>t DEF FreePlace, memVars, TypeOK
<1>13. CASE UNCHANGED vars
  <2>1. Filling' = Filling /\ Placed' = Placed BY <1>13 DEF vars, Filling, Placed
  <2>2. TypeOK' BY <1>13, <1>t DEF vars, TypeOK
  <2> QED BY <2>1, <2>2, <1>13, <1>a, <1>b, <1>c, <1>s DEF vars
<1> QED
  BY <1>1, <1>2, <1>3, <1>4, <1>5, <1>6, <1>7, <1>8, <1>9, <1>10, <1>11, <1>12, <1>13
  DEF Next, Sender, Receiver

\* Whatever the number of senders and the size of the ring, each place is
\* counted once, and the writer overtakes the reader by a round at most.
THEOREM PlacesStayAccounted == Spec => [](TypeOK /\ PlacesAccounted)
<1>1. Inv => TypeOK /\ PlacesAccounted BY InvImplies DEF Inv
<1> QED BY <1>1, InitInv, StepInv, PTL DEF Spec

-----------------------------------------------------------------------------
(* With one sender the ring is a queue. *)

\* The sender's place is the last one reserved, and holds its action once
\* written.
OneInv(s) ==
  /\ spc[s] # "idle" => sval[s] \in Values
  /\ spc[s] \in {"write", "release"} => sidx[s] = (m_writer_index - 1) % Size
  /\ spc[s] = "release" => m_data[sidx[s]] = sval[s]

LEMMA OneSender ==
  ASSUME NEW s, Senders = {s}, Inv
  PROVE  /\ spc[s] \in {"idle", "acquire", "reserve", "write", "release"}
         /\ spc = [t \in {s} |-> spc[s]]
         /\ Cardinality({t \in Senders : spc[t] # "idle"}) = IF spc[s] # "idle" THEN 1 ELSE 0
         /\ Cardinality(Filling) = IF spc[s] \in {"reserve", "write", "release"} THEN 1 ELSE 0
         /\ Cardinality(Placed) = IF spc[s] \in {"write", "release"} THEN 1 ELSE 0
<1>1. Cardinality({}) = 0 /\ Cardinality({s}) = 1
  BY FS_EmptySet, FS_Singleton
<1>2. /\ {t \in Senders : spc[t] # "idle"} = IF spc[s] # "idle" THEN {s} ELSE {}
      /\ Filling = IF spc[s] \in {"reserve", "write", "release"} THEN {s} ELSE {}
      /\ Placed = IF spc[s] \in {"write", "release"} THEN {s} ELSE {}
  BY DEF Filling, Placed
<1>3. spc[s] \in {"idle", "acquire", "reserve", "write", "release"} /\ spc = [t \in {s} |-> spc[s]]
  BY DEF Inv, TypeOK
<1> QED BY <1>1, <1>2, <1>3

\* How many actions can be received, and where the next one goes.
LEMMA AnnouncedSize ==
  ASSUME NEW s, Senders = {s}, Inv
  PROVE  LET n == m_semaphore_data + (IF rpc = "copy" THEN 1 ELSE 0)
         IN  /\ n \in Nat /\ m_reader_index \in Nat /\ m_writer_index \in Nat
             /\ Announced = [i \in 1 .. n |-> m_data[(m_reader_index + i - 1) % Size]]
             /\ Announced \in Seq(Actions) /\ Len(Announced) = n
             /\ spc[s] \in {"write", "release"} => m_writer_index - 1 = m_reader_index + n
             /\ spc[s] \in {"reserve", "write", "release"} => n < Size
             /\ spc[s] = "acquire" /\ m_semaphore_space = 0 => n >= Size - 1
<1> DEFINE n == m_semaphore_data + (IF rpc = "copy" THEN 1 ELSE 0)
<1>1. /\ TypeOK /\ n \in Nat /\ m_reader_index \in Nat /\ m_writer_index \in Nat
      /\ Announced = [i \in 1 .. n |-> m_data[(m_reader_index + i - 1) % Size]]
  BY SizesAssumption DEF Inv, TypeOK, Announced
<1> HIDE DEF n
<1>2. ASSUME NEW i \in 1 .. n PROVE m_data[(m_reader_index + i - 1) % Size] \in Actions
  <2>1. (m_reader_index + i - 1) % Size \in Places
    BY <1>1, SizesAssumption DEF Places
  <2> QED BY <1>1, <2>1 DEF TypeOK
<1>3. Announced \in Seq(Actions) /\ Len(Announced) = n
  <2>1. Announced \in [1 .. n -> Actions]
    BY <1>1, <1>2
  <2>2. \A f \in [1 .. n -> Actions] : f \in Seq(Actions) /\ Len(f) = n
    BY <1>1
  <2> QED BY <2>1, <2>2
<1>4. /\ Cardinality(Filling) = IF spc[s] \in {"reserve", "write", "release"} THEN 1 ELSE 0
      /\ Cardinality(Placed) = IF spc[s] \in {"write", "release"} THEN 1 ELSE 0
  BY OneSender
<1>5. spc[s] \in {"write", "release"} => m_writer_index - 1 = m_reader_index + n
  BY <1>1, <1>4 DEF Inv, Ahead, n, TypeOK
<1>6. /\ spc[s] \in {"reserve", "write", "release"} => n < Size
      /\ spc[s] = "acquire" /\ m_semaphore_space = 0 => n >= Size - 1
  BY <1>1, <1>4, SizesAssumption DEF Inv, Accounted, n, TypeOK
<1> QED BY <1>1, <1>3, <1>5, <1>6 DEF n

\* Less than a round apart means at different places.
LEMMA SameRound ==
  ASSUME NEW a \in Nat, NEW b \in Nat, a < b, b - a < Size
  PROVE  a % Size # b % Size
<1> USE SizesAssumption
<1>1. PICK x \in Int : x = a \div Size
  OBVIOUS
<1>2. PICK y \in Int : y = b \div Size
  OBVIOUS
<1>3. a = Size * x + (a % Size) /\ b = Size * y + (b % Size) /\ a % Size \in Int /\ b % Size \in Int
  BY <1>1, <1>2
<1>4. ASSUME a % Size = b % Size PROVE FALSE
  <2>1. b - a = Size * y - Size * x
    BY <1>3, <1>4
  <2>2. PICK d \in Int : d = y - x
    OBVIOUS
  <2>3. b - a = Size * d
    BY <2>1, <2>2
  <2>4. CASE d <= 0
    <3>1. Size * d <= 0
      BY <2>4
    <3> QED BY <2>3, <3>1
  <2>5. CASE d >= 1
    <3>1. Size * d >= Size
      BY <2>5
    <3> QED BY <2>3, <3>1
  <2> QED BY <2>4, <2>5
<1> QED BY <1>4

LEMMA OneInit == ASSUME NEW s, Senders = {s}, Init PROVE OneInv(s)
BY DEF Init, OneInv

LEMMA OneStep ==
  ASSUME NEW s, Senders = {s}, Inv, OneInv(s), [Next]_vars
  PROVE  OneInv(s)'
<1>0. /\ TypeOK /\ s \in Senders /\ m_writer_index \in Nat
      /\ spc \in [{s} -> {"idle", "acquire", "reserve", "write", "release"}]
      /\ sval \in [{s} -> Actions] /\ sidx \in [{s} -> Places] /\ m_data \in [Places -> Actions]
  BY DEF Inv, TypeOK
<1>1. ASSUME UNCHANGED <<spc, sval, sidx, m_data, m_writer_index>> PROVE OneInv(s)'
  BY <1>1 DEF OneInv
<1>2. ASSUME NEW a \in Values, Send(s, a) PROVE OneInv(s)'
  BY <1>0, <1>2 DEF Send, OneInv
<1>3. CASE Acquire(s) \/ GiveUp(s)
  BY <1>0, <1>3 DEF Acquire, GiveUp, OneInv
<1>4. CASE Reserve(s)
  BY <1>0, <1>4 DEF Reserve, OneInv
<1>5. CASE Write(s)
  BY <1>0, <1>5 DEF Write, OneInv
<1>6. CASE Release(s)
  BY <1>0, <1>6 DEF Release, OneInv
<1>7. ASSUME notifyExit \/ Receiver PROVE UNCHANGED <<spc, sval, sidx, m_data, m_writer_index>>
  BY <1>7 DEF notifyExit, Receiver, Test, WaitData, WaitTimeout, Copy, FreePlace, memVars, sendVars
<1>8. CASE UNCHANGED vars
  BY <1>1, <1>8 DEF vars
<1> QED BY <1>1, <1>2, <1>3, <1>4, <1>5, <1>6, <1>7, <1>8 DEF Next, Sender

\* Every step of a thread is a step of the queue, or changes nothing of it.
LEMMA QueueStep ==
  ASSUME NEW s, Senders = {s}, Inv, Inv', OneInv(s), [Next]_vars
  PROVE  [Queue!Next]_(Queue!vars)
<1> DEFINE n == m_semaphore_data + (IF rpc = "copy" THEN 1 ELSE 0)
           pending == Cardinality({t \in Senders : spc[t] # "idle"})
<1>0. /\ TypeOK /\ s \in Senders /\ OneInv(s)
      /\ spc \in [{s} -> {"idle", "acquire", "reserve", "write", "release"}]
      /\ sidx \in [{s} -> Places] /\ m_data \in [Places -> Actions]
  BY DEF Inv, TypeOK
<1>1. /\ pending = IF spc[s] # "idle" THEN 1 ELSE 0
      /\ pending' = IF spc'[s] # "idle" THEN 1 ELSE 0
  <2>1. pending = IF spc[s] # "idle" THEN 1 ELSE 0
    BY OneSender
  <2>2. /\ {t \in Senders : spc'[t] # "idle"} = IF spc'[s] # "idle" THEN {s} ELSE {}
        /\ Cardinality({}) = 0 /\ Cardinality({s}) = 1
    BY FS_EmptySet, FS_Singleton
  <2> QED BY <2>1, <2>2
<1>2. /\ n \in Nat /\ m_reader_index \in Nat /\ m_writer_index \in Nat
      /\ Announced = [i \in 1 .. n |-> m_data[(m_reader_index + i - 1) % Size]]
      /\ Announced \in Seq(Actions) /\ Len(Announced) = n
      /\ spc[s] \in {"write", "release"} => m_writer_index - 1 = m_reader_index + n
      /\ spc[s] \in {"reserve", "write", "release"} => n < Size
      /\ spc[s] = "acquire" /\ m_semaphore_space = 0 => n >= Size - 1
  BY AnnouncedSize
<1>3. Announced' = [i \in 1 .. n' |-> m_data'[(m_reader_index' + i - 1) % Size]]
  BY DEF Announced
<1> HIDE DEF n, pending
<1>4. ASSUME n' = n, UNCHANGED <<m_data, m_reader_index>> PROVE Announced' = Announced
  BY <1>2, <1>3, <1>4
<1>5. ASSUME UNCHANGED <<pending, Announced, v, m_event_exit>> PROVE UNCHANGED Queue!vars
  BY <1>5 DEF Queue!vars, pending
<1>6. ASSUME NEW a \in Values, Send(s, a) PROVE Queue!Next
  <2>1. Announced' = Announced
    BY <1>4, <1>6 DEF Send, memVars, semVars, n
  <2>2. pending' = pending + 1
    BY <1>0, <1>1, <1>6 DEF Send
  <2> QED BY <1>6, <2>1, <2>2 DEF Send, Queue!Next, Queue!Offer, pending
<1>7. CASE Acquire(s) \/ Reserve(s)
  <2>1. Announced' = Announced
    BY <1>4, <1>7 DEF Acquire, Reserve, memVars, semVars, n
  <2>2. pending' = pending /\ UNCHANGED <<v, m_event_exit>>
    BY <1>0, <1>1, <1>7 DEF Acquire, Reserve
  <2> QED BY <1>5, <2>1, <2>2
<1>8. CASE GiveUp(s)
  <2>1. Announced' = Announced /\ Len(Announced) >= Size - 1
    BY <1>2, <1>4, <1>8 DEF GiveUp, memVars, semVars, n
  <2>2. pending > 0 /\ pending' = pending - 1
    BY <1>0, <1>1, <1>8 DEF GiveUp
  <2> QED BY <1>8, <2>1, <2>2 DEF GiveUp, Queue!Next, Queue!Lose, pending
<1>9. CASE Write(s)
  <2>1. /\ sidx[s] = (m_writer_index - 1) % Size /\ m_writer_index - 1 = m_reader_index + n
        /\ n < Size /\ n' = n /\ m_reader_index' = m_reader_index
        /\ m_data' = [m_data EXCEPT ![sidx[s]] = sval[s]]
    BY <1>0, <1>2, <1>9 DEF Write, OneInv, semVars, n
  <2>2. ASSUME NEW i \in 1 .. n
        PROVE  m_data'[(m_reader_index + i - 1) % Size] = m_data[(m_reader_index + i - 1) % Size]
    <3>1. (m_reader_index + i - 1) % Size # (m_reader_index + n) % Size
      <4>0. i \in 1 .. n /\ n \in Nat /\ m_reader_index \in Nat /\ n < Size
        BY <1>2, <2>1
      <4>1. /\ m_reader_index + i - 1 \in Nat /\ m_reader_index + n \in Nat
            /\ m_reader_index + i - 1 < m_reader_index + n
            /\ (m_reader_index + n) - (m_reader_index + i - 1) < Size
        BY <4>0, SizesAssumption
      <4> QED BY <4>1, SameRound
    <3> QED BY <1>0, <2>1, <3>1
  <2>3. Announced' = Announced
    BY <1>2, <1>3, <2>1, <2>2
  <2>4. pending' = pending /\ UNCHANGED <<v, m_event_exit>>
    BY <1>0, <1>1, <1>9 DEF Write
  <2> QED BY <1>5, <2>3, <2>4
<1>10. CASE Release(s)
  <2>1. /\ m_writer_index - 1 = m_reader_index + n /\ n < Size
        /\ m_data[(m_reader_index + n) % Size] = sval[s] /\ sval[s] \in Values
    BY <1>0, <1>2, <1>10 DEF Release, OneInv
  <2>2. n' = n + 1 /\ UNCHANGED <<m_data, m_reader_index, v, m_event_exit>>
    BY <1>2, <1>0, <1>10 DEF Release, memVars, n, TypeOK
  <2>3. Announced' = Append(Announced, sval[s])
    <3>1. /\ DOMAIN Announced' = 1 .. n + 1 /\ DOMAIN Append(Announced, sval[s]) = 1 .. n + 1
          /\ Announced' = [i \in 1 .. n + 1 |-> Announced'[i]]
          /\ Append(Announced, sval[s]) = [i \in 1 .. n + 1 |-> Append(Announced, sval[s])[i]]
      BY <1>2, <1>3, <2>2
    <3>2. ASSUME NEW i \in 1 .. n + 1 PROVE Announced'[i] = Append(Announced, sval[s])[i]
      <4>1. CASE i = n + 1
        BY <1>2, <1>3, <2>1, <2>2, <4>1
      <4>2. CASE i \in 1 .. n
        BY <1>2, <1>3, <2>2, <4>2
      <4> QED BY <1>2, <4>1, <4>2
    <3> QED BY <3>1, <3>2
  <2>4. pending > 0 /\ pending' = pending - 1
    BY <1>0, <1>1, <1>10 DEF Release
  <2>5. Len(Announced) < Size
    BY <1>2, <2>1
  <2> QED BY <2>1, <2>2, <2>3, <2>4, <2>5 DEF Queue!Next, Queue!Put, pending
<1>11. CASE notifyExit
  <2>1. Announced' = Announced /\ pending' = pending
    BY <1>1, <1>4, <1>11 DEF notifyExit, memVars, semVars, sendVars, n
  <2> QED BY <1>11, <2>1 DEF notifyExit, Queue!Next, Queue!Ask, pending
<1>12. ASSUME Receiver PROVE pending' = pending
  BY <1>1, <1>12 DEF Receiver, Test, WaitData, WaitTimeout, Copy, FreePlace, sendVars
<1>13. CASE Test
  <2>1. Announced' = Announced /\ pending' = pending
    BY <1>4, <1>12, <1>13 DEF Receiver, Test, memVars, semVars, n
  <2>2. CASE m_event_exit
    BY <1>13, <2>1, <2>2 DEF Test, Queue!Next, Queue!Stop, pending
  <2>3. CASE ~m_event_exit
    BY <1>5, <1>13, <2>1, <2>3 DEF Test
  <2> QED BY <2>2, <2>3
<1>14. CASE WaitData \/ WaitTimeout \/ FreePlace
  <2>1. n' = n
    BY <1>0, <1>14, SizesAssumption DEF WaitData, WaitTimeout, FreePlace, n, TypeOK, semVars
  <2>2. UNCHANGED <<m_data, m_reader_index, v, m_event_exit>>
    BY <1>14 DEF WaitData, WaitTimeout, FreePlace, memVars
  <2> QED BY <1>4, <1>5, <1>12, <1>14, <2>1, <2>2 DEF Receiver
<1>15. CASE Copy
  <2>1. n >= 1 /\ n' = n - 1 /\ m_reader_index' = m_reader_index + 1
        /\ UNCHANGED <<m_data, m_event_exit>> /\ v' = m_data[m_reader_index % Size]
    BY <1>0, <1>15 DEF Copy, n, TypeOK, semVars
  <2>2. Announced # <<>> /\ v' = Head(Announced)
    BY <1>2, <2>1
  <2>3. Announced' = Tail(Announced)
    <3>1. /\ DOMAIN Announced' = 1 .. n - 1 /\ DOMAIN Tail(Announced) = 1 .. n - 1
          /\ Announced' = [i \in 1 .. n - 1 |-> Announced'[i]]
          /\ Tail(Announced) = [i \in 1 .. n - 1 |-> Tail(Announced)[i]]
      BY <1>2, <1>3, <2>1
    <3>2. ASSUME NEW i \in 1 .. n - 1 PROVE Announced'[i] = Tail(Announced)[i]
      <4>1. Tail(Announced)[i] = Announced[i + 1] /\ i + 1 \in 1 .. n
        BY <1>2, <2>1
      <4>2. m_reader_index + 1 + i - 1 = m_reader_index + (i + 1) - 1
        BY <1>2
      <4> QED BY <1>2, <1>3, <2>1, <4>1, <4>2
    <3> QED BY <3>1, <3>2
  <2> QED BY <1>12, <1>15, <2>1, <2>2, <2>3 DEF Receiver, Queue!Next, Queue!Get, pending
<1>16. CASE UNCHANGED vars
  <2>1. Announced' = Announced /\ pending' = pending
    BY <1>1, <1>4, <1>16 DEF vars, n
  <2> QED BY <1>5, <1>16, <2>1 DEF vars
<1> QED BY <1>6, <1>7, <1>8, <1>9, <1>10, <1>11, <1>13, <1>14, <1>15, <1>16
        DEF Next, Sender, Receiver

\* For every size of the ring: with one sending thread the two semaphores and
\* the two running indices make a queue that delivers once and in order and
\* loses an action only when it is full (but for the place being given back).
THEOREM RingIsAQueue ==
  ASSUME NEW s, Senders = {s}
  PROVE  Spec => QueueSpec
<1>1. Init => Queue!Init
  <2> SUFFICES ASSUME Init PROVE Queue!Init
    OBVIOUS
  <2>1. {t \in Senders : spc[t] # "idle"} = {} /\ Cardinality({}) = 0
    BY FS_EmptySet DEF Init
  <2>2. Announced = <<>>
    BY DEF Init, Announced
  <2> QED BY <2>1, <2>2 DEF Init, Queue!Init
<1>2. Init => Inv /\ OneInv(s)
  BY InitInv, OneInit
<1>3. Inv /\ OneInv(s) /\ [Next]_vars => Inv' /\ OneInv(s)' /\ [Queue!Next]_(Queue!vars)
  BY StepInv, OneStep, QueueStep
<1> QED BY <1>1, <1>2, <1>3, PTL DEF Spec, QueueSpec, Queue!Spec
=============================================================================
