------------------------- MODULE GeeContextProofs -------------------------
(***************************************************************************)
(* The chain of handlers of a request in Gee, for every length of it: in   *)
(* which order handlers are called whatever they do, and where a panic     *)
(* ends with the handlers of the package.                                  *)
(***************************************************************************)
EXTENDS GeeContext, TLAPS

USE ZenonT(30)

LEMMA SeqFacts ==
  ASSUME NEW S, NEW s \in Seq(S)
  PROVE  /\ Len(s) \in Nat /\ DOMAIN s = 1..Len(s) /\ (s = <<>> <=> Len(s) = 0)
         /\ \A i \in 1..Len(s) : s[i] \in S
BY SMTT(30)

(* Any chain: handlers make any calls, Next among them. *)
AnyChain == handlers \in Seq([name : STRING, calls : Seq(STRING)])
AnySpec == AnyChain /\ newContext /\ [][Next]_vars

N == Len(handlers)

InLoop == ~ panicking /\ stack # <<>> /\ Top = 0
InHandler == stack # <<>> /\ Top # 0

Types ==
  /\ AnyChain
  /\ index \in Int /\ index >= -1 /\ (stack # <<>> => index >= 0)
  /\ stack \in Seq(0..N) /\ started \in Seq(1..N) /\ raised \in Seq(1..N)
  /\ DOMAIN pc = 1..N /\ \A h \in 1..N : pc[h] \in Nat
  /\ panicking => raised # <<>>

(* Loops of Next and handlers alternate on the stack. *)
Alternate ==
  /\ stack # <<>> => stack[1] = 0
  /\ \A i \in 1..(Len(stack) - 1) : stack[i] = 0 <=> stack[i + 1] # 0

(* Handlers were called in order, up to the one that index says. *)
Ordered == \A i, j \in 1..Len(started) : i < j => started[i] < started[j]
Bounded == \A i \in 1..Len(started) : started[i] <= index + 1 /\ (InLoop => started[i] <= index)

(* All of them up to there were called, while nothing went wrong. *)
Upto(s, k, n) == (k <= n /\ Len(s) = k) \/ (k >= n /\ Len(s) = n)
Complete ==
  ~ failed /\ raised = <<>> =>
    /\ InLoop => Upto(started, index, N)
    /\ InHandler => Upto(started, index + 1, N)
    /\ Ended => Len(started) = N
    /\ index = -1 => Len(started) = 0

FailEnds == failed => index >= N

Inv == Types /\ Alternate /\ Ordered /\ Bounded /\ Complete /\ FailEnds

-----------------------------------------------------------------------------
(* The shapes of the steps. *)
Same == UNCHANGED <<handlers, started, failed, panicking, raised, StatusCode, sent, logged>>

EntersNext ==
  /\ index' = index + 1 /\ stack' = Append(stack, 0) /\ Same
  /\ \/ index = -1 /\ stack = <<>> /\ pc' = pc
     \/ ~ panicking /\ InHandler /\ Running("next") /\ Advance
Pops ==
  /\ stack # <<>> /\ stack' = Callers /\ pc' = pc /\ Same
  /\ \/ InLoop /\ index >= N /\ index' = index
     \/ ~ panicking /\ InHandler /\ pc[Top] = Len(handlers[Top].calls) /\ index' = index + 1
     \/ panicking /\ ~ IsRecovery(Top) /\ index' = index
Works ==
  /\ ~ panicking /\ InHandler /\ stack' = stack /\ Advance
  /\ UNCHANGED <<handlers, started>>
  /\ ~ Running("next") /\ pc[Top] < Len(handlers[Top].calls)
  /\ logged' = (IF Running("log") THEN logged \cup {Top} ELSE logged)
  /\ \/ index' = index /\ failed' = failed /\ UNCHANGED <<panicking, raised>>
     \/ index' = N /\ failed' = TRUE /\ UNCHANGED <<panicking, raised>>
     \/ index' = index /\ failed' = failed /\ panicking' = TRUE /\ raised' = Append(raised, Top)

LEMMA Shapes ==
  ASSUME Next
  PROVE  \/ EntersNext \/ LoopCalls \/ Pops \/ Recovers
         \/ Works /\ (Responds \/ HTML \/ Fails \/ Logs \/ Panics)
<1> USE DEF InHandler, InLoop, Same, N
<1>1. CASE handle \/ NextCalled
  BY <1>1 DEF handle, NextCalled, Next0, Running, EntersNext
<1>2. CASE LoopEnds \/ HandlerReturns \/ Unwind
  BY <1>2 DEF LoopEnds, HandlerReturns, Unwind, Pops
<1>3. CASE Responds
  BY <1>3 DEF Responds, Running, Works
<1>4. CASE Logs
  BY <1>4 DEF Logs, Running, Works
<1>5. CASE Panics
  BY <1>5 DEF Panics, Running, Works
<1>6. CASE Fails
  BY <1>6 DEF Fails, Fail, Running, Works
<1>7. CASE HTML
  BY <1>7 DEF HTML, Running, Works
<1> QED
  BY <1>1, <1>2, <1>3, <1>4, <1>5, <1>6, <1>7 DEF Next

(* The stack when a frame comes, or goes. *)
LEMMA Pushed ==
  ASSUME stack \in Seq(0..N), NEW h \in 0..N, stack' = Append(stack, h)
  PROVE  /\ stack' \in Seq(0..N) /\ Len(stack') = Len(stack) + 1 /\ Len(stack) \in Nat /\ stack'[Len(stack) + 1] = h
         /\ stack' # <<>> /\ Top' = h /\ \A i \in 1..Len(stack) : stack'[i] = stack[i]
BY SMTT(30) DEF Top

LEMMA Initial ==
  ASSUME NEW S, NEW s \in Seq(S), NEW n \in Nat, n <= Len(s)
  PROVE  /\ SubSeq(s, 1, n) \in Seq(S) /\ Len(SubSeq(s, 1, n)) = n
         /\ \A i \in 1..n : SubSeq(s, 1, n)[i] = s[i]
<1>1. SubSeq(s, 1, n) \in Seq(S)
  BY SMTT(30)
<1>2. Len(SubSeq(s, 1, n)) = n
  BY SMTT(30)
<1>3. \A i \in 1..n : SubSeq(s, 1, n)[i] = s[i]
  BY SMTT(30)
<1> QED
  BY <1>1, <1>2, <1>3

LEMMA Popped ==
  ASSUME stack \in Seq(0..N), stack # <<>>, stack' = Callers
  PROVE  /\ stack' \in Seq(0..N) /\ Len(stack') = Len(stack) - 1 /\ Len(stack') \in Nat /\ Len(stack) \in Nat
         /\ \A i \in 1..Len(stack') : stack'[i] = stack[i]
         /\ Top = stack[Len(stack)] /\ Len(stack) > 0
         /\ stack' # <<>> => Len(stack') > 0 /\ Top' = stack[Len(stack) - 1]
         /\ stack' = <<>> => Len(stack) = 1
<1> DEFINE S == 0..N
           n == Len(stack) - 1
<1>1. Len(stack) \in Nat /\ Len(stack) # 0
  BY SeqFacts
<1>2. Len(stack) > 0 /\ n \in Nat /\ n <= Len(stack) /\ n = Len(stack) - 1
  BY <1>1, SMTT(30)
<1>3. stack \in Seq(S) /\ stack' = SubSeq(stack, 1, n)
  BY DEF Callers
<1> HIDE DEF S, n
<1>4. stack' \in Seq(S) /\ Len(stack') = n /\ \A i \in 1..n : stack'[i] = stack[i]
  <2>1. /\ SubSeq(stack, 1, n) \in Seq(S) /\ Len(SubSeq(stack, 1, n)) = n
        /\ \A i \in 1..n : SubSeq(stack, 1, n)[i] = stack[i]
    BY <1>2, <1>3, Initial
  <2> QED
    BY <1>3, <2>1
<1>5. stack' = <<>> <=> n = 0
  BY <1>4, SeqFacts
<1>6. n # 0 => n > 0 /\ n \in 1..n
  BY <1>2, SMTT(30)
<1>7. n = 0 => Len(stack) = 1
  BY <1>1, <1>2, SMTT(30)
<1> QED
  BY <1>1, <1>2, <1>4, <1>5, <1>6, <1>7 DEF Top, S

-----------------------------------------------------------------------------
(* The invariant is preserved. *)

LEMMA EntersInv == ASSUME Inv, EntersNext PROVE Inv'
<1>0. /\ index \in Int /\ index >= -1 /\ stack \in Seq(0..N) /\ 0 \in 0..N /\ N \in Nat /\ N' = N
      /\ started' = started /\ raised' = raised /\ failed' = failed /\ handlers' = handlers /\ panicking' = panicking
      /\ started \in Seq(1..N) /\ Len(started) \in Nat
  BY SMTT(30) DEF Inv, Types, AnyChain, EntersNext, Same, N
<1>1. /\ stack' \in Seq(0..N) /\ Len(stack') = Len(stack) + 1 /\ Len(stack) \in Nat /\ stack'[Len(stack) + 1] = 0
      /\ stack' # <<>> /\ Top' = 0 /\ \A i \in 1..Len(stack) : stack'[i] = stack[i]
  BY <1>0, Pushed DEF EntersNext
<1>2. index' = index + 1 /\ index' \in Int /\ index' >= 0 /\ index' >= -1
  BY <1>0, SMTT(30) DEF EntersNext
<1>3. DOMAIN pc' = 1..N /\ \A h \in 1..N : pc'[h] \in Nat
  <2>1. CASE Advance
    BY <2>1, SMTT(30) DEF Inv, Types, Advance
  <2> QED
    BY <2>1 DEF EntersNext, Inv, Types
<1>4. Types'
  BY <1>0, <1>1, <1>2, <1>3 DEF Inv, Types, AnyChain
<1>5. Alternate'
  <2>1. stack'[1] = 0
    <3>1. CASE Len(stack) = 0
      BY <1>1, <3>1, SMTT(30)
    <3>2. CASE Len(stack) > 0
      <4>1. 1 \in 1..Len(stack) /\ stack # <<>>
        BY <1>0, <1>1, <3>2, SMTT(30)
      <4> QED
        BY <1>1, <4>1 DEF Inv, Alternate
    <3> QED
      BY <1>1, <3>1, <3>2, SMTT(30)
  <2>2. ASSUME NEW i \in 1..(Len(stack') - 1) PROVE stack'[i] = 0 <=> stack'[i + 1] # 0
    <3>1. CASE i = Len(stack)
      <4>1. stack # <<>> /\ i \in 1..Len(stack)
        BY <1>0, <1>1, <3>1, SMTT(30)
      <4>2. stack[i] # 0
        BY <3>1, <4>1, <1>0, SMTT(30) DEF EntersNext, InHandler, Top
      <4> QED
        BY <1>1, <3>1, <4>1, <4>2
    <3>2. CASE i # Len(stack)
      <4>1. i \in 1..(Len(stack) - 1) /\ i \in 1..Len(stack) /\ i + 1 \in 1..Len(stack)
        BY <1>1, <3>2, SMTT(30)
      <4> QED
        BY <1>1, <4>1 DEF Inv, Alternate
    <3> QED
      BY <3>1, <3>2
  <2> QED
    BY <2>1, <2>2 DEF Alternate
<1>6. Ordered'
  BY <1>0 DEF Inv, Ordered
<1>7. Bounded'
  <2>1. \A i \in 1..Len(started) : started[i] <= index + 1 /\ started[i] \in Int
    BY <1>0, SMTT(30) DEF Inv, Bounded
  <2> QED
    BY <1>0, <1>2, <2>1, SMTT(30) DEF Bounded
<1>8. Complete'
  <2>1. ~ failed /\ raised = <<>> => Upto(started, index + 1, N)
    BY <1>0, SMTT(30) DEF Inv, Complete, Upto, EntersNext
  <2>2. ~ (index' = -1) /\ ~ Ended' /\ ~ InHandler'
    BY <1>1, <1>2, SMTT(30) DEF Ended, InHandler
  <2> QED
    BY <1>0, <1>2, <2>1, <2>2 DEF Complete, Upto
<1>9. FailEnds'
  BY <1>0, <1>2, SMTT(30) DEF Inv, FailEnds
<1> QED
  BY <1>4, <1>5, <1>6, <1>7, <1>8, <1>9 DEF Inv

LEMMA CallsInv == ASSUME Inv, LoopCalls PROVE Inv'
<1> DEFINE h == index + 1
<1>0. /\ stack \in Seq(0..N) /\ N \in Nat /\ N' = N /\ started \in Seq(1..N)
      /\ raised' = raised /\ failed' = failed /\ handlers' = handlers /\ panicking' = panicking /\ index' = index
      /\ index \in Int /\ index >= 0 /\ index < N /\ ~ panicking /\ stack # <<>> /\ Top = 0 /\ InLoop
      /\ stack' = Append(stack, h) /\ started' = Append(started, h) /\ pc' = [pc EXCEPT ![h] = 0]
  BY SMTT(30) DEF Inv, Types, AnyChain, LoopCalls, InLoop, N
<1>1. h \in 1..N /\ h \in 0..N /\ h # 0 /\ h \in Nat /\ h <= N
  BY <1>0, SMTT(30)
<1>2. /\ stack' \in Seq(0..N) /\ Len(stack') = Len(stack) + 1 /\ Len(stack) \in Nat /\ stack'[Len(stack) + 1] = h
      /\ stack' # <<>> /\ Top' = h /\ \A i \in 1..Len(stack) : stack'[i] = stack[i]
  BY <1>0, <1>1, Pushed
<1>3. /\ started' \in Seq(1..N) /\ Len(started') = Len(started) + 1 /\ Len(started) \in Nat /\ started'[Len(started) + 1] = h
      /\ \A i \in 1..Len(started) : started'[i] = started[i]
  BY <1>0, <1>1, SMTT(30)
<1>4. Types'
  <2>1. DOMAIN pc' = 1..N /\ \A g \in 1..N : pc'[g] \in Nat
    BY <1>0, <1>1, SMTT(30) DEF Inv, Types
  <2> QED
    BY <1>0, <1>2, <1>3, <2>1 DEF Inv, Types, AnyChain
<1>5. Alternate'
  <2>1. 1 \in 1..Len(stack) /\ Len(stack) \in 1..Len(stack)
    BY <1>0, <1>2, SMTT(30)
  <2>2. stack'[1] = 0
    BY <1>0, <1>2, <2>1 DEF Inv, Alternate
  <2>3. ASSUME NEW i \in 1..(Len(stack') - 1) PROVE stack'[i] = 0 <=> stack'[i + 1] # 0
    <3>1. CASE i = Len(stack)
      BY <1>0, <1>1, <1>2, <2>1, <3>1 DEF Top
    <3>2. CASE i # Len(stack)
      <4>1. i \in 1..(Len(stack) - 1) /\ i \in 1..Len(stack) /\ i + 1 \in 1..Len(stack)
        BY <1>2, <3>2, SMTT(30)
      <4> QED
        BY <1>2, <4>1 DEF Inv, Alternate
    <3> QED
      BY <3>1, <3>2
  <2> QED
    BY <2>2, <2>3 DEF Alternate
<1>6. \A i \in 1..Len(started) : started[i] < h /\ started[i] \in Int
  BY <1>0, <1>3, SMTT(30) DEF Inv, Bounded
<1>7. Ordered'
  <2> SUFFICES ASSUME NEW i \in 1..Len(started'), NEW j \in 1..Len(started'), i < j
               PROVE  started'[i] < started'[j]
    BY DEF Ordered
  <2>1. i \in 1..Len(started)
    BY <1>3, SMTT(30)
  <2>2. CASE j = Len(started) + 1
    BY <1>3, <1>6, <2>1, <2>2
  <2>3. CASE j # Len(started) + 1
    <3>1. j \in 1..Len(started)
      BY <1>3, <2>3, SMTT(30)
    <3> QED
      BY <1>3, <2>1, <3>1 DEF Inv, Ordered
  <2> QED
    BY <2>2, <2>3
<1>8. Bounded'
  <2>1. ~ InLoop'
    BY <1>1, <1>2 DEF InLoop
  <2>2. \A i \in 1..Len(started') : started'[i] <= index + 1
    BY <1>0, <1>3, <1>6, SMTT(30)
  <2> QED
    BY <1>0, <2>1, <2>2 DEF Bounded
<1>9. Complete'
  <2>1. ~ failed /\ raised = <<>> => Len(started) = index
    BY <1>0, <1>3, SMTT(30) DEF Inv, Complete, Upto
  <2>2. ~ (index' = -1) /\ ~ Ended' /\ ~ InLoop'
    BY <1>0, <1>1, <1>2, SMTT(30) DEF Ended, InLoop
  <2>3. ~ failed /\ raised = <<>> => Len(started') = index + 1
    BY <1>3, <2>1
  <2> QED
    BY <1>0, <1>1, <2>2, <2>3 DEF Complete, Upto
<1>10. FailEnds'
  BY <1>0 DEF Inv, FailEnds
<1> QED
  BY <1>4, <1>5, <1>7, <1>8, <1>9, <1>10 DEF Inv


LEMMA PopsInv == ASSUME Inv, Pops PROVE Inv'
<1>0. /\ stack \in Seq(0..N) /\ stack # <<>> /\ stack' = Callers /\ N \in Nat /\ N' = N /\ index \in Int /\ index >= 0
      /\ started' = started /\ raised' = raised /\ failed' = failed /\ handlers' = handlers /\ panicking' = panicking
      /\ started \in Seq(1..N) /\ Len(started) \in Nat /\ pc' = pc
      /\ index' \in Int /\ index' >= index /\ index' >= 0
  BY SMTT(30) DEF Inv, Types, AnyChain, Pops, Same, N
<1>1. /\ stack' \in Seq(0..N) /\ Len(stack') = Len(stack) - 1 /\ Len(stack') \in Nat /\ Len(stack) \in Nat
      /\ \A i \in 1..Len(stack') : stack'[i] = stack[i]
      /\ Top = stack[Len(stack)] /\ Len(stack) > 0
      /\ stack' # <<>> => Len(stack') > 0 /\ Top' = stack[Len(stack) - 1]
      /\ stack' = <<>> => Len(stack) = 1
  BY <1>0, Popped
<1>2. Types'
  <2>1. index' >= -1
    BY <1>0, SMTT(30)
  <2> QED
    BY <1>0, <1>1, <2>1 DEF Inv, Types, AnyChain
<1>3. Alternate'
  <2>1. stack' # <<>> => stack'[1] = 0
    <3>1. stack' # <<>> => 1 \in 1..Len(stack')
      BY <1>1, SMTT(30)
    <3> QED
      BY <1>0, <1>1, <3>1 DEF Inv, Alternate
  <2>2. ASSUME NEW i \in 1..(Len(stack') - 1) PROVE stack'[i] = 0 <=> stack'[i + 1] # 0
    <3>1. i \in 1..(Len(stack) - 1) /\ i \in 1..Len(stack') /\ i + 1 \in 1..Len(stack')
      BY <1>1, SMTT(30)
    <3> QED
      BY <1>1, <3>1 DEF Inv, Alternate
  <2> QED
    BY <2>1, <2>2 DEF Alternate
<1>4. Ordered'
  BY <1>0 DEF Inv, Ordered
<1>5. /\ stack' # <<>> => (Top' = 0 <=> Top # 0)
      /\ stack' = <<>> => Top = 0
  <2>1. stack' # <<>> => Len(stack) - 1 \in 1..(Len(stack) - 1) /\ (Len(stack) - 1) + 1 = Len(stack)
    BY <1>1, SMTT(30)
  <2>2. stack' # <<>> => (Top' = 0 <=> Top # 0)
    BY <1>1, <2>1 DEF Inv, Alternate
  <2>3. stack' = <<>> => Top = 0
    BY <1>0, <1>1 DEF Inv, Alternate
  <2> QED
    BY <2>2, <2>3
<1>6. Bounded'
  <2> SUFFICES ASSUME NEW i \in 1..Len(started)
               PROVE  started[i] <= index' + 1 /\ (InLoop' => started[i] <= index')
    BY <1>0 DEF Bounded
  <2>1. started[i] \in Int /\ started[i] <= index + 1
    BY <1>0, SMTT(30) DEF Inv, Bounded
  <2>2. InLoop' => index' = index + 1
    BY <1>0, <1>5 DEF Pops, InLoop, InHandler
  <2> QED
    BY <1>0, <2>1, <2>2, SMTT(30)
<1>7. Complete'
  <2> SUFFICES ASSUME ~ failed, raised = <<>>
               PROVE  /\ InLoop' => Upto(started, index', N)
                      /\ InHandler' => Upto(started, index' + 1, N)
                      /\ Ended' => Len(started) = N
    <3>1. ~ (index' = -1)
      BY <1>0, SMTT(30)
    <3> QED
      BY <1>0, <3>1 DEF Complete
  <2>0. ~ panicking
    BY DEF Inv, Types
  <2>1. CASE InLoop /\ index >= N /\ index' = index
    <3>0. Upto(started, index, N)
      BY <2>1 DEF Inv, Complete
    <3>1. Len(started) = N
      BY <1>0, <2>1, <3>0, SMTT(30) DEF Upto
    <3>2. index' + 1 >= N /\ index' >= N
      BY <1>0, <2>1, SMTT(30)
    <3> QED
      BY <1>0, <3>1, <3>2 DEF Upto
  <2>2. CASE InHandler /\ index' = index + 1
    <3>1. Upto(started, index + 1, N)
      BY <2>2 DEF Inv, Complete
    <3>2. ~ InHandler' /\ ~ Ended'
      BY <1>5, <2>2 DEF InHandler, Ended
    <3> QED
      BY <1>0, <2>2, <3>1, <3>2 DEF Upto
  <2> QED
    BY <2>0, <2>1, <2>2 DEF Pops
<1>8. FailEnds'
  BY <1>0, SMTT(30) DEF Inv, FailEnds
<1> QED
  BY <1>2, <1>3, <1>4, <1>6, <1>7, <1>8 DEF Inv

(* The steps that leave the stack as it is. *)
LEMMA StaysInv ==
  ASSUME Inv, Works \/ Recovers
  PROVE  Inv'
<1>0. /\ stack \in Seq(0..N) /\ stack # <<>> /\ N \in Nat /\ index \in Int /\ index >= 0
      /\ started \in Seq(1..N) /\ Len(started) \in Nat /\ raised \in Seq(1..N) /\ AnyChain
      /\ DOMAIN pc = 1..N /\ \A h \in 1..N : pc[h] \in Nat
  BY SMTT(30) DEF Inv, Types, AnyChain, Works, Recovers, InHandler, N
<1>1. /\ stack' = stack /\ handlers' = handlers /\ started' = started /\ InHandler /\ Top' = Top /\ N' = N
  BY DEF Works, Recovers, IsRecovery, InHandler, Top, N
<1>2. Top \in 1..N
  <2>1. Len(stack) \in Nat /\ Len(stack) # 0
    BY <1>0, SeqFacts
  <2>2. Top \in 0..N
    BY <1>0, <2>1, SMTT(30) DEF Top
  <2> QED
    BY <1>0, <1>1, <2>2, SMTT(30) DEF InHandler
<1>3. \/ index' = index /\ (failed' <=> failed)
      \/ index' = N /\ failed'
  BY DEF Works, Recovers, Fail, N
<1>4. index' \in Int /\ index' >= -1 /\ index' >= 0
  BY <1>0, <1>3, SMTT(30)
<1>5. DOMAIN pc' = 1..N /\ \A h \in 1..N : pc'[h] \in Nat
  <2>1. CASE Advance
    BY <1>0, <1>2, <2>1, SMTT(30) DEF Advance
  <2> QED
    BY <1>0, <2>1 DEF Works, Recovers
<1>6. /\ raised' \in Seq(1..N) /\ (panicking' => raised' # <<>>) /\ (raised' = <<>> => raised = <<>>)
  <2>1. CASE raised' = Append(raised, Top)
    BY <1>0, <1>2, <2>1, SMTT(30)
  <2>2. CASE raised' = raised /\ panicking' = panicking
    BY <1>0, <2>2 DEF Inv, Types
  <2>3. CASE raised' = raised /\ panicking' = FALSE
    BY <1>0, <2>3
  <2> QED
    BY <2>1, <2>2, <2>3 DEF Works, Recovers
<1>7. Types'
  BY <1>0, <1>1, <1>4, <1>5, <1>6 DEF Types, AnyChain
<1>8. Alternate' /\ Ordered'
  BY <1>1 DEF Inv, Alternate, Ordered
<1>9. ~ InLoop' /\ InHandler' /\ ~ Ended'
  BY <1>1 DEF InLoop, InHandler, Ended
<1>10. Bounded'
  <2>1. \A i \in 1..Len(started) : started[i] \in 1..N /\ started[i] <= index + 1
    BY <1>0, SMTT(30) DEF Inv, Bounded
  <2>2. \A i \in 1..Len(started) : started[i] <= index' + 1
    BY <1>0, <1>3, <2>1, SMTT(30)
  <2> QED
    BY <1>1, <1>9, <2>2 DEF Bounded
<1>11. Complete'
  <2> SUFFICES ASSUME ~ failed', raised' = <<>>
               PROVE  Upto(started, index' + 1, N)
    <3>1. ~ (index' = -1)
      BY <1>4, SMTT(30)
    <3> QED
      BY <1>1, <1>9, <3>1 DEF Complete
  <2>1. ~ failed /\ index' = index
    BY <1>3
  <2>2. Upto(started, index + 1, N)
    BY <1>1, <1>6, <2>1 DEF Inv, Complete
  <2> QED
    BY <1>1, <2>1, <2>2 DEF Upto
<1>12. FailEnds'
  <2>1. N >= N
    BY <1>0, SMTT(30)
  <2> QED
    BY <1>1, <1>3, <2>1 DEF Inv, FailEnds
<1> QED
  BY <1>7, <1>8, <1>10, <1>11, <1>12 DEF Inv

LEMMA AnyInit == AnyChain /\ newContext => Inv
<1> SUFFICES ASSUME AnyChain, newContext PROVE Inv
  OBVIOUS
<1>1. N \in Nat /\ DOMAIN handlers = 1..N
  BY SMTT(30) DEF AnyChain, N
<1>2. /\ -1 \in Int /\ -1 >= -1 /\ <<>> \in Seq(0..N) /\ <<>> \in Seq(1..N) /\ 1..Len(<<>>) = {} /\ 1..(Len(<<>>) - 1) = {}
      /\ Len(<<>>) = 0 /\ 0 \in Nat /\ ~ (-1 >= 0)
  BY <1>1, SMTT(30)
<1>3. Types
  BY <1>1, <1>2 DEF newContext, Types
<1>4. Alternate /\ Ordered /\ Bounded /\ FailEnds
  BY <1>2 DEF newContext, Alternate, Ordered, Bounded, FailEnds
<1>5. Complete
  BY <1>2 DEF newContext, Complete, InLoop, InHandler, Ended
<1> QED
  BY <1>3, <1>4, <1>5 DEF Inv

LEMMA AnyNext == Inv /\ [Next]_vars => Inv'
<1> SUFFICES ASSUME Inv, [Next]_vars PROVE Inv'
  OBVIOUS
<1>1. CASE Next
  BY <1>1, Shapes, EntersInv, CallsInv, PopsInv, StaysInv
<1>2. CASE UNCHANGED vars
  <2>1. Types' /\ Alternate' /\ Ordered' /\ FailEnds'
    BY <1>2 DEF vars, Inv, Types, AnyChain, N, Alternate, Ordered, FailEnds
  <2>2. Bounded' /\ Complete'
    BY <1>2 DEF vars, Inv, Bounded, Complete, N, InLoop, InHandler, Ended, Upto, Top
  <2> QED
    BY <2>1, <2>2 DEF Inv
<1> QED
  BY <1>1, <1>2

LEMMA AnyInvariance == AnySpec => []Inv
  BY AnyInit, AnyNext, PTL DEF AnySpec

(* Next, called again by handlers at any time and any number of times,     *)
(* calls every handler of the chain at most once and in order, and each of *)
(* them if none fails or panics, whatever the handlers are.                *)
THEOREM AlwaysInOrderOnce == AnySpec => []InOrderOnce
<1>1. Inv => InOrderOnce
  <2> SUFFICES ASSUME Inv PROVE InOrderOnce
    OBVIOUS
  <2>1. DOMAIN started = 1..Len(started)
    BY SMTT(30) DEF Inv, Types
  <2> QED
    BY <2>1 DEF Inv, Ordered, Complete, InOrderOnce, N
<1> QED
  BY AnyInvariance, <1>1, PTL

(* Once Fail was called no loop of Next calls a handler any more. *)
THEOREM NeverAfterFail == AnySpec => NoneAfterFail
<1>1. Inv /\ [Next]_vars => [failed => started' = started]_vars
  <2> SUFFICES ASSUME Inv, Next, failed PROVE started' = started
    BY DEF vars
  <2>1. ~ LoopCalls
    <3>1. index \in Int /\ N \in Nat /\ index >= N
      BY SMTT(30) DEF Inv, Types, AnyChain, FailEnds, N
    <3>2. LoopCalls => index < N
      BY DEF LoopCalls, N
    <3> QED
      BY <3>1, <3>2, SMTT(30)
  <2> QED
    BY <2>1, Shapes DEF EntersNext, Pops, Works, Recovers, Same
<1> QED
  BY AnyInvariance, <1>1, PTL DEF AnySpec, NoneAfterFail


-----------------------------------------------------------------------------
(* A chain of Gee: middlewares, and the handler of the route. *)
GeeChain ==
  /\ AnyChain /\ N > 0
  /\ \A h \in 1..(N - 1) : handlers[h] \in Middleware
  /\ handlers[N] \in Route
GeeSpec == GeeChain /\ newContext /\ [][Next]_vars

On(h) == \E i \in 1..Len(stack) : stack[i] = h
IsLogger(h) == handlers[h].name = "Logger"
Calls(h) == handlers[h].calls

(* The handlers on the stack, in order, and none twice; the one on top     *)
(* that has made no call is the one that index says.                       *)
Increasing == \A i, j \in 1..Len(stack) : i < j /\ stack[i] # 0 /\ stack[j] # 0 => stack[i] < stack[j]
StackBound == \A i \in 1..Len(stack) : stack[i] <= index + 1 /\ (InLoop => stack[i] <= index)
Waiting == \A i \in 1..Len(stack) : stack[i] # 0 /\ (i < Len(stack) \/ panicking) => pc[stack[i]] >= 1
Fresh == ~ panicking /\ InHandler /\ pc[Top] = 0 => index = Top - 1
Order == Increasing /\ StackBound /\ Waiting /\ Fresh

(* A Next that returned has left nothing to call. *)
NextDone == ~ panicking /\ InHandler /\ index < N => \A k \in 1..pc[Top] : Calls(Top)[k] # "next"

(* A Recovery is on the stack under every later handler. *)
Guards(p) == \A r \in 1..(p - 1) : IsRecovery(r) => On(r)
Guarded ==
  /\ \A i \in 1..Len(stack) : stack[i] # 0 => Guards(stack[i])
  /\ InLoop /\ index < N => Guards(index + 1)
  /\ ~ panicking /\ InHandler /\ index < N => Guards(index + 2)

(* A panic: under way, ... *)
Raiser == raised[Len(raised)]
Raisers == {raised[i] : i \in DOMAIN raised}
Raised ==
  panicking =>
    /\ Guards(Raiser) /\ ~ IsRecovery(Raiser) /\ ~ IsLogger(Raiser)
    /\ \A i \in 1..Len(stack) : stack[i] <= Raiser
    /\ Len(Calls(Raiser)) = 1 => sent = 0

(* ... or recovered from. *)
Recovered ==
  ~ panicking /\ raised # <<>> =>
    /\ \E r \in 1..(Raiser - 1) : IsRecovery(r)
    /\ StatusCode = 500 /\ (Len(Calls(Raiser)) = 1 => sent = 500)
    /\ index >= N /\ ~ On(N)

(* Nothing is sent before the handler of the route, unless one fails. *)
Unsent == ~ panicking /\ index < N /\ (On(N) => pc[N] = 0) => sent = 0

(* A Logger that was called is running, has logged, or was passed. *)
Passed(l) == \E p \in Raisers : p > l /\ \A r \in (l + 1)..(p - 1) : ~ IsRecovery(r)
Logging ==
  /\ \A l \in 1..N : IsLogger(l) /\ pc[l] >= 2 => l \in logged
  /\ \A i \in 1..Len(started) : IsLogger(started[i]) => On(started[i]) \/ started[i] \in logged \/ Passed(started[i])

Panic == Guarded /\ Raised /\ Recovered /\ Unsent
GeeInv == GeeChain /\ Inv /\ Order /\ NextDone /\ Panic /\ Logging


LEMMA MiddlewareFacts ==
  ASSUME NEW m \in Middleware
  PROVE  /\ Len(m.calls) \in Nat
         /\ \A k \in 1..Len(m.calls) : m.calls[k] \in {"next", "log", "fail", "panic"}
         /\ m.name = "Recovery" => Len(m.calls) = 1 /\ m.calls[1] = "next"
         /\ m.name = "Logger" => Len(m.calls) = 2 /\ m.calls[1] = "next" /\ m.calls[2] = "log"
         /\ Len(m.calls) = 1 => m.calls[1] # "panic"
<1>1. CASE m = [name |-> "Logger", calls |-> <<"next", "log">>]
  BY <1>1, SMTT(30)
<1>2. CASE m = [name |-> "Recovery", calls |-> <<"next">>]
  BY <1>2, SMTT(30)
<1>3. CASE m = [name |-> "V2", calls |-> <<"log">>]
  BY <1>3, SMTT(30)
<1>4. CASE m.name = "user" /\ m.calls \in {<<"fail">>, <<"next", "next">>, <<"next", "panic">>}
  BY <1>4, SMTT(30)
<1> QED
  BY <1>1, <1>2, <1>3, <1>4 DEF Middleware, Logger, Recovery, onlyForV2, UserMiddlewares

LEMMA RouteFacts ==
  ASSUME NEW m \in Route
  PROVE  /\ m.name = "route" /\ Len(m.calls) \in Nat
         /\ \A k \in 1..Len(m.calls) : m.calls[k] \notin {"next", "log", "fail"}
<1>1. /\ m.name = "route"
      /\ m.calls \in {<<"string200">>, <<"html">>, <<"panic">>, <<"string200", "panic">>, <<"json">>}
                     \cup {<<"status404">>, <<"serveFile">>} \cup {<<"string404">>}
  BY DEF Route, UserHandlers, StaticHandler, NotFound
<1> QED
  BY <1>1, SMTT(30)

LEMMA ChainFacts ==
  ASSUME GeeChain, NEW h \in 1..N
  PROVE  /\ Len(Calls(h)) \in Nat
         /\ h # N => \A k \in 1..Len(Calls(h)) : Calls(h)[k] \in {"next", "log", "fail", "panic"}
         /\ h = N => \A k \in 1..Len(Calls(h)) : Calls(h)[k] \notin {"next", "log", "fail"}
         /\ IsRecovery(h) => h # N /\ Len(Calls(h)) = 1 /\ Calls(h)[1] = "next"
         /\ IsLogger(h) => h # N /\ Len(Calls(h)) = 2 /\ Calls(h)[1] = "next" /\ Calls(h)[2] = "log"
         /\ Len(Calls(h)) = 1 /\ Calls(h)[1] = "panic" => h = N
<1>1. CASE h # N
  <2>1. h \in 1..(N - 1)
    BY <1>1, SMTT(30) DEF GeeChain, AnyChain, N
  <2>2. handlers[h] \in Middleware
    BY <2>1 DEF GeeChain
  <2> QED
    BY <1>1, <2>2, MiddlewareFacts DEF Calls, IsRecovery, IsLogger
<1>2. CASE h = N
  BY <1>2, RouteFacts DEF GeeChain, Calls, IsRecovery, IsLogger
<1> QED
  BY <1>1, <1>2

LEMMA StackFacts ==
  ASSUME Inv
  PROVE  /\ N \in Nat /\ Len(stack) \in Nat /\ index \in Int /\ index >= -1
         /\ \A i \in 1..Len(stack) : stack[i] \in 0..N
         /\ stack # <<>> => Len(stack) \in 1..Len(stack) /\ Top = stack[Len(stack)] /\ Top \in 0..N /\ index >= 0
         /\ InHandler => Top \in 1..N /\ stack # <<>>
         /\ DOMAIN pc = 1..N /\ \A h \in 1..N : pc[h] \in Nat
<1>1. stack \in Seq(0..N) /\ N \in Nat
  BY SMTT(30) DEF Inv, Types, AnyChain, N
<1>2. Len(stack) \in Nat /\ \A i \in 1..Len(stack) : stack[i] \in 0..N
  BY <1>1, SMTT(30)
<1>3. stack # <<>> => Len(stack) # 0
  BY <1>1, SeqFacts
<1>4. stack # <<>> => Len(stack) \in 1..Len(stack)
  BY <1>2, <1>3, SMTT(30)
<1>5. stack # <<>> => Top = stack[Len(stack)] /\ Top \in 0..N
  BY <1>2, <1>4 DEF Top
<1>6. InHandler => Top \in 1..N /\ stack # <<>>
  BY <1>1, <1>5, SMTT(30) DEF InHandler
<1> QED
  BY <1>1, <1>2, <1>4, <1>5, <1>6 DEF Inv, Types

LEMMA PopFacts ==
  ASSUME Inv, Pops
  PROVE  /\ Len(stack') = Len(stack) - 1 /\ Len(stack') \in Nat
         /\ \A i \in 1..Len(stack') : stack'[i] = stack[i] /\ i \in 1..Len(stack) /\ i < Len(stack)
         /\ InHandler' => Top = 0 /\ Top' = stack[Len(stack) - 1] /\ Len(stack) - 1 \in 1..Len(stack')
         /\ InLoop' => index' = index + 1 /\ ~ panicking /\ InHandler /\ pc[Top] = Len(handlers[Top].calls)
         /\ index' >= index /\ index' \in Int
         /\ ~ panicking /\ index' < N => index' = index + 1 /\ InLoop'
<1>0. stack \in Seq(0..N) /\ stack # <<>> /\ stack' = Callers /\ (panicking' <=> panicking) /\ N' = N
  BY DEF Inv, Types, Pops, Same, N
<1>1. /\ stack' \in Seq(0..N) /\ Len(stack') = Len(stack) - 1 /\ Len(stack') \in Nat /\ Len(stack) \in Nat
      /\ \A i \in 1..Len(stack') : stack'[i] = stack[i]
      /\ Top = stack[Len(stack)] /\ Len(stack) > 0
      /\ stack' # <<>> => Len(stack') > 0 /\ Top' = stack[Len(stack) - 1]
      /\ stack' = <<>> => Len(stack) = 1
  BY <1>0, Popped
<1>2. \A i \in 1..Len(stack') : i \in 1..Len(stack) /\ i < Len(stack)
  BY <1>1, SMTT(30)
<1>3. stack' # <<>> => Len(stack) - 1 \in 1..(Len(stack) - 1) /\ (Len(stack) - 1) + 1 = Len(stack)
  BY <1>1, SMTT(30)
<1>4. stack' # <<>> => (Top' = 0 <=> Top # 0)
  BY <1>1, <1>3 DEF Inv, Alternate
<1>5. stack' = <<>> => Top = 0
  BY <1>0, <1>1 DEF Inv, Alternate
<1>6. InLoop' => index' = index + 1 /\ ~ panicking /\ InHandler /\ pc[Top] = Len(handlers[Top].calls)
  BY <1>0, <1>4 DEF Pops, InLoop, InHandler
<1>7. index' >= index /\ index' \in Int /\ (index >= N /\ index' = index => ~ (index' < N))
  BY StackFacts, SMTT(30) DEF Pops
<1>8. ~ panicking /\ index' < N => index' = index + 1 /\ InLoop'
  BY <1>0, <1>4, <1>5, <1>7 DEF Pops, InLoop, InHandler
<1> QED
  BY <1>1, <1>2, <1>3, <1>4, <1>6, <1>7, <1>8 DEF InHandler, InLoop

-----------------------------------------------------------------------------
(* The order of the handlers on the stack. *)

LEMMA EntersFacts ==
  ASSUME Inv, EntersNext
  PROVE  /\ Len(stack') = Len(stack) + 1 /\ stack'[Len(stack) + 1] = 0
         /\ \A i \in 1..Len(stack) : stack'[i] = stack[i]
         /\ index' = index + 1 /\ ~ InHandler' /\ N' = N /\ handlers' = handlers
         /\ \A h \in 1..N : pc'[h] \in Nat /\ pc'[h] >= pc[h]
         /\ InHandler => pc'[Top] >= 1
<1>1. stack \in Seq(0..N) /\ 0 \in 0..N
  BY StackFacts, SMTT(30) DEF Inv, Types
<1>2. /\ stack' \in Seq(0..N) /\ Len(stack') = Len(stack) + 1 /\ Len(stack) \in Nat /\ stack'[Len(stack) + 1] = 0
      /\ stack' # <<>> /\ Top' = 0 /\ \A i \in 1..Len(stack) : stack'[i] = stack[i]
  BY <1>1, Pushed DEF EntersNext
<1>3. \A h \in 1..N : pc'[h] \in Nat /\ pc'[h] >= pc[h]
  <2>1. CASE Advance
    BY StackFacts, <2>1, SMTT(30) DEF Advance
  <2>2. CASE pc' = pc
    BY StackFacts, <2>2, SMTT(30)
  <2> QED
    BY <2>1, <2>2 DEF EntersNext
<1>4. InHandler => pc'[Top] >= 1
  <2>1. InHandler => Advance
    BY DEF EntersNext, InHandler
  <2> QED
    BY StackFacts, <2>1, SMTT(30) DEF Advance
<1> QED
  BY <1>2, <1>3, <1>4 DEF EntersNext, Same, InHandler, N

LEMMA EntersOrder == ASSUME Inv, Order, EntersNext PROVE Order' /\ NextDone'
<1>1. Increasing'
  <2> SUFFICES ASSUME NEW i \in 1..Len(stack'), NEW j \in 1..Len(stack'), i < j, stack'[i] # 0, stack'[j] # 0
               PROVE  stack'[i] < stack'[j]
    BY DEF Increasing
  <2>1. i \in 1..Len(stack) /\ j \in 1..Len(stack)
    BY StackFacts, EntersFacts, SMTT(30)
  <2> QED
    BY <2>1, EntersFacts DEF Order, Increasing
<1>2. StackBound'
  BY StackFacts, EntersFacts, SMTT(30) DEF Order, StackBound
<1>3. Waiting'
  <2> SUFFICES ASSUME NEW i \in 1..Len(stack'), stack'[i] # 0, i < Len(stack') \/ panicking'
               PROVE  pc'[stack'[i]] >= 1
    BY DEF Waiting
  <2>1. i \in 1..Len(stack) /\ stack'[i] = stack[i]
    BY StackFacts, EntersFacts, SMTT(30)
  <2>2. stack[i] \in 1..N
    BY <2>1, StackFacts, SMTT(30)
  <2>3. CASE i = Len(stack)
    <3>1. stack # <<>> /\ stack[i] = Top
      BY <2>1, <2>3, StackFacts, SMTT(30)
    <3> QED
      BY <2>1, <3>1, EntersFacts DEF InHandler
  <2>4. CASE i # Len(stack)
    <3>1. i < Len(stack)
      BY <2>1, <2>4, StackFacts, SMTT(30)
    <3>2. pc[stack[i]] >= 1
      BY <2>1, <3>1 DEF Order, Waiting
    <3> QED
      BY <2>1, <2>2, <3>2, StackFacts, EntersFacts, SMTT(30)
  <2> QED
    BY <2>3, <2>4
<1> QED
  BY <1>1, <1>2, <1>3, EntersFacts DEF Order, Fresh, NextDone

LEMMA CallsFacts ==
  ASSUME Inv, LoopCalls
  PROVE  /\ Len(stack') = Len(stack) + 1 /\ stack'[Len(stack) + 1] = index + 1
         /\ \A i \in 1..Len(stack) : stack'[i] = stack[i]
         /\ InLoop /\ ~ InLoop' /\ InHandler' /\ N' = N /\ handlers' = handlers /\ Top' = index + 1
         /\ index + 1 \in 1..N /\ index' = index /\ index \in Nat /\ index < N
         /\ pc'[index + 1] = 0 /\ \A h \in 1..N : h # index + 1 => pc'[h] = pc[h]
<1>1. stack \in Seq(0..N) /\ stack # <<>> /\ index \in Nat /\ index < N /\ index + 1 \in 0..N /\ index + 1 \in 1..N /\ index + 1 # 0
  BY StackFacts, SMTT(30) DEF Inv, Types, LoopCalls, N
<1>2. /\ stack' \in Seq(0..N) /\ Len(stack') = Len(stack) + 1 /\ Len(stack) \in Nat /\ stack'[Len(stack) + 1] = index + 1
      /\ stack' # <<>> /\ Top' = index + 1 /\ \A i \in 1..Len(stack) : stack'[i] = stack[i]
  BY <1>1, Pushed DEF LoopCalls
<1>3. pc'[index + 1] = 0 /\ \A h \in 1..N : h # index + 1 => pc'[h] = pc[h]
  BY StackFacts, <1>1, SMTT(30) DEF LoopCalls
<1> QED
  BY <1>1, <1>2, <1>3 DEF LoopCalls, InLoop, InHandler, N

LEMMA CallsOrder == ASSUME Inv, Order, LoopCalls PROVE Order' /\ NextDone'
<1>1. \A i \in 1..Len(stack) : stack[i] <= index /\ stack[i] \in 0..N
  BY StackFacts, CallsFacts DEF Order, StackBound
<1>2. Increasing'
  <2> SUFFICES ASSUME NEW i \in 1..Len(stack'), NEW j \in 1..Len(stack'), i < j, stack'[i] # 0, stack'[j] # 0
               PROVE  stack'[i] < stack'[j]
    BY DEF Increasing
  <2>0. Len(stack') = Len(stack) + 1 /\ Len(stack) \in Nat
    BY StackFacts, CallsFacts
  <2>1. i \in 1..Len(stack) /\ (j \in 1..Len(stack) \/ j = Len(stack) + 1)
    BY <2>0, SMTT(30)
  <2>2. stack[i] < index + 1
    BY <1>1, <2>1, CallsFacts, SMTT(30)
  <2> QED
    BY <2>1, <2>2, CallsFacts DEF Order, Increasing
<1>3. StackBound'
  BY <1>1, StackFacts, CallsFacts, SMTT(30) DEF StackBound
<1>4. Waiting'
  <2> SUFFICES ASSUME NEW i \in 1..Len(stack'), stack'[i] # 0, i < Len(stack')
               PROVE  pc'[stack'[i]] >= 1
    BY DEF Waiting, LoopCalls
  <2>1. i \in 1..Len(stack) /\ stack'[i] = stack[i] /\ stack[i] # 0
    BY StackFacts, CallsFacts, SMTT(30)
  <2>2. i # Len(stack)
    BY <2>1, StackFacts DEF LoopCalls
  <2>3. i < Len(stack) /\ stack[i] \in 1..N /\ stack[i] # index + 1
    BY <1>1, <2>1, <2>2, StackFacts, CallsFacts, SMTT(30)
  <2>4. pc[stack[i]] >= 1
    BY <2>1, <2>3 DEF Order, Waiting
  <2> QED
    BY <2>1, <2>3, <2>4, CallsFacts
<1>5. index = (index + 1) - 1 /\ 1..0 = {}
  BY CallsFacts, SMTT(30)
<1> QED
  BY <1>2, <1>3, <1>4, <1>5, CallsFacts DEF Order, Fresh, NextDone

LEMMA PopsOrder == ASSUME Inv, Order, Pops PROVE Order' /\ NextDone'
<1>0. pc' = pc /\ N' = N /\ (panicking' <=> panicking)
  BY DEF Pops, Same, N
<1>1. Increasing'
  BY PopFacts DEF Order, Increasing
<1>2. StackBound'
  <2> SUFFICES ASSUME NEW i \in 1..Len(stack')
               PROVE  stack'[i] <= index' + 1 /\ (InLoop' => stack'[i] <= index')
    BY DEF StackBound
  <2>1. stack'[i] = stack[i] /\ stack[i] <= index + 1 /\ stack[i] \in 0..N
    BY PopFacts, StackFacts DEF Order, StackBound
  <2> QED
    BY <2>1, PopFacts, StackFacts, SMTT(30)
<1>3. Waiting'
  BY <1>0, PopFacts DEF Order, Waiting
<1>4. InHandler' => index' >= N \/ panicking
  BY PopFacts, StackFacts, SMTT(30) DEF InLoop, InHandler
<1>5. Fresh'
  <2> SUFFICES ASSUME InHandler', pc'[Top'] = 0 PROVE FALSE
    BY DEF Fresh
  <2>1. Top' = stack[Len(stack) - 1] /\ Len(stack) - 1 \in 1..Len(stack') /\ Top' # 0
    BY PopFacts DEF InHandler
  <2>2. Len(stack) - 1 \in 1..Len(stack) /\ Len(stack) - 1 < Len(stack)
    BY <2>1, PopFacts
  <2>3. pc[Top'] >= 1
    BY <2>1, <2>2 DEF Order, Waiting
  <2> QED
    BY <1>0, <2>3, SMTT(30)
<1>6. NextDone'
  <2>1. InHandler' /\ ~ panicking => ~ (index' < N)
    BY <1>4, PopFacts, StackFacts, SMTT(30)
  <2> QED
    BY <1>0, <2>1 DEF NextDone
<1> QED
  BY <1>1, <1>2, <1>3, <1>5, <1>6 DEF Order

LEMMA WorksFacts ==
  ASSUME Inv, Works
  PROVE  /\ stack' = stack /\ Top' = Top /\ N' = N /\ handlers' = handlers /\ started' = started
         /\ InHandler /\ InHandler' /\ ~ InLoop' /\ Top \in 1..N
         /\ pc[Top] + 1 \in 1..Len(handlers[Top].calls) /\ handlers[Top].calls[pc[Top] + 1] # "next"
         /\ pc'[Top] = pc[Top] + 1 /\ \A h \in 1..N : pc'[h] \in Nat /\ pc'[h] >= pc[h] /\ (h # Top => pc'[h] = pc[h])
         /\ index' = index \/ index' = N
<1>1. /\ stack' = stack /\ Top' = Top /\ N' = N /\ handlers' = handlers /\ started' = started
      /\ InHandler /\ InHandler' /\ ~ InLoop' /\ Top \in 1..N /\ stack # <<>> /\ Top # 0 /\ ~ panicking
  BY StackFacts DEF Works, InHandler, InLoop, Top, N
<1>2. Len(handlers[Top].calls) \in Nat
  BY <1>1, SMTT(30) DEF Inv, Types, AnyChain, N
<1>3. pc[Top] + 1 \in 1..Len(handlers[Top].calls)
  BY <1>1, <1>2, StackFacts, SMTT(30) DEF Works
<1>4. pc'[Top] = pc[Top] + 1 /\ \A h \in 1..N : pc'[h] \in Nat /\ pc'[h] >= pc[h] /\ (h # Top => pc'[h] = pc[h])
  BY <1>1, StackFacts, SMTT(30) DEF Works, Advance
<1> QED
  BY <1>1, <1>3, <1>4 DEF Works, Running

LEMMA WorksOrder == ASSUME Inv, Order, NextDone, Works PROVE Order' /\ NextDone'
<1>1. Increasing'
  BY WorksFacts DEF Order, Increasing
<1>2. StackBound'
  BY StackFacts, WorksFacts, SMTT(30) DEF Order, StackBound
<1>3. Waiting'
  <2> SUFFICES ASSUME NEW i \in 1..Len(stack), stack[i] # 0, i < Len(stack) \/ panicking'
               PROVE  pc'[stack[i]] >= 1
    BY WorksFacts DEF Waiting
  <2>1. stack[i] \in 1..N
    BY StackFacts, SMTT(30)
  <2>2. CASE stack[i] = Top
    BY <2>2, StackFacts, WorksFacts, SMTT(30)
  <2>3. CASE stack[i] # Top
    <3>1. i < Len(stack)
      BY <2>3, StackFacts, WorksFacts, SMTT(30)
    <3>2. pc[stack[i]] >= 1
      BY <3>1 DEF Order, Waiting
    <3> QED
      BY <2>1, <2>3, <3>2, WorksFacts
  <2> QED
    BY <2>2, <2>3
<1>4. Fresh'
  <2>1. pc'[Top'] # 0
    BY StackFacts, WorksFacts, SMTT(30)
  <2> QED
    BY <2>1 DEF Fresh
<1>5. NextDone'
  <2> SUFFICES ASSUME index' < N, NEW k \in 1..pc'[Top]
               PROVE  handlers[Top].calls[k] # "next"
    BY WorksFacts DEF NextDone, Calls
  <2>1. index < N
    BY WorksFacts, StackFacts, SMTT(30)
  <2>2. k = pc[Top] + 1 \/ k \in 1..pc[Top]
    BY WorksFacts, StackFacts, SMTT(30)
  <2> QED
    BY <2>1, <2>2, WorksFacts DEF NextDone, Calls, Works
<1> QED
  BY <1>1, <1>2, <1>3, <1>4, <1>5 DEF Order

LEMMA RecoversOrder == ASSUME Inv, Order, Recovers PROVE Order' /\ NextDone'
<1>1. /\ stack' = stack /\ Top' = Top /\ N' = N /\ handlers' = handlers /\ pc' = pc /\ index' = N /\ panicking
      /\ InHandler /\ InHandler' /\ ~ InLoop' /\ stack # <<>> /\ Top # 0
  BY DEF Recovers, Fail, IsRecovery, InHandler, InLoop, Top, N
<1>2. Increasing'
  BY <1>1 DEF Order, Increasing
<1>3. StackBound'
  BY <1>1, StackFacts, SMTT(30) DEF StackBound
<1>4. Waiting'
  BY <1>1 DEF Order, Waiting
<1>5. pc[Top] >= 1
  BY <1>1, StackFacts DEF Order, Waiting
<1>6. pc[Top] # 0 /\ ~ (N < N)
  BY <1>1, <1>5, StackFacts, SMTT(30)
<1> QED
  BY <1>1, <1>2, <1>3, <1>4, <1>6 DEF Order, Fresh, NextDone

-----------------------------------------------------------------------------
(* Recovery under every later handler. *)

LEMMA EntersGuarded ==
  ASSUME Inv, Order, Guarded, EntersNext
  PROVE  Guarded' /\ \A h \in 1..N : On(h)' <=> On(h)
<1>0. /\ Len(stack') = Len(stack) + 1 /\ Len(stack) \in Nat /\ stack'[Len(stack) + 1] = 0 /\ index \in Int /\ N \in Nat
      /\ \A i \in 1..Len(stack) : stack'[i] = stack[i]
  BY StackFacts, EntersFacts
<1>1. \A i \in 1..Len(stack') : i \in 1..Len(stack) \/ i = Len(stack) + 1
  BY <1>0, SMTT(30)
<1>2. \A i \in 1..Len(stack) : i \in 1..Len(stack')
  BY <1>0, SMTT(30)
<1>3. \A h : On(h) => On(h)'
  BY <1>0, <1>2 DEF On
<1>4. \A r : IsRecovery(r)' <=> IsRecovery(r)
  BY EntersFacts DEF IsRecovery
<1>5. \A i \in 1..Len(stack') : stack'[i] # 0 => Guards(stack[i])'
  BY <1>0, <1>1, <1>3, <1>4 DEF Guarded, Guards
<1>6. InLoop' /\ index' < N => Guards(index + 1)'
  <2>1. CASE index = -1
    <3>1. 1..((index' + 1) - 1) = {}
      BY <2>1, EntersFacts, SMTT(30)
    <3> QED
      BY <3>1 DEF Guards
  <2>2. CASE ~ panicking /\ InHandler
    <3>1. index' + 1 = index + 2 /\ (index' < N => index < N)
      BY <1>0, EntersFacts, SMTT(30)
    <3> QED
      BY <1>3, <1>4, <2>2, <3>1 DEF Guarded, Guards
  <2> QED
    BY <2>1, <2>2 DEF EntersNext
<1>7. \A h \in 1..N : On(h)' => On(h)
  <2>1. \A h \in 1..N : h # 0
    BY SMTT(30)
  <2> QED
    BY <1>0, <1>1, <2>1 DEF On
<1> QED
  BY <1>3, <1>5, <1>6, <1>7, EntersFacts DEF Guarded

LEMMA CallsGuarded ==
  ASSUME Inv, Order, Guarded, LoopCalls
  PROVE  Guarded' /\ On(index + 1)' /\ \A h \in 1..N : On(h) => On(h)'
<1>0. /\ Len(stack') = Len(stack) + 1 /\ Len(stack) \in Nat /\ stack'[Len(stack) + 1] = index + 1
      /\ \A i \in 1..Len(stack) : stack'[i] = stack[i]
      /\ index' = index /\ N' = N /\ index \in Nat /\ N \in Nat
  BY StackFacts, CallsFacts
<1>1. \A i \in 1..Len(stack') : i \in 1..Len(stack) \/ i = Len(stack) + 1
  BY <1>0, SMTT(30)
<1>2. (\A i \in 1..Len(stack) : i \in 1..Len(stack')) /\ Len(stack) + 1 \in 1..Len(stack')
  BY <1>0, SMTT(30)
<1>3. (\A h : On(h) => On(h)') /\ On(index + 1)'
  BY <1>0, <1>2 DEF On
<1>4. \A r : IsRecovery(r)' <=> IsRecovery(r)
  BY CallsFacts DEF IsRecovery
<1>5. Guards(index + 1)
  BY CallsFacts DEF Guarded
<1>6. \A i \in 1..Len(stack') : stack'[i] # 0 => Guards(stack[i])'
  BY <1>0, <1>1, <1>3, <1>4, <1>5 DEF Guarded, Guards
<1>7. Guards(index + 2)'
  <2>1. \A r \in 1..((index + 2) - 1) : r = index + 1 \/ r \in 1..((index + 1) - 1)
    BY <1>0, SMTT(30)
  <2> QED
    BY <1>0, <1>3, <1>4, <1>5, <2>1 DEF Guards
<1> QED
  BY <1>3, <1>6, <1>7, CallsFacts DEF Guarded

LEMMA PopsGuarded ==
  ASSUME GeeInv, Pops
  PROVE  Guarded' /\ (\A h : On(h)' => On(h)) /\ (\A h : On(h) /\ h # Top => On(h)')
<1>0. /\ Inv /\ Order /\ Guarded /\ GeeChain /\ NextDone /\ handlers' = handlers /\ N' = N /\ stack # <<>>
      /\ N \in Nat /\ index \in Int
  BY StackFacts DEF GeeInv, Panic, Pops, Same, N
<1>1. \A h : On(h)' => On(h)
  BY <1>0, PopFacts DEF On
<1>2. \A i \in 1..Len(stack) : i = Len(stack) \/ i \in 1..Len(stack')
  <2>1. Len(stack') = Len(stack) - 1 /\ Len(stack) \in Nat
    BY <1>0, PopFacts, StackFacts
  <2> QED
    BY <2>1, SMTT(30)
<1>3. \A h : On(h) /\ h # Top => On(h)'
  BY <1>0, <1>2, PopFacts, StackFacts DEF On
<1>4. ASSUME NEW i \in 1..Len(stack'), stack'[i] # 0 PROVE Guards(stack[i])'
  <2>1. i \in 1..Len(stack) /\ i < Len(stack) /\ stack'[i] = stack[i] /\ Guards(stack[i])
    BY <1>0, <1>4, PopFacts DEF Guarded
  <2>2. ASSUME NEW r \in 1..(stack[i] - 1) PROVE r # Top
    <3>1. Top # 0 => stack[i] < Top
      BY <1>0, <1>4, <2>1, StackFacts DEF Order, Increasing
    <3> QED
      BY <1>0, <2>1, <3>1, StackFacts, SMTT(30)
  <2> QED
    BY <1>0, <1>3, <2>1, <2>2 DEF Guards, IsRecovery
<1>5. ASSUME InLoop', index' < N PROVE Guards(index + 1)'
  <2>1. ~ panicking /\ InHandler /\ index' = index + 1 /\ pc[Top] = Len(handlers[Top].calls) /\ Top \in 1..N
    BY <1>0, <1>5, PopFacts, StackFacts
  <2>2. index < N /\ index' + 1 = index + 2
    BY <1>0, <1>5, <2>1, SMTT(30)
  <2>3. ~ IsRecovery(Top)
    <3> SUFFICES ASSUME IsRecovery(Top) PROVE FALSE
      OBVIOUS
    <3>1. Len(Calls(Top)) = 1 /\ Calls(Top)[1] = "next"
      BY <1>0, <2>1, ChainFacts
    <3>2. 1 \in 1..pc[Top]
      BY <2>1, <3>1, SMTT(30) DEF Calls
    <3> QED
      BY <1>0, <2>1, <2>2, <3>1, <3>2 DEF NextDone
  <2>4. Guards(index + 2)
    BY <1>0, <2>1, <2>2 DEF Guarded
  <2> QED
    BY <1>0, <1>3, <2>2, <2>3, <2>4 DEF Guards, IsRecovery
<1>6. InHandler' /\ ~ panicking' => ~ (index' < N)
  BY <1>0, PopFacts DEF InLoop, InHandler, Pops, Same
<1> QED
  BY <1>0, <1>1, <1>3, <1>4, <1>5, <1>6 DEF Guarded

LEMMA StaysGuarded ==
  ASSUME Inv, Guarded, Works \/ Recovers
  PROVE  Guarded' /\ (\A h : On(h)' <=> On(h))
<1>1. /\ stack' = stack /\ N' = N /\ handlers' = handlers /\ ~ InLoop' /\ InHandler
      /\ \/ index' = index /\ ~ panicking
         \/ index' = N
  BY DEF Works, Recovers, Fail, IsRecovery, InHandler, InLoop, Top, N
<1>2. \A h : On(h)' <=> On(h)
  BY <1>1 DEF On
<1>3. \A r : IsRecovery(r)' <=> IsRecovery(r)
  BY <1>1 DEF IsRecovery
<1>4. ~ (N < N)
  BY StackFacts, SMTT(30)
<1>5. index' < N => index' = index /\ index < N /\ ~ panicking
  BY <1>1, <1>4
<1> QED
  BY <1>1, <1>2, <1>3, <1>5 DEF Guarded, Guards

-----------------------------------------------------------------------------
(* What was sent, and what a panic finds. *)

LEMMA RaiserFacts ==
  ASSUME Inv, raised # <<>>
  PROVE  Raiser \in 1..N /\ Raiser \in Raisers
<1> DEFINE S == 1..N
<1>1. raised \in Seq(S)
  BY DEF Inv, Types
<1> HIDE DEF S
<1>2. Len(raised) \in Nat /\ Len(raised) # 0 /\ DOMAIN raised = 1..Len(raised)
  BY <1>1, SeqFacts
<1>3. Len(raised) \in 1..Len(raised)
  BY <1>2, SMTT(30)
<1>4. raised[Len(raised)] \in S
  BY <1>1, <1>3, SeqFacts
<1> QED
  BY <1>2, <1>3, <1>4 DEF Raiser, Raisers, S

LEMMA EntersPanic == ASSUME GeeInv, EntersNext PROVE Raised' /\ Recovered' /\ Unsent'
<1>0. /\ Inv /\ Order /\ Guarded /\ Raised /\ Recovered /\ Unsent /\ N > 0 /\ N \in Nat /\ index \in Int /\ Len(stack) \in Nat
      /\ handlers' = handlers /\ N' = N /\ (panicking' <=> panicking) /\ raised' = raised
      /\ StatusCode' = StatusCode /\ sent' = sent /\ Raiser' = Raiser
      /\ index' = index + 1 /\ stack' = Append(stack, 0)
  BY StackFacts DEF GeeInv, Panic, GeeChain, EntersNext, Same, N, Raiser
<1>1. N \in 1..N /\ (index' < N => index < N) /\ (index >= N => index' >= N)
  BY <1>0, SMTT(30)
<1>2. \A h \in 1..N : On(h)' <=> On(h)
  BY <1>0, EntersGuarded
<1>3. Raised'
  <2> SUFFICES ASSUME panicking PROVE Raised'
    BY <1>0 DEF Raised
  <2>1. Raiser \in 1..N /\ \A r \in 1..(Raiser - 1) : r \in 1..N
    <3>1. Raiser \in 1..N
      BY <1>0, RaiserFacts DEF Inv, Types
    <3> QED
      BY <1>0, <3>1, SMTT(30)
  <2>2. 0 <= Raiser
    BY <2>1, SMTT(30)
  <2>3. \A i \in 1..Len(stack') : i \in 1..Len(stack) \/ i = Len(stack) + 1
    BY <1>0, EntersFacts, SMTT(30)
  <2>4. \A i \in 1..Len(stack') : stack'[i] <= Raiser
    BY <1>0, <2>2, <2>3, EntersFacts DEF Raised
  <2>5. Guards(Raiser)'
    BY <1>0, <1>2, <2>1 DEF Raised, Guards, IsRecovery
  <2> QED
    BY <1>0, <2>4, <2>5 DEF Raised, IsRecovery, IsLogger, Calls
<1>4. Recovered'
  BY <1>0, <1>1, <1>2 DEF Recovered, IsRecovery, Calls
<1>5. Unsent'
  <2> SUFFICES ASSUME ~ panicking, index' < N PROVE sent = 0
    BY <1>0 DEF Unsent
  <2>1. ~ On(N)
    <3>1. \A i \in 1..Len(stack) : stack[i] <= index + 1
      BY <1>0 DEF Order, StackBound
    <3>2. ~ (N <= index + 1)
      BY <1>0, SMTT(30)
    <3> QED
      BY <3>1, <3>2 DEF On
  <2> QED
    BY <1>0, <1>1, <2>1 DEF Unsent
<1> QED
  BY <1>3, <1>4, <1>5

LEMMA CallsPanic == ASSUME GeeInv, LoopCalls PROVE Raised' /\ Recovered' /\ Unsent'
<1>0. /\ Inv /\ Order /\ Recovered /\ Unsent /\ N \in Nat /\ N' = N /\ index \in Nat /\ index < N
      /\ ~ panicking /\ ~ panicking' /\ raised' = raised /\ sent' = sent
  BY StackFacts, CallsFacts DEF GeeInv, Panic, LoopCalls
<1>1. ~ (index >= N) /\ ~ (N <= index)
  BY <1>0, SMTT(30)
<1>2. raised' = <<>>
  BY <1>0, <1>1 DEF Recovered
<1>3. ~ On(N)
  BY <1>0, <1>1, CallsFacts DEF On, Order, StackBound
<1>4. sent' = 0
  BY <1>0, <1>3 DEF Unsent
<1> QED
  BY <1>0, <1>2, <1>4 DEF Raised, Recovered, Unsent

LEMMA PopsPanic == ASSUME GeeInv, Pops PROVE Raised' /\ Recovered' /\ Unsent'
<1>0. /\ Inv /\ Order /\ Guarded /\ Raised /\ Recovered /\ Unsent /\ N > 0 /\ N \in Nat /\ index \in Int
      /\ handlers' = handlers /\ N' = N /\ (panicking' <=> panicking) /\ raised' = raised /\ stack # <<>>
      /\ StatusCode' = StatusCode /\ sent' = sent /\ Raiser' = Raiser /\ index' \in Int /\ index' >= index
  BY StackFacts, PopFacts DEF GeeInv, Panic, GeeChain, Pops, Same, N, Raiser
<1>1. (\A h : On(h)' => On(h)) /\ (\A h : On(h) /\ h # Top => On(h)')
  BY PopsGuarded
<1>2. (index' < N => index < N) /\ (index >= N => index' >= N)
  BY <1>0, SMTT(30)
<1>3. Raised'
  <2> SUFFICES ASSUME panicking PROVE Raised'
    BY <1>0 DEF Raised
  <2>1. ~ IsRecovery(Top)
    BY DEF Pops, InLoop
  <2>2. \A i \in 1..Len(stack') : stack'[i] <= Raiser
    BY <1>0, PopFacts DEF Raised
  <2>3. Guards(Raiser)'
    BY <1>0, <1>1, <2>1 DEF Raised, Guards, IsRecovery
  <2> QED
    BY <1>0, <2>2, <2>3 DEF Raised, IsRecovery, IsLogger, Calls
<1>4. Recovered'
  BY <1>0, <1>1, <1>2 DEF Recovered, IsRecovery, Calls
<1>5. Unsent'
  <2> SUFFICES ASSUME ~ panicking, index' < N PROVE sent = 0
    BY <1>0 DEF Unsent
  <2>1. ~ On(N)
    <3>1. \A i \in 1..Len(stack) : stack[i] <= index + 1
      BY <1>0 DEF Order, StackBound
    <3>2. index' = index + 1
      BY <1>0, PopFacts
    <3>3. ~ (N <= index + 1)
      BY <1>0, <3>2, SMTT(30)
    <3> QED
      BY <3>1, <3>3 DEF On
  <2> QED
    BY <1>0, <1>2, <2>1 DEF Unsent
<1> QED
  BY <1>3, <1>4, <1>5

(* A handler that makes a call is running; the last one alone responds. *)
LEMMA RunningFacts ==
  ASSUME GeeInv, NEW c, Running(c)
  PROVE  /\ InHandler /\ Top \in 1..N /\ On(Top) /\ N \in 1..N /\ pc[Top] + 1 \in 1..Len(Calls(Top))
         /\ Calls(Top)[pc[Top] + 1] = c
         /\ c \notin {"next", "log", "fail", "panic"} => Top = N
         /\ c \in {"next", "log", "fail"} => Top # N
<1>1. Inv /\ GeeChain /\ N \in Nat /\ N > 0
  BY StackFacts DEF GeeInv, GeeChain
<1>2. InHandler /\ Top \in 1..N /\ On(Top)
  BY <1>1, StackFacts DEF Running, InHandler, On
<1>3. pc[Top] + 1 \in 1..Len(Calls(Top))
  <2>1. Len(Calls(Top)) \in Nat /\ pc[Top] \in Nat /\ pc[Top] < Len(Calls(Top))
    BY <1>1, <1>2, ChainFacts, StackFacts DEF Running, Calls
  <2> QED
    BY <2>1, SMTT(30)
<1>4. N \in 1..N
  BY <1>1, SMTT(30)
<1>5. Calls(Top)[pc[Top] + 1] = c
  BY DEF Running, Calls
<1> QED
  BY <1>1, <1>2, <1>3, <1>4, <1>5, ChainFacts

LEMMA RespondsPanic == ASSUME GeeInv, Responds \/ HTML PROVE Raised' /\ Recovered' /\ Unsent'
<1>1. Inv /\ Works /\ Top = N /\ On(N) /\ ~ panicking /\ ~ panicking' /\ raised' = raised
  <2>0. PICK c \in {"string200", "json", "string404", "status404", "serveFile", "html"} : Running(c)
    BY DEF Responds, HTML
  <2>1. Top = N /\ On(N)
    <3>1. c \notin {"next", "log", "fail", "panic"}
      OBVIOUS
    <3> QED
      BY <2>0, <3>1, RunningFacts
  <2>2. Works
    BY DEF Responds, HTML, Works, Running, InHandler, Top, N
  <2> QED
    BY <2>1, <2>2 DEF Works, GeeInv, Responds, HTML
<1>2. raised' = <<>>
  BY <1>1 DEF GeeInv, Panic, Recovered
<1>3. On(N)' /\ N' = N
  BY <1>1, WorksFacts DEF On
<1>4. pc'[N] # 0
  BY <1>1, WorksFacts, StackFacts, SMTT(30)
<1> QED
  BY <1>1, <1>2, <1>3, <1>4 DEF Raised, Recovered, Unsent

LEMMA FailsPanic == ASSUME GeeInv, Fails PROVE Raised' /\ Recovered' /\ Unsent'
<1>1. /\ Recovered /\ ~ panicking /\ ~ panicking' /\ raised' = raised /\ Raiser' = Raiser /\ handlers' = handlers
      /\ N' = N /\ index' = N /\ StatusCode' = 500 /\ (sent = 500 => sent' = 500) /\ stack' = stack /\ Inv
  <2>1. 500 # 0
    BY SMTT(30)
  <2> QED
    BY <2>1 DEF GeeInv, Panic, Fails, Fail, Status, WriteHeader, Running, N, Raiser
<1>2. N >= N /\ ~ (N < N)
  BY <1>1, StackFacts, SMTT(30)
<1> QED
  BY <1>1, <1>2 DEF Raised, Recovered, Unsent, On, IsRecovery, Calls

LEMMA LogsPanic == ASSUME GeeInv, Logs PROVE Raised' /\ Recovered' /\ Unsent'
<1>1. /\ Recovered /\ Unsent /\ ~ panicking /\ ~ panicking' /\ raised' = raised /\ Raiser' = Raiser /\ handlers' = handlers
      /\ N' = N /\ index' = index /\ StatusCode' = StatusCode /\ sent' = sent /\ stack' = stack /\ Inv
  BY DEF GeeInv, Panic, Logs, Running, N, Raiser
<1>2. Works
  BY DEF Logs, Works, Running, InHandler, N
<1>3. Top # N /\ N \in 1..N
  BY RunningFacts DEF Logs
<1>4. pc'[N] = pc[N]
  BY <1>1, <1>2, <1>3, WorksFacts
<1> QED
  BY <1>1, <1>4 DEF Raised, Recovered, Unsent, On, IsRecovery, Calls

LEMMA PanicsPanic == ASSUME GeeInv, Panics PROVE Raised' /\ Recovered' /\ Unsent'
<1>1. /\ Inv /\ Order /\ Guarded /\ Unsent /\ GeeChain /\ ~ panicking /\ panicking' /\ raised' = Append(raised, Top)
      /\ handlers' = handlers /\ sent' = sent /\ stack' = stack /\ raised \in Seq(1..N)
  BY DEF GeeInv, Panic, Panics, Running, Inv, Types
<1>2. /\ InHandler /\ Top \in 1..N /\ On(Top) /\ pc[Top] + 1 \in 1..Len(Calls(Top)) /\ Calls(Top)[pc[Top] + 1] = "panic"
  BY RunningFacts DEF Panics
<1>3. Raiser' = Top
  BY <1>1, <1>2, SMTT(30) DEF Raiser
<1>4. pc[Top] \in Nat /\ Top # 0 /\ stack # <<>> /\ Len(stack) \in 1..Len(stack) /\ Top = stack[Len(stack)] /\ N \in Nat
  BY <1>1, <1>2, StackFacts DEF InHandler
<1>5. ~ IsRecovery(Top) /\ ~ IsLogger(Top)
  <2>1. ASSUME Len(Calls(Top)) = 1 PROVE pc[Top] + 1 = 1
    BY <1>2, <1>4, <2>1, SMTT(30)
  <2>2. ASSUME Len(Calls(Top)) = 2 PROVE pc[Top] + 1 = 1 \/ pc[Top] + 1 = 2
    BY <1>2, <1>4, <2>2, SMTT(30)
  <2> QED
    BY <1>1, <1>2, <2>1, <2>2, ChainFacts
<1>6. Guards(Top)
  BY <1>1, <1>4 DEF Guarded
<1>7. ASSUME NEW i \in 1..Len(stack) PROVE stack[i] <= Top
  <2>1. stack[i] \in 0..N /\ (i = Len(stack) \/ i < Len(stack))
    BY <1>1, StackFacts, SMTT(30)
  <2>2. i < Len(stack) /\ stack[i] # 0 => stack[i] < Top
    BY <1>1, <1>4 DEF Order, Increasing
  <2> QED
    BY <1>2, <1>4, <2>1, <2>2, SMTT(30)
<1>8. ASSUME Len(Calls(Top)) = 1 PROVE sent = 0
  <2>1. pc[Top] = 0 /\ pc[Top] + 1 = 1
    BY <1>2, <1>4, <1>8, SMTT(30)
  <2>2. Top = N
    BY <1>1, <1>2, <1>8, <2>1, ChainFacts
  <2>3. index = Top - 1
    BY <1>1, <1>2, <2>1 DEF Order, Fresh
  <2>4. index < N
    BY <1>4, <2>2, <2>3, SMTT(30)
  <2> QED
    BY <1>1, <2>1, <2>2, <2>4 DEF Unsent
<1>9. Raised'
  <2>1. Guards(Raiser)'
    BY <1>1, <1>3, <1>6 DEF Guards, IsRecovery, On
  <2> QED
    BY <1>1, <1>3, <1>5, <1>7, <1>8, <2>1 DEF Raised, IsRecovery, IsLogger, Calls
<1> QED
  BY <1>1, <1>9 DEF Recovered, Unsent

LEMMA RecoversPanic == ASSUME GeeInv, Recovers PROVE Raised' /\ Recovered' /\ Unsent'
<1>1. /\ Inv /\ Order /\ Raised /\ GeeChain /\ panicking /\ ~ panicking' /\ raised' = raised /\ Raiser' = Raiser
      /\ handlers' = handlers /\ N' = N /\ index' = N /\ StatusCode' = 500 /\ (sent = 0 => sent' = 500) /\ stack' = stack
      /\ stack # <<>> /\ IsRecovery(Top) /\ raised # <<>> /\ Top # 0
  BY DEF GeeInv, Panic, Recovers, Fail, Status, WriteHeader, N, Raiser, IsRecovery, Inv, Types
<1>2. /\ N \in Nat /\ Len(stack) \in 1..Len(stack) /\ Top = stack[Len(stack)] /\ Top \in 1..N /\ Raiser \in 1..N
      /\ (\A i \in 1..Len(stack) : stack[i] \in 0..N) /\ Len(stack) \in Nat
  BY <1>1, StackFacts, RaiserFacts DEF InHandler
<1>3. Top \in 1..(Raiser - 1)
  <2>1. Top # Raiser
    BY <1>1 DEF Raised
  <2>2. \A i \in 1..Len(stack) : stack[i] <= Raiser
    BY <1>1 DEF Raised
  <2> QED
    BY <1>2, <2>1, <2>2, SMTT(30)
<1>4. ~ On(N)
  <2>1. Top # N
    BY <1>1, <1>2, ChainFacts
  <2>2. N # 0 /\ ~ (N < Top)
    BY <1>2, SMTT(30)
  <2>3. ASSUME NEW i \in 1..Len(stack), stack[i] = N PROVE FALSE
    <3>1. CASE i = Len(stack)
      BY <1>2, <2>1, <2>3, <3>1
    <3>2. CASE i < Len(stack)
      <4>0. Len(stack) \in 1..Len(stack) /\ stack[i] # 0 /\ stack[Len(stack)] # 0 /\ Increasing
        BY <1>1, <1>2, <2>2, <2>3 DEF Order
      <4>1. stack[i] < stack[Len(stack)]
        BY <3>2, <4>0 DEF Increasing
      <4> QED
        BY <1>2, <2>2, <2>3, <4>1
    <3> QED
      BY <1>2, <3>1, <3>2, SMTT(30)
  <2> QED
    BY <2>3 DEF On
<1>5. N >= N /\ ~ (N < N)
  BY <1>2, SMTT(30)
<1>6. Len(Calls(Raiser)) = 1 => sent' = 500
  BY <1>1 DEF Raised
<1> QED
  BY <1>1, <1>3, <1>4, <1>5, <1>6 DEF Raised, Recovered, Unsent, On, IsRecovery, Calls

-----------------------------------------------------------------------------
(* Each Logger logs, or is passed. *)

LEMMA EntersLogging == ASSUME GeeInv, EntersNext PROVE Logging'
<1>0. /\ Inv /\ Order /\ Guarded /\ GeeChain /\ Logging /\ handlers' = handlers /\ N' = N /\ N \in Nat
      /\ started' = started /\ raised' = raised /\ logged' = logged /\ started \in Seq(1..N)
  BY StackFacts DEF GeeInv, Panic, EntersNext, Same, N, Inv, Types
<1>1. ASSUME NEW l \in 1..N, IsLogger(l), pc'[l] >= 2 PROVE l \in logged
  <2>1. CASE pc[l] >= 2
    BY <1>0, <1>1, <2>1 DEF Logging
  <2>2. CASE ~ (pc[l] >= 2)
    <3>1. InHandler /\ Running("next") /\ l = Top /\ pc'[l] = pc[l] + 1 /\ pc[l] \in Nat
      <4>1. CASE Advance /\ InHandler /\ Running("next")
        BY <1>0, <1>1, <2>2, <4>1, StackFacts, SMTT(30) DEF Advance
      <4>2. CASE pc' = pc
        BY <1>1, <2>2, <4>2
      <4> QED
        BY <4>1, <4>2 DEF EntersNext
    <3>2. pc[l] + 1 = 2
      BY <1>1, <2>2, <3>1, SMTT(30)
    <3>3. Calls(l)[pc[l] + 1] = "next" /\ Calls(l)[2] = "log"
      BY <1>0, <1>1, <3>1, ChainFacts DEF Running, Calls
    <3> QED
      BY <3>2, <3>3
  <2> QED
    BY <2>1, <2>2
<1>2. \A h \in 1..N : On(h)' <=> On(h)
  BY <1>0, EntersGuarded
<1>3. \A i \in 1..Len(started) : started[i] \in 1..N
  BY <1>0, SMTT(30)
<1>4. Raisers' = Raisers
  BY <1>0 DEF Raisers
<1> QED
  BY <1>0, <1>1, <1>2, <1>3, <1>4 DEF Logging, IsLogger, IsRecovery, Passed

LEMMA CallsLogging == ASSUME GeeInv, LoopCalls PROVE Logging'
<1>0. /\ Inv /\ Order /\ Guarded /\ GeeChain /\ Logging /\ handlers' = handlers /\ N' = N /\ N \in Nat
      /\ started' = Append(started, index + 1) /\ raised' = raised /\ logged' = logged /\ started \in Seq(1..N)
  BY StackFacts DEF GeeInv, Panic, LoopCalls, N, Inv, Types
<1>1. ASSUME NEW l \in 1..N, IsLogger(l), pc'[l] >= 2 PROVE l \in logged
  <2>1. l # index + 1
    BY <1>0, <1>1, CallsFacts, SMTT(30)
  <2> QED
    BY <1>0, <1>1, <2>1, CallsFacts DEF Logging
<1>2. On(index + 1)' /\ \A h \in 1..N : On(h) => On(h)'
  BY <1>0, CallsGuarded
<1>3. /\ \A i \in 1..Len(started) : started[i] \in 1..N /\ started'[i] = started[i]
      /\ \A i \in 1..Len(started') : i \in 1..Len(started) \/ started'[i] = index + 1
  BY <1>0, CallsFacts, SMTT(30)
<1>4. \A l : Passed(l)' <=> Passed(l)
  BY <1>0 DEF Passed, Raisers, IsRecovery
<1>5. ASSUME NEW i \in 1..Len(started'), IsLogger(started'[i])
      PROVE  On(started[i])' \/ started'[i] \in logged \/ Passed(started[i])'
  <2>1. CASE started'[i] = index + 1
    BY <1>0, <1>2, <2>1, CallsFacts DEF On
  <2>2. CASE i \in 1..Len(started)
    <3>1. started'[i] = started[i] /\ started[i] \in 1..N
      BY <1>3, <2>2
    <3>2. On(started[i]) \/ started[i] \in logged \/ Passed(started[i])
      BY <1>0, <1>5, <2>2, <3>1 DEF Logging
    <3> QED
      BY <1>2, <1>4, <3>1, <3>2 DEF On, Passed, Raisers
  <2> QED
    BY <1>3, <2>1, <2>2
<1> QED
  BY <1>0, <1>1, <1>5 DEF Logging, IsLogger

LEMMA PopsLogging == ASSUME GeeInv, Pops PROVE Logging'
<1>0. /\ Inv /\ Order /\ Raised /\ GeeChain /\ Logging /\ handlers' = handlers /\ N' = N /\ N \in Nat /\ pc' = pc
      /\ started' = started /\ raised' = raised /\ logged' = logged /\ started \in Seq(1..N) /\ stack # <<>>
  BY StackFacts DEF GeeInv, Panic, Pops, Same, N, Inv, Types
<1>1. \A h : On(h) /\ h # Top => On(h)'
  BY PopsGuarded
<1>2. ASSUME Top \in 1..N, IsLogger(Top) PROVE Top \in logged \/ Passed(Top)
  <2>1. CASE ~ panicking
    <3>1. pc[Top] = Len(Calls(Top)) /\ Len(Calls(Top)) = 2
      <4>1. Top # 0
        BY <1>2, SMTT(30)
      <4> QED
        BY <1>0, <1>2, <2>1, <4>1, ChainFacts DEF Pops, InLoop, Calls
    <3>2. pc[Top] >= 2
      BY <3>1, SMTT(30)
    <3> QED
      BY <1>0, <1>2, <3>2 DEF Logging
  <2>2. CASE panicking
    <3>1. Raiser \in 1..N /\ Raiser \in Raisers /\ Guards(Raiser) /\ Top # Raiser
      BY <1>0, <1>2, <2>2, RaiserFacts DEF Raised, Inv, Types
    <3>2. Len(stack) \in 1..Len(stack) /\ Top = stack[Len(stack)] /\ Len(stack) \in Nat /\ \A i \in 1..Len(stack) : stack[i] \in 0..N
      BY <1>0, StackFacts
    <3>3. \A i \in 1..Len(stack) : stack[i] <= Raiser
      BY <1>0, <2>2 DEF Raised
    <3>4. Raiser > Top
      BY <1>2, <3>1, <3>2, <3>3, SMTT(30)
    <3>5. ASSUME NEW r \in (Top + 1)..(Raiser - 1), IsRecovery(r) PROVE FALSE
      <4>1. r \in 1..(Raiser - 1) /\ r > Top /\ r # 0 /\ r \in Int
        BY <1>2, <3>1, SMTT(30)
      <4>2. PICK i \in 1..Len(stack) : stack[i] = r
        BY <3>1, <3>5, <4>1 DEF Guards, On
      <4>3. i = Len(stack) \/ i < Len(stack)
        BY <3>2, SMTT(30)
      <4>4. i < Len(stack) => stack[i] < stack[Len(stack)]
        <5>1. Len(stack) \in 1..Len(stack) /\ stack[i] # 0 /\ stack[Len(stack)] # 0 /\ Increasing
          BY <1>0, <1>2, <3>2, <4>1, <4>2, SMTT(30) DEF Order
        <5> QED
          BY <5>1 DEF Increasing
      <4> QED
        BY <1>2, <3>2, <4>1, <4>2, <4>3, <4>4, SMTT(30)
    <3> QED
      BY <3>1, <3>4, <3>5 DEF Passed
  <2> QED
    BY <2>1, <2>2
<1>3. \A i \in 1..Len(started) : started[i] \in 1..N
  BY <1>0, SMTT(30)
<1>4. \A l : (Passed(l)' <=> Passed(l)) /\ (IsLogger(l)' <=> IsLogger(l))
  BY <1>0 DEF Passed, Raisers, IsRecovery, IsLogger
<1>5. ASSUME NEW i \in 1..Len(started), IsLogger(started[i])
      PROVE  On(started[i])' \/ started[i] \in logged \/ Passed(started[i])'
  <2> DEFINE l == started[i]
  <2>1. l' = l /\ l \in 1..N /\ IsLogger(l) /\ (On(l) \/ l \in logged \/ Passed(l))
    BY <1>0, <1>3, <1>5 DEF Logging
  <2> HIDE DEF l
  <2>2. On(l)' \/ l \in logged \/ Passed(l)'
    <3>1. CASE l = Top
      <4>1. l \in logged \/ Passed(l)
        BY <1>2, <2>1, <3>1
      <4> QED
        BY <1>0, <2>1, <4>1 DEF Passed, Raisers, IsRecovery
    <3>2. CASE l # Top
      BY <1>0, <1>1, <2>1, <3>2 DEF On, Passed, Raisers, IsRecovery
    <3> QED
      BY <3>1, <3>2
  <2> QED
    BY <2>2 DEF l
<1> QED
  BY <1>0, <1>4, <1>5 DEF Logging, IsLogger

LEMMA WorksLogging == ASSUME GeeInv, Works PROVE Logging'
<1>0. /\ Inv /\ GeeChain /\ Logging /\ handlers' = handlers /\ N' = N /\ N \in Nat /\ stack' = stack /\ started' = started
      /\ raised \in Seq(1..N) /\ Top \in 1..N
  BY StackFacts, WorksFacts DEF GeeInv, Works, N, Inv, Types
<1>1. logged \subseteq logged' /\ (Running("log") => Top \in logged')
  BY DEF Works
<1>2. Raisers \subseteq Raisers'
  <2>1. CASE raised' = Append(raised, Top)
    <3>1. \A i \in DOMAIN raised : i \in DOMAIN raised' /\ raised'[i] = raised[i]
      BY <1>0, <2>1, SMTT(30)
    <3> QED
      BY <3>1 DEF Raisers
  <2> QED
    BY <2>1 DEF Works, Raisers
<1>3. ASSUME NEW l \in 1..N, IsLogger(l), pc'[l] >= 2 PROVE l \in logged'
  <2>1. CASE l # Top
    BY <1>0, <1>1, <1>3, <2>1, WorksFacts DEF Logging
  <2>2. CASE l = Top
    <3>1. Len(Calls(l)) = 2 /\ Calls(l)[1] = "next" /\ Calls(l)[2] = "log"
      BY <1>0, <1>3, ChainFacts
    <3>2. pc[l] + 1 \in 1..Len(Calls(l)) /\ Calls(l)[pc[l] + 1] # "next"
      BY <1>0, <2>2, WorksFacts DEF Calls
    <3>3. pc[l] + 1 = 1 \/ pc[l] + 1 = 2
      BY <3>1, <3>2, SMTT(30)
    <3>4. Calls(l)[pc[l] + 1] = "log"
      BY <3>1, <3>2, <3>3
    <3>5. Running("log")
      BY <2>2, <3>4 DEF Running, Calls, Works, InHandler
    <3> QED
      BY <1>1, <2>2, <3>5
  <2> QED
    BY <2>1, <2>2
<1>4. ASSUME NEW i \in 1..Len(started), IsLogger(started[i])
      PROVE  On(started[i])' \/ started[i] \in logged' \/ Passed(started[i])'
  <2>1. On(started[i]) \/ started[i] \in logged \/ Passed(started[i])
    BY <1>0, <1>4 DEF Logging
  <2> QED
    BY <1>0, <1>1, <1>2, <2>1 DEF On, Passed, IsRecovery
<1> QED
  BY <1>0, <1>3, <1>4 DEF Logging, IsLogger

LEMMA RecoversLogging == ASSUME GeeInv, Recovers PROVE Logging'
<1>1. Raisers' = Raisers
  BY DEF Recovers, Raisers
<1> QED
  BY <1>1 DEF GeeInv, Logging, Recovers, On, Passed, IsRecovery, IsLogger, N

-----------------------------------------------------------------------------

LEMMA GeeInit == GeeChain /\ newContext => GeeInv
<1> SUFFICES ASSUME GeeChain, newContext PROVE GeeInv
  OBVIOUS
<1>0. Inv
  BY AnyInit DEF GeeChain
<1>1. /\ 1..Len(<<>>) = {} /\ ~ (0 >= 2) /\ DOMAIN handlers = 1..N /\ stack = <<>> /\ ~ panicking /\ raised = <<>>
      /\ started = <<>> /\ sent = 0
  BY SMTT(30) DEF newContext, GeeChain, AnyChain, N
<1>2. ~ InLoop /\ ~ InHandler
  BY <1>1 DEF InLoop, InHandler
<1>3. Order /\ NextDone
  BY <1>1, <1>2 DEF Order, Increasing, StackBound, Waiting, Fresh, NextDone
<1>4. Panic
  BY <1>1, <1>2 DEF Panic, Guarded, Raised, Recovered, Unsent
<1>5. Logging
  <2>1. \A l \in 1..N : pc[l] = 0
    BY <1>1 DEF newContext
  <2> QED
    BY <1>1, <2>1 DEF Logging
<1> QED
  BY <1>0, <1>3, <1>4, <1>5 DEF GeeInv

LEMMA GeeNext == GeeInv /\ [Next]_vars => GeeInv'
<1> SUFFICES ASSUME GeeInv, [Next]_vars PROVE GeeInv'
  OBVIOUS
<1>0. Inv /\ Inv' /\ Order /\ NextDone /\ Guarded
  BY AnyNext DEF GeeInv, Panic
<1>1. handlers' = handlers
  BY Shapes DEF vars, EntersNext, LoopCalls, Pops, Works, Recovers, Same
<1>2. GeeChain'
  BY <1>1 DEF GeeInv, GeeChain, AnyChain, N
<1>3. CASE EntersNext
  BY <1>0, <1>2, <1>3, EntersOrder, EntersGuarded, EntersPanic, EntersLogging DEF GeeInv, Panic
<1>4. CASE LoopCalls
  BY <1>0, <1>2, <1>4, CallsOrder, CallsGuarded, CallsPanic, CallsLogging DEF GeeInv, Panic
<1>5. CASE Pops
  BY <1>0, <1>2, <1>5, PopsOrder, PopsGuarded, PopsPanic, PopsLogging DEF GeeInv, Panic
<1>6. CASE Works /\ (Responds \/ HTML \/ Fails \/ Logs \/ Panics)
  <2>1. Raised' /\ Recovered' /\ Unsent'
    BY <1>6, RespondsPanic, FailsPanic, LogsPanic, PanicsPanic
  <2> QED
    BY <1>0, <1>2, <1>6, <2>1, WorksOrder, StaysGuarded, WorksLogging DEF GeeInv, Panic
<1>7. CASE Recovers
  BY <1>0, <1>2, <1>7, RecoversOrder, StaysGuarded, RecoversPanic, RecoversLogging DEF GeeInv, Panic
<1>8. CASE UNCHANGED vars
  <2>1. Order' /\ NextDone'
    BY <1>0, <1>8 DEF vars, Order, Increasing, StackBound, Waiting, Fresh, NextDone, InLoop, InHandler, Top, N, Calls
  <2>2. Guarded'
    BY <1>0, <1>8 DEF vars, Guarded, Guards, On, IsRecovery, InLoop, InHandler, Top, N
  <2>3. Raised' /\ Recovered' /\ Unsent'
    <3>1. Raised'
      BY <1>8 DEF GeeInv, Panic, vars, Raised, Raiser, Guards, On, IsRecovery, IsLogger, Calls
    <3>2. Recovered'
      BY <1>8 DEF GeeInv, Panic, vars, Recovered, Raiser, On, IsRecovery, Calls, N
    <3>3. Unsent'
      BY <1>8 DEF GeeInv, Panic, vars, Unsent, On, N
    <3> QED
      BY <3>1, <3>2, <3>3
  <2>4. Logging'
    <3>1. Raisers' = Raisers
      BY <1>8 DEF vars, Raisers
    <3> QED
      BY <1>8, <3>1 DEF GeeInv, vars, Logging, On, Passed, IsRecovery, IsLogger, N
  <2> QED
    BY <1>0, <1>2, <2>1, <2>2, <2>3, <2>4 DEF GeeInv, Panic
<1> QED
  BY <1>3, <1>4, <1>5, <1>6, <1>7, <1>8, Shapes

LEMMA GeeInvariance == GeeSpec => []GeeInv
  BY GeeInit, GeeNext, PTL DEF GeeSpec

(* A panic reaches net/http exactly when no Recovery comes before the      *)
(* handler that raised it; when one does, the deferred function of         *)
(* Recovery has set the 500, and sent it if nothing was sent before, for   *)
(* every chain of middlewares.                                             *)
THEOREM AlwaysPanicContained == GeeSpec => []PanicContained
<1>1. GeeInv => PanicContained
  <2> SUFFICES ASSUME GeeInv, Ended, raised # <<>>
               PROVE  /\ panicking <=> ~ (\E r \in 1..(Raiser - 1) : IsRecovery(r))
                      /\ (\E r \in 1..(Raiser - 1) : IsRecovery(r)) => StatusCode = 500
                      /\ (\E r \in 1..(Raiser - 1) : IsRecovery(r)) /\ Len(Calls(Raiser)) = 1 => sent = 500
    BY DEF PanicContained, Raiser, Calls
  <2>1. \A h : ~ On(h)
    <3>1. 1..Len(<<>>) = {}
      BY SMTT(30)
    <3> QED
      BY <3>1 DEF On, Ended
  <2>2. panicking => \A r \in 1..(Raiser - 1) : ~ IsRecovery(r)
    BY <2>1 DEF GeeInv, Panic, Raised, Guards
  <2> QED
    BY <2>2 DEF GeeInv, Panic, Recovered
<1> QED
  BY GeeInvariance, <1>1, PTL

(* Logger logs after Next: at the end of a request every Logger that was   *)
(* called has logged, unless a panic passed it that no Recovery stopped    *)
(* before, for every chain of middlewares.                                 *)
THEOREM AlwaysEachLogged == GeeSpec => []EachLogged
<1>1. GeeInv => EachLogged
  <2> SUFFICES ASSUME GeeInv, Ended, NEW l \in {started[i] : i \in DOMAIN started}, IsLogger(l)
               PROVE  l \in logged \/ Passed(l)
    BY DEF EachLogged, IsLogger, Passed, Raisers
  <2>1. ~ On(l)
    <3>1. 1..Len(<<>>) = {}
      BY SMTT(30)
    <3> QED
      BY <3>1 DEF On, Ended
  <2>2. DOMAIN started = 1..Len(started)
    BY SMTT(30) DEF GeeInv, Inv, Types
  <2>3. PICK i \in 1..Len(started) : l = started[i]
    BY <2>2
  <2> QED
    BY <2>1, <2>3 DEF GeeInv, Logging
<1> QED
  BY GeeInvariance, <1>1, PTL

=============================================================================
