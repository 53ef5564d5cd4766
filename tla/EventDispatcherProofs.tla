----------------------- MODULE EventDispatcherProofs -----------------------
(***************************************************************************)
(* Proofs about EventDispatcher, for any goroutines, events, listeners,    *)
(* counts and recursion limit.                                             *)
(***************************************************************************)
EXTENDS EventDispatcher, FiniteSetTheorems, SequenceTheorems, TLAPS

\* What holds of the stack of one goroutine.  Only its bottom frame may own
\* the mutex; the frames below the top are dispatches running a handler.
FrameOK(t) ==
    /\ \A i \in 1..Len(stack[t]) :
          LET f == stack[t][i]
          IN  /\ i < Len(stack[t]) => f.pc = "handler"
              /\ i > 1 => ~f.owns /\ f.pc \in Inside \cup {"check"}
              /\ i = 1 => (f.owns <=> f.pc \in Inside \cup {"mark", "unlock"})
              /\ f.pc \in {"loop", "handler", "unwind"} => f.op = "dispatch"
              /\ f.pc = "handler" <=> f.listener # NoListener /\ f.op = "dispatch"
              /\ f.op \in {"add", "remove"} => f.listener # NoListener
              /\ f.pc \notin {"loop", "handler"} => f.todo = {}

Holds(t) == stack[t] # <<>> /\ stack[t][1].owns

\* The mutex and goid, read off the bottom frames.
LockOK(t) ==
    /\ mtx = t <=> Holds(t)
    /\ goid = t <=> Holds(t) /\ stack[t][1].pc \in Inside

\* Dispatches counted in recursion, read off the stack of the holder.
Counted(t) ==
    IF stack[t] # <<>> /\ Top(t).pc \in {"loop", "handler", "unwind"}
    THEN Len(stack[t]) ELSE Len(stack[t]) - 1

DepthOK ==
    /\ mtx = NoThread => recursion = 0
    /\ mtx # NoThread =>
          /\ recursion = Counted(mtx)
          /\ At(mtx, "loop") \/ At(mtx, "handler") => recursion =< MaxRecursion
          /\ Len(stack[mtx]) =< MaxRecursion + 1
          /\ recursion =< MaxRecursion + 1

IInv ==
    /\ TypeOK
    /\ \A t \in Threads : FrameOK(t) /\ LockOK(t)
    /\ DepthOK

-----------------------------------------------------------------------------
(* The three ways a step changes a stack.                                  *)

\* Replacing the top frame keeps the length and the frames below.
LEMMA BecomesStack ==
    ASSUME NEW t \in Threads, NEW f \in Frame,
           stack \in [Threads -> Seq(Frame)], stack[t] # <<>>, Becomes(t, f)
    PROVE  /\ stack' \in [Threads -> Seq(Frame)]
           /\ stack'[t] # <<>>
           /\ Len(stack'[t]) = Len(stack[t])
           /\ stack'[t][Len(stack[t])] = f
           /\ \A i \in 1..Len(stack[t]) :
                 i # Len(stack[t]) => stack'[t][i] = stack[t][i]
           /\ \A u \in Threads : u # t => stack'[u] = stack[u]
  <1> DEFINE n == Len(stack[t])
             s == [stack[t] EXCEPT ![n] = f]
  <1>1. stack[t] \in Seq(Frame) /\ n \in Nat /\ n > 0
    OBVIOUS
  <1>2. s \in Seq(Frame) /\ Len(s) = n /\ s[n] = f /\ s # <<>>
        /\ \A i \in 1..n : i # n => s[i] = stack[t][i]
    BY <1>1
  <1>3. stack' = [stack EXCEPT ![t] = s]
    BY DEF Becomes
  <1> QED
    BY <1>2, <1>3

\* A call pushes a frame.
LEMMA PushStack ==
    ASSUME NEW t \in Threads, NEW f \in Frame,
           stack \in [Threads -> Seq(Frame)],
           stack' = [stack EXCEPT ![t] = Append(@, f)]
    PROVE  /\ stack' \in [Threads -> Seq(Frame)]
           /\ stack'[t] # <<>>
           /\ Len(stack'[t]) = Len(stack[t]) + 1
           /\ stack'[t][Len(stack[t]) + 1] = f
           /\ \A i \in 1..Len(stack[t]) : stack'[t][i] = stack[t][i]
           /\ \A u \in Threads : u # t => stack'[u] = stack[u]
  <1>1. stack[t] \in Seq(Frame)
    OBVIOUS
  <1>2. /\ Append(stack[t], f) \in Seq(Frame)
        /\ Len(Append(stack[t], f)) = Len(stack[t]) + 1
        /\ Append(stack[t], f)[Len(stack[t]) + 1] = f
        /\ \A i \in 1..Len(stack[t]) : Append(stack[t], f)[i] = stack[t][i]
    BY <1>1
  <1>3. Append(stack[t], f) # <<>>
    BY <1>1, <1>2
  <1> QED
    BY <1>2, <1>3

\* All but the last element of a sequence.
LEMMA FrontProperties ==
    ASSUME NEW S, NEW q \in Seq(S), q # <<>>
    PROVE  /\ SubSeq(q, 1, Len(q) - 1) \in Seq(S)
           /\ Len(SubSeq(q, 1, Len(q) - 1)) = Len(q) - 1
           /\ \A i \in 1..Len(q) - 1 : SubSeq(q, 1, Len(q) - 1)[i] = q[i]
           /\ SubSeq(q, 1, Len(q) - 1) = <<>> <=> Len(q) = 1
  <1>1. PICK n \in Nat : n = Len(q) - 1 /\ Len(q) = n + 1
    <2>1. Len(q) \in Nat /\ Len(q) # 0
      BY EmptySeq, LenProperties
    <2> QED
      BY <2>1
  <1>2. \A i \in 1..n : q[i] \in S
    BY <1>1, LenProperties
  <1>3. /\ SubSeq(q, 1, n) \in Seq(S)
        /\ Len(SubSeq(q, 1, n)) = IF 1 =< n THEN n - 1 + 1 ELSE 0
        /\ \A i \in 1..n - 1 + 1 : SubSeq(q, 1, n)[i] = q[1 + i - 1]
    BY <1>2, SubSeqProperties
  <1> DEFINE s == SubSeq(q, 1, n)
  <1> HIDE DEF s
  <1>4. s \in Seq(S) /\ Len(s) = n /\ \A i \in 1..n : s[i] = q[i]
    <2>1. s \in Seq(S) /\ Len(s) = n
      BY <1>3 DEF s
    <2>2. ASSUME NEW i \in 1..n
          PROVE  s[i] = q[i]
      <3>1. i \in 1..n - 1 + 1 /\ 1 + i - 1 = i
        OBVIOUS
      <3> QED
        BY <1>3, <3>1 DEF s
    <2> QED
      BY <2>1, <2>2
  <1>5. s = <<>> <=> n = 0
    BY <1>4, EmptySeq
  <1> QED
    BY <1>1, <1>4, <1>5 DEF s

\* A return drops the top frame.
LEMMA PopStack ==
    ASSUME NEW t \in Threads, stack \in [Threads -> Seq(Frame)],
           stack[t] # <<>>, Pop(t)
    PROVE  /\ stack' \in [Threads -> Seq(Frame)]
           /\ Len(stack'[t]) = Len(stack[t]) - 1
           /\ stack'[t] = <<>> <=> Len(stack[t]) = 1
           /\ \A i \in 1..Len(stack[t]) - 1 : stack'[t][i] = stack[t][i]
           /\ \A u \in Threads : u # t => stack'[u] = stack[u]
  <1> DEFINE s == SubSeq(stack[t], 1, Len(stack[t]) - 1)
  <1>1. stack[t] \in Seq(Frame)
    OBVIOUS
  <1>2. /\ s \in Seq(Frame) /\ Len(s) = Len(stack[t]) - 1
        /\ s = <<>> <=> Len(stack[t]) = 1
        /\ \A i \in 1..Len(stack[t]) - 1 : s[i] = stack[t][i]
    BY <1>1, FrontProperties
  <1>3. stack' = [stack EXCEPT ![t] = s]
    BY DEF Pop
  <1> HIDE DEF s
  <1> QED
    BY <1>2, <1>3

-----------------------------------------------------------------------------
(* Each step preserves the inductive invariant.                            *)

\* A goroutine at a label of the critical section, or making a nested call,
\* is the holder; so every frame but a bottom one at check or lock implies
\* that mtx and goid name its goroutine.
LEMMA TopInside ==
    ASSUME IInv, NEW t \in Threads, stack[t] # <<>>, Top(t).pc \in Inside
    PROVE  mtx = t /\ goid = t /\ Top(t) \in Frame
  <1>1. stack[t] \in Seq(Frame) /\ Len(stack[t]) \in Nat /\ Len(stack[t]) > 0
    BY DEF IInv, TypeOK
  <1>2. Top(t) \in Frame /\ 1 \in 1..Len(stack[t]) /\ Len(stack[t]) \in 1..Len(stack[t])
    BY <1>1 DEF Top
  <1>3. stack[t][1].pc \in Inside
    BY <1>1, <1>2 DEF IInv, FrameOK, Inside, Top
  <1>4. stack[t][1].owns
    BY <1>2, <1>3 DEF IInv, FrameOK
  <1> QED
    BY <1>2, <1>3, <1>4 DEF IInv, LockOK, Holds

\* A step inside the critical section that changes only the top frame.
LEMMA InnerStep ==
    ASSUME IInv, NEW t \in Threads, NEW f \in Frame,
           stack[t] # <<>>, Top(t).pc \in Inside, f.pc \in Inside,
           f.owns = Top(t).owns, f.op = Top(t).op,
           f.pc \in {"loop", "handler", "unwind"} => f.op = "dispatch",
           f.pc = "handler" <=> f.listener # NoListener /\ f.op = "dispatch",
           f.op \in {"add", "remove"} => f.listener # NoListener,
           f.pc \notin {"loop", "handler"} => f.todo = {},
           Becomes(t, f), UNCHANGED <<mtx, goid>>
    PROVE  /\ stack' \in [Threads -> Seq(Frame)]
           /\ stack'[t] # <<>>
           /\ Len(stack'[t]) = Len(stack[t])
           /\ stack'[t][Len(stack[t])] = f
           /\ \A u \in Threads : FrameOK(u)' /\ LockOK(u)'
  <1>1. stack \in [Threads -> Seq(Frame)] /\ stack[t] \in Seq(Frame)
        /\ Len(stack[t]) \in Nat /\ Len(stack[t]) > 0
    BY DEF IInv, TypeOK
  <1>2. /\ stack' \in [Threads -> Seq(Frame)]
        /\ stack'[t] # <<>>
        /\ Len(stack'[t]) = Len(stack[t])
        /\ stack'[t][Len(stack[t])] = f
        /\ \A i \in 1..Len(stack[t]) :
              i # Len(stack[t]) => stack'[t][i] = stack[t][i]
        /\ \A u \in Threads : u # t => stack'[u] = stack[u]
    BY <1>1, BecomesStack
  <1>3. mtx = t /\ goid = t
    BY TopInside
  <1>4. FrameOK(t) /\ LockOK(t)
    BY DEF IInv
  <1>5. FrameOK(t)'
    BY <1>1, <1>2, <1>4 DEF FrameOK, Top, Inside
  <1>6. stack'[t][1].owns /\ stack'[t][1].pc \in Inside
    <2>1. stack[t][1].owns /\ stack[t][1].pc \in Inside
      BY <1>3, <1>4 DEF LockOK, Holds
    <2> QED
      BY <1>1, <1>2, <2>1 DEF Top
  <1>7. LockOK(t)'
    BY <1>2, <1>3, <1>6 DEF LockOK, Holds
  <1>8. ASSUME NEW u \in Threads, u # t
        PROVE  FrameOK(u)' /\ LockOK(u)'
    BY <1>2, <1>8 DEF IInv, FrameOK, LockOK, Holds
  <1> QED
    BY <1>2, <1>5, <1>7, <1>8


LEMMA AddEventListenerStep ==
    ASSUME DispatcherAssumption, IInv, NEW t \in Threads, AddEventListener(t)
    PROVE  IInv'
  <1> DEFINE f == [Top(t) EXCEPT !.pc = "leave"]
  <1>1. stack[t] # <<>> /\ Top(t).pc = "body" /\ Becomes(t, f)
    BY DEF AddEventListener, At, Goto
  <1>2. mtx = t /\ goid = t /\ Top(t) \in Frame
    BY <1>1, TopInside DEF Inside
  <1>3. f \in Frame /\ f.pc = "leave" /\ f.op = Top(t).op /\ f.owns = Top(t).owns
        /\ f.listener = Top(t).listener /\ f.todo = Top(t).todo
    BY <1>2 DEF Frame, Labels
  <1>4. FrameOK(t) /\ stack[t] \in Seq(Frame) /\ Len(stack[t]) \in 1..Len(stack[t])
    BY <1>1 DEF IInv, TypeOK
  <1>5. UNCHANGED <<mtx, goid, recursion>>
    BY DEF AddEventListener
  <1>6. /\ stack' \in [Threads -> Seq(Frame)] /\ stack'[t] # <<>>
        /\ Len(stack'[t]) = Len(stack[t]) /\ stack'[t][Len(stack[t])] = f
        /\ \A u \in Threads : FrameOK(u)' /\ LockOK(u)'
    <2>1. /\ f.todo = {}
          /\ f.op \in {"add", "remove"} => f.listener # NoListener
      BY <1>1, <1>3, <1>4 DEF FrameOK, Top
    <2>2. ~(f.listener # NoListener /\ f.op = "dispatch")
      BY <1>1, <1>3, <1>4 DEF FrameOK, Top, AddEventListener
    <2> HIDE DEF f
    <2> QED
      BY <1>1, <1>2, <1>3, <1>5, <2>1, <2>2, InnerStep DEF Inside
  <1>7. TypeOK'
    <2>1. Top(t).event \in Events /\ Top(t).listener \in Listeners
      BY <1>1, <1>2, <1>4 DEF Frame, FrameOK, Top, AddEventListener
    <2>2. listeners' \in [Events -> SUBSET Listeners]
      BY <2>1 DEF IInv, TypeOK, AddEventListener
    <2>3. added' \in [Listeners -> Nat]
      BY <2>1 DEF IInv, TypeOK, AddEventListener
    <2> QED
      BY <1>5, <1>6, <2>2, <2>3 DEF IInv, TypeOK, AddEventListener
  <1>8. DepthOK'
    BY <1>1, <1>2, <1>3, <1>5, <1>6 DEF IInv, DepthOK, Counted, Top, At
  <1> QED
    BY <1>6, <1>7, <1>8 DEF IInv

LEMMA RemoveEventListenerStep ==
    ASSUME DispatcherAssumption, IInv, NEW t \in Threads, RemoveEventListener(t)
    PROVE  IInv'
  <1> DEFINE f == [Top(t) EXCEPT !.pc = "leave"]
  <1>1. stack[t] # <<>> /\ Top(t).pc = "body" /\ Becomes(t, f)
    BY DEF RemoveEventListener, At, Goto
  <1>2. mtx = t /\ goid = t /\ Top(t) \in Frame
    BY <1>1, TopInside DEF Inside
  <1>3. f \in Frame /\ f.pc = "leave" /\ f.op = Top(t).op /\ f.owns = Top(t).owns
        /\ f.listener = Top(t).listener /\ f.todo = Top(t).todo
    BY <1>2 DEF Frame, Labels
  <1>4. FrameOK(t) /\ stack[t] \in Seq(Frame) /\ Len(stack[t]) \in 1..Len(stack[t])
    BY <1>1 DEF IInv, TypeOK
  <1>5. UNCHANGED <<mtx, goid, recursion>>
    BY DEF RemoveEventListener
  <1>6. /\ stack' \in [Threads -> Seq(Frame)] /\ stack'[t] # <<>>
        /\ Len(stack'[t]) = Len(stack[t]) /\ stack'[t][Len(stack[t])] = f
        /\ \A u \in Threads : FrameOK(u)' /\ LockOK(u)'
    <2>1. /\ f.todo = {}
          /\ f.op \in {"add", "remove"} => f.listener # NoListener
      BY <1>1, <1>3, <1>4 DEF FrameOK, Top
    <2>2. ~(f.listener # NoListener /\ f.op = "dispatch")
      BY <1>1, <1>3, <1>4 DEF FrameOK, Top, RemoveEventListener
    <2> HIDE DEF f
    <2> QED
      BY <1>1, <1>2, <1>3, <1>5, <2>1, <2>2, InnerStep DEF Inside
  <1>7. TypeOK'
    BY <1>2, <1>5, <1>6 DEF IInv, TypeOK, Frame, RemoveEventListener
  <1>8. DepthOK'
    BY <1>1, <1>2, <1>3, <1>5, <1>6 DEF IInv, DepthOK, Counted, Top, At
  <1> QED
    BY <1>6, <1>7, <1>8 DEF IInv

LEMMA HasEventListenerStep ==
    ASSUME DispatcherAssumption, IInv, NEW t \in Threads, HasEventListener(t)
    PROVE  IInv'
  <1> DEFINE f == [Top(t) EXCEPT !.pc = "leave"]
  <1>1. stack[t] # <<>> /\ Top(t).pc = "body" /\ Becomes(t, f)
    BY DEF HasEventListener, At, Goto
  <1>2. mtx = t /\ goid = t /\ Top(t) \in Frame
    BY <1>1, TopInside DEF Inside
  <1>3. f \in Frame /\ f.pc = "leave" /\ f.op = Top(t).op /\ f.owns = Top(t).owns
        /\ f.listener = Top(t).listener /\ f.todo = Top(t).todo
    BY <1>2 DEF Frame, Labels
  <1>4. FrameOK(t) /\ stack[t] \in Seq(Frame) /\ Len(stack[t]) \in 1..Len(stack[t])
    BY <1>1 DEF IInv, TypeOK
  <1>5. UNCHANGED <<mtx, goid, recursion>>
    BY DEF HasEventListener
  <1>6. /\ stack' \in [Threads -> Seq(Frame)] /\ stack'[t] # <<>>
        /\ Len(stack'[t]) = Len(stack[t]) /\ stack'[t][Len(stack[t])] = f
        /\ \A u \in Threads : FrameOK(u)' /\ LockOK(u)'
    <2>1. /\ f.todo = {}
          /\ f.op \in {"add", "remove"} => f.listener # NoListener
      BY <1>1, <1>3, <1>4 DEF FrameOK, Top
    <2>2. ~(f.listener # NoListener /\ f.op = "dispatch")
      BY <1>1, <1>3, <1>4 DEF FrameOK, Top, HasEventListener
    <2> HIDE DEF f
    <2> QED
      BY <1>1, <1>2, <1>3, <1>5, <2>1, <2>2, InnerStep DEF Inside
  <1>7. TypeOK'
    BY <1>5, <1>6 DEF IInv, TypeOK, HasEventListener
  <1>8. DepthOK'
    BY <1>1, <1>2, <1>3, <1>5, <1>6 DEF IInv, DepthOK, Counted, Top, At
  <1> QED
    BY <1>6, <1>7, <1>8 DEF IInv


LEMMA EndLoopStep ==
    ASSUME DispatcherAssumption, IInv, NEW t \in Threads, EndLoop(t)
    PROVE  IInv'
  <1> DEFINE f == [Top(t) EXCEPT !.pc = "unwind"]
  <1>1. stack[t] # <<>> /\ Top(t).pc = "loop" /\ Becomes(t, f)
    BY DEF EndLoop, At, Goto
  <1>2. mtx = t /\ goid = t /\ Top(t) \in Frame
    BY <1>1, TopInside DEF Inside
  <1>4. FrameOK(t) /\ stack[t] \in Seq(Frame) /\ Len(stack[t]) \in 1..Len(stack[t])
    BY <1>1 DEF IInv, TypeOK
  <1>5. UNCHANGED <<mtx, goid>>
    BY DEF EndLoop
  <1>3. /\ f \in Frame /\ f.op = "dispatch" /\ f.op = Top(t).op
        /\ f.owns = Top(t).owns
        /\ f.pc = "unwind" /\ f.listener = NoListener /\ f.todo = {}
    BY <1>1, <1>2, <1>4 DEF Frame, FrameOK, Labels, Top, EndLoop
  <1>6. /\ stack' \in [Threads -> Seq(Frame)] /\ stack'[t] # <<>>
        /\ Len(stack'[t]) = Len(stack[t]) /\ stack'[t][Len(stack[t])] = f
        /\ \A u \in Threads : FrameOK(u)' /\ LockOK(u)'
    <2> HIDE DEF f
    <2> QED
      BY <1>1, <1>2, <1>3, <1>5, InnerStep DEF Inside
  <1> HIDE DEF f
  <1>7. TypeOK'
    BY <1>5, <1>6 DEF IInv, TypeOK, EndLoop
  <1>8. DepthOK'
    BY <1>1, <1>2, <1>3, <1>4, <1>5, <1>6 DEF IInv, TypeOK, DepthOK, Counted, Top, At, EndLoop
  <1> QED
    BY <1>6, <1>7, <1>8 DEF IInv

LEMMA HandlerPanicStep ==
    ASSUME DispatcherAssumption, IInv, NEW t \in Threads, HandlerPanic(t)
    PROVE  IInv'
  <1> DEFINE f == [Top(t) EXCEPT !.pc = "unwind", !.listener = NoListener, !.todo = {}]
  <1>1. stack[t] # <<>> /\ Top(t).pc = "handler" /\ Becomes(t, f)
    BY DEF HandlerPanic, At, Goto
  <1>2. mtx = t /\ goid = t /\ Top(t) \in Frame
    BY <1>1, TopInside DEF Inside
  <1>4. FrameOK(t) /\ stack[t] \in Seq(Frame) /\ Len(stack[t]) \in 1..Len(stack[t])
    BY <1>1 DEF IInv, TypeOK
  <1>5. UNCHANGED <<mtx, goid>>
    BY DEF HandlerPanic
  <1>3. /\ f \in Frame /\ f.op = "dispatch" /\ f.op = Top(t).op
        /\ f.owns = Top(t).owns
        /\ f.pc = "unwind" /\ f.listener = NoListener /\ f.todo = {}
    BY <1>1, <1>2, <1>4 DEF Frame, FrameOK, Labels, Top, HandlerPanic
  <1>6. /\ stack' \in [Threads -> Seq(Frame)] /\ stack'[t] # <<>>
        /\ Len(stack'[t]) = Len(stack[t]) /\ stack'[t][Len(stack[t])] = f
        /\ \A u \in Threads : FrameOK(u)' /\ LockOK(u)'
    <2> HIDE DEF f
    <2> QED
      BY <1>1, <1>2, <1>3, <1>5, InnerStep DEF Inside
  <1> HIDE DEF f
  <1>7. TypeOK'
    BY <1>5, <1>6 DEF IInv, TypeOK, HandlerPanic
  <1>8. DepthOK'
    BY <1>1, <1>2, <1>3, <1>4, <1>5, <1>6 DEF IInv, TypeOK, DepthOK, Counted, Top, At, HandlerPanic
  <1> QED
    BY <1>6, <1>7, <1>8 DEF IInv

LEMMA UnwindStep ==
    ASSUME DispatcherAssumption, IInv, NEW t \in Threads, Unwind(t)
    PROVE  IInv'
  <1> DEFINE f == [Top(t) EXCEPT !.pc = "leave"]
  <1>1. stack[t] # <<>> /\ Top(t).pc = "unwind" /\ Becomes(t, f)
    BY DEF Unwind, At, Goto
  <1>2. mtx = t /\ goid = t /\ Top(t) \in Frame
    BY <1>1, TopInside DEF Inside
  <1>4. FrameOK(t) /\ stack[t] \in Seq(Frame) /\ Len(stack[t]) \in 1..Len(stack[t])
    BY <1>1 DEF IInv, TypeOK
  <1>5. UNCHANGED <<mtx, goid>>
    BY DEF Unwind
  <1>3. /\ f \in Frame /\ f.op = "dispatch" /\ f.op = Top(t).op
        /\ f.owns = Top(t).owns
        /\ f.pc = "leave" /\ f.listener = NoListener /\ f.todo = {}
    BY <1>1, <1>2, <1>4 DEF Frame, FrameOK, Labels, Top, Unwind
  <1>6. /\ stack' \in [Threads -> Seq(Frame)] /\ stack'[t] # <<>>
        /\ Len(stack'[t]) = Len(stack[t]) /\ stack'[t][Len(stack[t])] = f
        /\ \A u \in Threads : FrameOK(u)' /\ LockOK(u)'
    <2> HIDE DEF f
    <2> QED
      BY <1>1, <1>2, <1>3, <1>5, InnerStep DEF Inside
  <1> HIDE DEF f
  <1>7. TypeOK'
    <2>1. recursion = Len(stack[t]) /\ recursion > 0
      BY <1>1, <1>2, <1>4 DEF IInv, TypeOK, DepthOK, Counted, DispatcherAssumption
    <2> QED
      BY <1>5, <1>6, <2>1 DEF IInv, TypeOK, Unwind
  <1>8. DepthOK'
    BY <1>1, <1>2, <1>3, <1>4, <1>5, <1>6 DEF IInv, TypeOK, DepthOK, Counted, Top, At, Unwind
  <1> QED
    BY <1>6, <1>7, <1>8 DEF IInv

LEMMA HandlerReturnStep ==
    ASSUME DispatcherAssumption, IInv, NEW t \in Threads, NEW stop \in BOOLEAN,
           HandlerReturn(t, stop)
    PROVE  IInv'
  <1> DEFINE f == [Top(t) EXCEPT !.pc = IF stop THEN "unwind" ELSE "loop",
                                !.listener = NoListener,
                                !.todo = IF stop THEN {} ELSE @]
  <1>1. stack[t] # <<>> /\ Top(t).pc = "handler" /\ Becomes(t, f)
    BY DEF HandlerReturn, At, Goto
  <1>2. mtx = t /\ goid = t /\ Top(t) \in Frame
    BY <1>1, TopInside DEF Inside
  <1>4. FrameOK(t) /\ stack[t] \in Seq(Frame) /\ Len(stack[t]) \in 1..Len(stack[t])
    BY <1>1 DEF IInv, TypeOK
  <1>5. UNCHANGED <<mtx, goid>>
    BY DEF HandlerReturn
  <1>3. /\ f \in Frame /\ f.op = "dispatch" /\ f.op = Top(t).op
        /\ f.owns = Top(t).owns
        /\ f.pc = (IF stop THEN "unwind" ELSE "loop")
        /\ f.listener = NoListener /\ (stop => f.todo = {})
    BY <1>1, <1>2, <1>4 DEF Frame, FrameOK, Labels, Top, HandlerReturn
  <1>6. /\ stack' \in [Threads -> Seq(Frame)] /\ stack'[t] # <<>>
        /\ Len(stack'[t]) = Len(stack[t]) /\ stack'[t][Len(stack[t])] = f
        /\ \A u \in Threads : FrameOK(u)' /\ LockOK(u)'
    <2> HIDE DEF f
    <2> QED
      BY <1>1, <1>2, <1>3, <1>5, InnerStep DEF Inside
  <1> HIDE DEF f
  <1>7. TypeOK'
    <2>1. Top(t).event \in Events /\ Top(t).listener \in Listeners
      BY <1>1, <1>2, <1>4 DEF Frame, FrameOK, Top
    <2>2. listeners' \in [Events -> SUBSET Listeners]
      BY <2>1 DEF IInv, TypeOK, HandlerReturn
    <2>3. returned' \in [Listeners -> Nat]
      <3> DEFINE r == returned[Top(t).listener]
      <3>1. r + 1 \in Nat /\ returned \in [Listeners -> Nat]
        BY <2>1 DEF IInv, TypeOK
      <3>2. returned' = [returned EXCEPT ![Top(t).listener] = r + 1]
        BY DEF HandlerReturn
      <3> QED
        BY <2>1, <3>1, <3>2
    <2>4. count' \in [Listeners -> Nat]
      <3> DEFINE c == count[Top(t).listener]
      <3>1. c \in Nat /\ count \in [Listeners -> Nat]
        BY <2>1 DEF IInv, TypeOK
      <3>2. count' = [count EXCEPT ![Top(t).listener] = IF c > 0 THEN c - 1 ELSE c]
        BY DEF HandlerReturn
      <3>3. (IF c > 0 THEN c - 1 ELSE c) \in Nat
        BY <3>1
      <3> QED
        BY <2>1, <3>1, <3>2, <3>3
    <2> QED
      BY <1>5, <1>6, <2>2, <2>3, <2>4 DEF IInv, TypeOK, HandlerReturn
  <1>8. DepthOK'
    BY <1>1, <1>2, <1>3, <1>4, <1>5, <1>6 DEF IInv, TypeOK, DepthOK, Counted, Top, At, HandlerReturn
  <1> QED
    BY <1>6, <1>7, <1>8 DEF IInv


LEMMA InvokeStep ==
    ASSUME DispatcherAssumption, IInv, NEW t \in Threads, Invoke(t)
    PROVE  IInv'
  <1>1. stack[t] # <<>> /\ Top(t).pc = "loop"
    BY DEF Invoke, At
  <1>2. mtx = t /\ goid = t /\ Top(t) \in Frame
    BY <1>1, TopInside DEF Inside
  <1>3. PICK l \in Top(t).todo :
           Becomes(t, [Top(t) EXCEPT !.pc = "handler", !.listener = l, !.todo = @ \ {l}])
    BY DEF Invoke
  <1> DEFINE f == [Top(t) EXCEPT !.pc = "handler", !.listener = l, !.todo = @ \ {l}]
  <1>4. FrameOK(t) /\ stack[t] \in Seq(Frame) /\ Len(stack[t]) \in 1..Len(stack[t])
    BY <1>1 DEF IInv, TypeOK
  <1>5. UNCHANGED <<mtx, goid>>
    BY DEF Invoke
  <1>6. l \in Listeners /\ l # NoListener
    BY <1>2 DEF Frame, DispatcherAssumption
  <1>7. /\ f \in Frame /\ f.op = "dispatch" /\ f.op = Top(t).op
        /\ f.owns = Top(t).owns /\ f.pc = "handler" /\ f.listener = l
    BY <1>1, <1>2, <1>4, <1>6 DEF Frame, FrameOK, Labels, Top
  <1> HIDE DEF f
  <1>8. /\ stack' \in [Threads -> Seq(Frame)] /\ stack'[t] # <<>>
        /\ Len(stack'[t]) = Len(stack[t]) /\ stack'[t][Len(stack[t])] = f
        /\ \A u \in Threads : FrameOK(u)' /\ LockOK(u)'
    BY <1>1, <1>3, <1>5, <1>6, <1>7, InnerStep DEF Inside, f
  <1>9. TypeOK'
    BY <1>5, <1>8 DEF IInv, TypeOK, Invoke
  <1>10. DepthOK'
    BY <1>1, <1>2, <1>4, <1>5, <1>7, <1>8
       DEF IInv, TypeOK, DepthOK, Counted, Top, At, Invoke
  <1> QED
    BY <1>8, <1>9, <1>10 DEF IInv

LEMMA BeginDispatchStep ==
    ASSUME DispatcherAssumption, IInv, NEW t \in Threads, BeginDispatch(t)
    PROVE  IInv'
  <1> DEFINE f == IF recursion + 1 > MaxRecursion
                  THEN [Top(t) EXCEPT !.pc = "unwind"]
                  ELSE [Top(t) EXCEPT !.pc = "loop", !.todo = listeners[Top(t).event]]
  <1>1. stack[t] # <<>> /\ Top(t).pc = "body" /\ Becomes(t, f)
    BY DEF BeginDispatch, At, Goto
  <1>2. mtx = t /\ goid = t /\ Top(t) \in Frame
    BY <1>1, TopInside DEF Inside
  <1>3. FrameOK(t) /\ stack[t] \in Seq(Frame) /\ Len(stack[t]) \in 1..Len(stack[t])
    BY <1>1 DEF IInv, TypeOK
  <1>4. UNCHANGED <<mtx, goid>>
    BY DEF BeginDispatch
  <1>5. Top(t).todo = {} /\ Top(t).listener = NoListener /\ Top(t).op = "dispatch"
    BY <1>1, <1>3 DEF FrameOK, Top, BeginDispatch
  <1>6. listeners[Top(t).event] \in SUBSET Listeners
    BY <1>2 DEF IInv, TypeOK, Frame
  <1>7. /\ f \in Frame /\ f.op = "dispatch" /\ f.op = Top(t).op
        /\ f.owns = Top(t).owns /\ f.listener = NoListener
        /\ f.pc = (IF recursion + 1 > MaxRecursion THEN "unwind" ELSE "loop")
        /\ f.pc = "unwind" => f.todo = {}
    <2>1. CASE recursion + 1 > MaxRecursion
      BY <1>2, <1>5, <2>1 DEF Frame, Labels
    <2>2. CASE ~(recursion + 1 > MaxRecursion)
      BY <1>2, <1>5, <1>6, <2>2 DEF Frame, Labels
    <2> QED
      BY <2>1, <2>2
  <1> HIDE DEF f
  <1>8. /\ stack' \in [Threads -> Seq(Frame)] /\ stack'[t] # <<>>
        /\ Len(stack'[t]) = Len(stack[t]) /\ stack'[t][Len(stack[t])] = f
        /\ \A u \in Threads : FrameOK(u)' /\ LockOK(u)'
    BY <1>1, <1>4, <1>7, InnerStep DEF Inside
  <1>9. TypeOK'
    BY <1>4, <1>8 DEF IInv, TypeOK, BeginDispatch
  <1>10. DepthOK'
    <2>1. recursion = Len(stack[t]) - 1 /\ Len(stack[t]) =< MaxRecursion + 1
      BY <1>1, <1>2 DEF IInv, DepthOK, Counted
    <2>2. recursion' = Len(stack[t]) /\ recursion' = recursion + 1
          /\ MaxRecursion \in Nat /\ recursion \in Nat
      BY <1>3, <2>1 DEF BeginDispatch, DispatcherAssumption, IInv, TypeOK
    <2>3. Counted(t)' = recursion' /\ mtx' = t /\ t # NoThread
      BY <1>2, <1>4, <1>7, <1>8, <2>2 DEF Counted, Top, DispatcherAssumption
    <2>4. Len(stack'[t]) =< MaxRecursion + 1 /\ recursion' =< MaxRecursion + 1
      BY <1>8, <2>1, <2>2
    <2>5. Top(t)'.pc \in {"loop", "handler"} => recursion' =< MaxRecursion
      BY <1>7, <1>8, <2>2 DEF Top
    <2> QED
      BY <2>3, <2>4, <2>5 DEF DepthOK, At
  <1> QED
    BY <1>8, <1>9, <1>10 DEF IInv

LEMMA OneOrMore ==
    ASSUME NEW n \in Nat, n > 0
    PROVE  (n = 1 \/ n > 1) /\ (n > 1 => n # 1)
  OBVIOUS

\* What FrameOK says of the top frame.
LEMMA TopFacts ==
    ASSUME IInv, NEW t \in Threads, stack[t] # <<>>
    PROVE  /\ stack[t] \in Seq(Frame) /\ Len(stack[t]) \in Nat
           /\ Len(stack[t]) \in 1..Len(stack[t])
           /\ Len(stack[t]) = 1 \/ Len(stack[t]) > 1
           /\ Len(stack[t]) > 1 => Len(stack[t]) # 1
           /\ Top(t) = stack[t][Len(stack[t])] /\ Top(t) \in Frame
           /\ Top(t).pc \notin {"loop", "handler"} => Top(t).todo = {}
           /\ Top(t).pc # "handler" /\ Top(t).listener # NoListener => Top(t).op # "dispatch"
           /\ Top(t).op \in {"add", "remove"} => Top(t).listener # NoListener
           /\ Len(stack[t]) > 1 =>
                 /\ ~Top(t).owns /\ Top(t).pc \in Inside \cup {"check"}
                 /\ stack[t][1].pc = "handler"
           /\ Len(stack[t]) = 1 =>
                 (Top(t).owns <=> Top(t).pc \in Inside \cup {"mark", "unlock"})
  <1>1. stack[t] \in Seq(Frame) /\ Len(stack[t]) \in Nat /\ Len(stack[t]) > 0
    BY DEF IInv, TypeOK
  <1>2. Top(t) \in Frame /\ Len(stack[t]) \in 1..Len(stack[t])
    BY <1>1 DEF Top
  <1>3. FrameOK(t)
    BY DEF IInv
  <1>4. Len(stack[t]) > 1 => stack[t][1].pc = "handler"
    BY <1>1, <1>3 DEF FrameOK
  <1>5. /\ Len(stack[t]) = 1 \/ Len(stack[t]) > 1
        /\ Len(stack[t]) > 1 => Len(stack[t]) # 1
    BY <1>1, OneOrMore
  <1> QED
    BY <1>1, <1>2, <1>3, <1>4, <1>5 DEF FrameOK, Top

\* At the labels that only a bottom frame reaches, the stack has one frame.
LEMMA BottomFrame ==
    ASSUME IInv, NEW t \in Threads, stack[t] # <<>>,
           Top(t).pc \in {"lock", "mark", "unlock"}
    PROVE  Len(stack[t]) = 1 /\ Top(t) = stack[t][1] /\ Top(t) \in Frame
  <1>1. Len(stack[t]) = 1 \/ Len(stack[t]) > 1
    BY TopFacts
  <1>2. ~(Len(stack[t]) > 1)
    BY TopFacts DEF Inside
  <1> QED
    BY <1>1, <1>2, TopFacts

LEMMA CheckGoidStep ==
    ASSUME DispatcherAssumption, IInv, NEW t \in Threads, CheckGoid(t)
    PROVE  IInv'
  <1> DEFINE f == [Top(t) EXCEPT !.pc = IF goid = t THEN "body" ELSE "lock"]
  <1>1. stack[t] # <<>> /\ Top(t).pc = "check" /\ Becomes(t, f)
    BY DEF CheckGoid, At, Goto
  <1>2. FrameOK(t) /\ LockOK(t) /\ stack[t] \in Seq(Frame)
        /\ Len(stack[t]) \in Nat /\ Len(stack[t]) \in 1..Len(stack[t])
        /\ (Len(stack[t]) = 1 \/ Len(stack[t]) > 1)
    BY <1>1, TopFacts DEF IInv
  <1>3. Top(t) \in Frame /\ Top(t).todo = {} /\ ~Top(t).owns
        /\ (Top(t).listener # NoListener => Top(t).op # "dispatch")
        /\ (Top(t).op \in {"add", "remove"} => Top(t).listener # NoListener)
    BY <1>1, TopFacts DEF Inside
  <1>4. UNCHANGED <<mtx, goid, recursion>>
    BY DEF CheckGoid
  <1>5. /\ f \in Frame /\ f.op = Top(t).op /\ ~f.owns /\ f.todo = {}
        /\ f.listener = Top(t).listener
        /\ f.pc = (IF goid = t THEN "body" ELSE "lock")
    BY <1>3 DEF Frame, Labels
  <1> HIDE DEF f
  <1>6. /\ stack' \in [Threads -> Seq(Frame)] /\ stack'[t] # <<>>
        /\ Len(stack'[t]) = Len(stack[t]) /\ stack'[t][Len(stack[t])] = f
        /\ \A i \in 1..Len(stack[t]) :
              i # Len(stack[t]) => stack'[t][i] = stack[t][i]
        /\ \A u \in Threads : u # t => stack'[u] = stack[u]
    BY <1>1, <1>5, BecomesStack DEF IInv, TypeOK
  \* A nested call finds goid naming its own goroutine, a bottom one does not.
  <1>7. goid = t <=> Len(stack[t]) > 1
    <2>1. CASE Len(stack[t]) = 1
      BY <1>1, <1>2, <1>3, <2>1 DEF LockOK, Top, Holds
    <2>2. CASE Len(stack[t]) > 1
      <3>1. stack[t][1].pc = "handler"
        BY <1>1, <2>2, TopFacts
      <3>2. stack[t][1].owns
        BY <1>2, <3>1 DEF FrameOK, Inside
      <3> QED
        BY <1>1, <1>2, <2>2, <3>1, <3>2 DEF LockOK, Inside, Holds
    <2> QED
      BY <1>2, <2>1, <2>2
  <1>8. FrameOK(t)'
    <2>1. CASE Len(stack[t]) = 1
      BY <1>3, <1>5, <1>6, <1>7, <2>1 DEF FrameOK, Inside
    <2>2. CASE Len(stack[t]) > 1
      <3>1. f.pc = "body"
        BY <1>5, <1>7, <2>2
      <3>2. ASSUME NEW i \in 1..Len(stack[t]), i # Len(stack[t])
            PROVE  stack'[t][i] = stack[t][i]
        BY <1>6, <3>2
      <3>3. Len(stack[t]) # 1
        BY <1>1, <2>2, TopFacts
      <3> QED
        BY <1>2, <1>3, <1>5, <1>6, <3>1, <3>2, <3>3 DEF FrameOK, Inside
    <2> QED
      BY <1>2, <2>1, <2>2
  <1>9. LockOK(t)'
    <2>1. CASE Len(stack[t]) = 1
      BY <1>1, <1>2, <1>3, <1>4, <1>5, <1>6, <1>7, <2>1 DEF LockOK, Holds, Top, Inside
    <2>2. CASE Len(stack[t]) > 1
      BY <1>2, <1>4, <1>6, <2>2 DEF LockOK, Holds
    <2> QED
      BY <1>2, <2>1, <2>2
  <1>10. ASSUME NEW u \in Threads, u # t
         PROVE  FrameOK(u)' /\ LockOK(u)'
    BY <1>4, <1>6, <1>10 DEF IInv, FrameOK, LockOK, Holds
  <1>11. TypeOK'
    BY <1>4, <1>6 DEF IInv, TypeOK, CheckGoid
  <1>12. DepthOK'
    <2>1. CASE mtx = t
      BY <1>1, <1>2, <1>4, <1>5, <1>6, <2>1 DEF IInv, DepthOK, Counted, Top, At
    <2>2. CASE mtx # t
      BY <1>4, <1>6, <2>2 DEF IInv, TypeOK, DepthOK, Counted, Top, At
    <2> QED
      BY <2>1, <2>2
  <1> QED
    BY <1>8, <1>9, <1>10, <1>11, <1>12 DEF IInv

LEMMA LockStep ==
    ASSUME DispatcherAssumption, IInv, NEW t \in Threads, Lock(t)
    PROVE  IInv'
  <1> DEFINE f == [Top(t) EXCEPT !.pc = "mark", !.owns = TRUE]
  <1>1. stack[t] # <<>> /\ Top(t).pc = "lock" /\ Becomes(t, f)
        /\ mtx = NoThread /\ mtx' = t /\ UNCHANGED <<goid, recursion>>
    BY DEF Lock, At
  <1>2. Len(stack[t]) = 1 /\ Top(t) = stack[t][1] /\ Top(t) \in Frame
    BY <1>1, BottomFrame
  <1>3. FrameOK(t) /\ LockOK(t) /\ stack[t] \in Seq(Frame)
    BY <1>1 DEF IInv, TypeOK
  <1>4. /\ f \in Frame /\ f.op = Top(t).op /\ f.owns /\ f.todo = {}
        /\ f.listener = Top(t).listener /\ f.pc = "mark"
        /\ (f.listener # NoListener => f.op # "dispatch")
        /\ (f.op \in {"add", "remove"} => f.listener # NoListener)
    BY <1>1, <1>2, TopFacts DEF Frame, Labels
  <1> HIDE DEF f
  <1>5. /\ stack' \in [Threads -> Seq(Frame)] /\ stack'[t] # <<>>
        /\ Len(stack'[t]) = 1 /\ stack'[t][1] = f
        /\ \A u \in Threads : u # t => stack'[u] = stack[u]
    <2>1. stack \in [Threads -> Seq(Frame)]
      BY DEF IInv, TypeOK
    <2> QED
      BY <1>1, <1>2, <1>4, <2>1, BecomesStack
  <1>6. FrameOK(t)'
    BY <1>4, <1>5 DEF FrameOK, Inside
  <1>7. t # NoThread /\ goid # t
    BY <1>1, <1>3 DEF DispatcherAssumption, LockOK
  <1>8. LockOK(t)'
    BY <1>1, <1>4, <1>5, <1>7 DEF LockOK, Holds, Inside
  <1>9. ASSUME NEW u \in Threads, u # t
        PROVE  FrameOK(u)' /\ LockOK(u)'
    BY <1>1, <1>5, <1>9 DEF IInv, FrameOK, LockOK, Holds, DispatcherAssumption
  <1>10. TypeOK'
    BY <1>1, <1>5 DEF IInv, TypeOK, Lock
  <1>11. DepthOK'
    <2>1. recursion' = 0 /\ Counted(t)' = 0 /\ MaxRecursion \in Nat \ {0}
      BY <1>1, <1>4, <1>5 DEF IInv, DepthOK, Counted, Top, DispatcherAssumption
    <2> QED
      BY <1>1, <1>4, <1>5, <1>7, <2>1 DEF DepthOK, At
  <1> QED
    BY <1>6, <1>8, <1>9, <1>10, <1>11 DEF IInv

LEMMA MarkStep ==
    ASSUME DispatcherAssumption, IInv, NEW t \in Threads, Mark(t)
    PROVE  IInv'
  <1> DEFINE f == [Top(t) EXCEPT !.pc = "body"]
  <1>1. stack[t] # <<>> /\ Top(t).pc = "mark" /\ Becomes(t, f)
        /\ goid' = t /\ UNCHANGED <<mtx, recursion>>
    BY DEF Mark, At, Goto
  <1>2. Len(stack[t]) = 1 /\ Top(t) = stack[t][1] /\ Top(t) \in Frame
    BY <1>1, BottomFrame
  <1>3. FrameOK(t) /\ LockOK(t) /\ stack[t] \in Seq(Frame)
    BY <1>1 DEF IInv, TypeOK
  <1>4. /\ f \in Frame /\ f.op = Top(t).op /\ f.owns /\ f.todo = {}
        /\ f.listener = Top(t).listener /\ f.pc = "body"
        /\ (f.listener # NoListener => f.op # "dispatch")
        /\ (f.op \in {"add", "remove"} => f.listener # NoListener)
        /\ mtx = t
    BY <1>1, <1>2, <1>3, TopFacts DEF Frame, LockOK, Holds, Labels
  <1> HIDE DEF f
  <1>5. /\ stack' \in [Threads -> Seq(Frame)] /\ stack'[t] # <<>>
        /\ Len(stack'[t]) = 1 /\ stack'[t][1] = f
        /\ \A u \in Threads : u # t => stack'[u] = stack[u]
    <2>1. stack \in [Threads -> Seq(Frame)]
      BY DEF IInv, TypeOK
    <2> QED
      BY <1>1, <1>2, <1>4, <2>1, BecomesStack
  <1>6. FrameOK(t)'
    BY <1>4, <1>5 DEF FrameOK, Inside
  <1>7. LockOK(t)'
    BY <1>1, <1>4, <1>5 DEF LockOK, Holds, Inside
  <1>8. ASSUME NEW u \in Threads, u # t
        PROVE  FrameOK(u)' /\ LockOK(u)'
    <2>1. ~Holds(u) /\ FrameOK(u) /\ mtx' # u /\ goid' # u
      BY <1>1, <1>4, <1>8 DEF IInv, LockOK
    <2> QED
      BY <1>5, <1>8, <2>1 DEF FrameOK, LockOK, Holds
  <1>9. TypeOK'
    BY <1>1, <1>5 DEF IInv, TypeOK, Mark
  <1>10. DepthOK'
    <2>1. recursion' = 0 /\ Counted(t)' = 0
      BY <1>1, <1>2, <1>4, <1>5 DEF IInv, DepthOK, Counted, Top, DispatcherAssumption
    <2> QED
      BY <1>1, <1>4, <1>5, <2>1 DEF DepthOK, At, Top, DispatcherAssumption
  <1> QED
    BY <1>6, <1>7, <1>8, <1>9, <1>10 DEF IInv

LEMMA CallStep ==
    ASSUME DispatcherAssumption, IInv, NEW t \in Threads, NEW op \in Ops,
           NEW e \in Events, NEW l \in Listeners \cup {NoListener}, Call(t, op, e, l)
    PROVE  IInv'
  <1> DEFINE f == NewFrame(op, e, l)
             n == Len(stack[t])
  <1>1. /\ stack[t] = <<>> \/ At(t, "handler")
        /\ (op \in {"add", "remove"}) <=> (l # NoListener)
        /\ stack' = [stack EXCEPT ![t] = Append(@, f)]
        /\ UNCHANGED <<mtx, goid, recursion>>
    BY DEF Call
  <1>2. /\ f \in Frame /\ f.pc = "check" /\ ~f.owns /\ f.todo = {}
        /\ f.op = op /\ f.listener = l
    BY DEF NewFrame, Frame, Labels
  <1> HIDE DEF f
  <1>3. /\ stack' \in [Threads -> Seq(Frame)] /\ stack'[t] # <<>>
        /\ Len(stack'[t]) = n + 1 /\ stack'[t][n + 1] = f
        /\ \A i \in 1..n : stack'[t][i] = stack[t][i]
        /\ \A u \in Threads : u # t => stack'[u] = stack[u]
    BY <1>1, <1>2, PushStack DEF IInv, TypeOK
  <1>4. op \in {"add", "remove"} => op # "dispatch"
    OBVIOUS
  <1>5. ASSUME NEW u \in Threads, u # t
        PROVE  FrameOK(u)' /\ LockOK(u)'
    BY <1>1, <1>3, <1>5 DEF IInv, FrameOK, LockOK, Holds
  <1>6. TypeOK'
    <2>1. calls' \in [Threads -> Nat]
      BY DEF IInv, TypeOK, Call
    <2> QED
      BY <1>3, <2>1 DEF IInv, TypeOK, Call
  <1>7. CASE stack[t] = <<>>
    <2>1. n = 0
      BY <1>7, EmptySeq
    <2>2. Len(stack'[t]) = 1 /\ stack'[t][1] = f
      BY <1>3, <2>1
    <2>3. FrameOK(t)'
      <3>1. \A i \in 1..Len(stack'[t]) :
               i = 1 /\ stack'[t][i] = f /\ ~(i > 1) /\ ~(i < Len(stack'[t]))
        BY <2>2
      <3> QED
        BY <1>1, <1>2, <1>4, <3>1 DEF FrameOK, Inside
    <2>4. LockOK(t) /\ ~Holds(t) /\ ~Holds(t)'
      BY <1>2, <1>7, <2>2 DEF IInv, Holds
    <2>5. LockOK(t)'
      BY <1>1, <2>4 DEF LockOK
    <2>6. mtx # t
      BY <2>4 DEF LockOK
    <2>7. DepthOK'
      BY <1>1, <1>3, <2>6 DEF IInv, TypeOK, DepthOK, Counted, Top, At
    <2> QED
      BY <1>5, <1>6, <2>3, <2>5, <2>7 DEF IInv
  <1>8. CASE At(t, "handler")
    <2>1. stack[t] # <<>> /\ Top(t).pc = "handler" /\ mtx = t /\ goid = t
      BY <1>8, TopInside DEF At, Inside
    <2>2. n \in Nat /\ n > 0 /\ 1 \in 1..n /\ n \in 1..n /\ stack[t][n].pc = "handler"
      BY <2>1, TopFacts DEF Top
    <2>3. FrameOK(t) /\ LockOK(t)
      BY DEF IInv
    <2> HIDE DEF n
    <2>4. FrameOK(t)'
      <3>1. n + 1 > 1 /\ n + 1 # 1 /\ n < n + 1
        BY <2>2
      <3>2. \A i \in 1..n : stack[t][i].pc = "handler"
        BY <2>2, <2>3 DEF FrameOK, n
      <3>3. \A i \in 1..Len(stack'[t]) : i \in 1..n \/ i = n + 1
        BY <1>3, <2>2
      <3>4. ~(n + 1 < Len(stack'[t]))
        BY <1>3, <2>2
      <3> QED
        BY <1>1, <1>2, <1>3, <1>4, <2>3, <3>1, <3>2, <3>3, <3>4 DEF FrameOK, Inside, n
    <2>5. LockOK(t)'
      BY <1>1, <1>3, <2>1, <2>2, <2>3 DEF LockOK, Holds
    <2>6. DepthOK'
      <3>1. recursion = n /\ n =< MaxRecursion
        BY <2>1, <2>2 DEF IInv, DepthOK, Counted, At, n, DispatcherAssumption
      <3>2. Counted(t)' = n
        BY <1>2, <1>3, <2>2 DEF Counted, Top
      <3> QED
        BY <1>1, <1>2, <1>3, <2>1, <2>2, <3>1, <3>2
           DEF DepthOK, At, Top, DispatcherAssumption
    <2> QED
      BY <1>5, <1>6, <2>4, <2>5, <2>6 DEF IInv
  <1> QED
    BY <1>1, <1>7, <1>8

LEMMA UnlockStep ==
    ASSUME DispatcherAssumption, IInv, NEW t \in Threads, Unlock(t)
    PROVE  IInv'
  <1>1. stack[t] # <<>> /\ Top(t).pc = "unlock" /\ Pop(t)
        /\ mtx' = NoThread /\ UNCHANGED <<goid, recursion>>
    BY DEF Unlock, At
  <1>2. Len(stack[t]) = 1 /\ Top(t) = stack[t][1] /\ Top(t).owns
    BY <1>1, BottomFrame, TopFacts
  <1>3. /\ stack' \in [Threads -> Seq(Frame)] /\ stack'[t] = <<>>
        /\ \A u \in Threads : u # t => stack'[u] = stack[u]
    <2>1. stack \in [Threads -> Seq(Frame)]
      BY DEF IInv, TypeOK
    <2> QED
      BY <1>1, <1>2, <2>1, PopStack
  <1>4. mtx = t /\ goid # t /\ t # NoThread
    BY <1>1, <1>2 DEF IInv, LockOK, Holds, Inside, DispatcherAssumption
  <1>5. FrameOK(t)'
    <2>1. Len(stack'[t]) = 0
      BY <1>3, EmptySeq
    <2>2. \A i \in 1..Len(stack'[t]) : FALSE
      BY <2>1
    <2> QED
      BY <2>2 DEF FrameOK
  <1>6. LockOK(t)'
    BY <1>1, <1>3, <1>4 DEF LockOK, Holds
  <1>7. ASSUME NEW u \in Threads, u # t
        PROVE  FrameOK(u)' /\ LockOK(u)'
    BY <1>1, <1>3, <1>4, <1>7 DEF IInv, FrameOK, LockOK, Holds, DispatcherAssumption
  <1>8. TypeOK'
    BY <1>1, <1>3 DEF IInv, TypeOK, Unlock
  <1>9. DepthOK'
    <2>1. recursion = 0
      <3>1. recursion = Counted(t)
        BY <1>4 DEF IInv, DepthOK
      <3>2. Counted(t) = Len(stack[t]) - 1
        BY <1>1 DEF Counted
      <3> QED
        BY <1>2, <3>1, <3>2
    <2> QED
      BY <1>1, <2>1 DEF DepthOK
  <1> QED
    BY <1>5, <1>6, <1>7, <1>8, <1>9 DEF IInv

\* An owning frame clears goid; a nested one is popped and its handler goes on.
LEMMA LeaveStep ==
    ASSUME DispatcherAssumption, IInv, NEW t \in Threads, Leave(t)
    PROVE  IInv'
  <1> DEFINE n == Len(stack[t])
  <1>1. stack[t] # <<>> /\ Top(t).pc = "leave" /\ UNCHANGED <<mtx, recursion>>
    BY DEF Leave, At
  <1>2. mtx = t /\ goid = t /\ FrameOK(t) /\ LockOK(t) /\ t # NoThread
    BY <1>1, TopInside DEF IInv, Inside, DispatcherAssumption
  <1>3. recursion = n - 1 /\ n =< MaxRecursion + 1
    <2>1. recursion = Counted(t) /\ n =< MaxRecursion + 1
      BY <1>2 DEF IInv, DepthOK
    <2> QED
      BY <1>1, <2>1 DEF Counted
  <1>4. CASE Top(t).owns
    <2> DEFINE f == [Top(t) EXCEPT !.pc = "unlock"]
    <2>1. Becomes(t, f) /\ goid' = NoThread
      BY <1>4 DEF Leave, Goto
    <2>2. n = 1 /\ Top(t) = stack[t][1] /\ Top(t) \in Frame
      BY <1>1, <1>4, TopFacts
    <2>3. /\ f \in Frame /\ f.op = Top(t).op /\ f.owns /\ f.todo = {}
          /\ f.listener = Top(t).listener /\ f.pc = "unlock"
          /\ (f.listener # NoListener => f.op # "dispatch")
          /\ (f.op \in {"add", "remove"} => f.listener # NoListener)
      BY <1>1, <1>4, <2>2, TopFacts DEF Frame, Labels
    <2> HIDE DEF f
    <2>4. /\ stack' \in [Threads -> Seq(Frame)] /\ stack'[t] # <<>>
          /\ Len(stack'[t]) = 1 /\ stack'[t][1] = f
          /\ \A u \in Threads : u # t => stack'[u] = stack[u]
      <3>1. stack \in [Threads -> Seq(Frame)]
        BY DEF IInv, TypeOK
      <3> QED
        BY <1>1, <2>1, <2>2, <2>3, <3>1, BecomesStack
    <2>5. FrameOK(t)'
      BY <2>3, <2>4 DEF FrameOK, Inside
    <2>6. LockOK(t)'
      BY <1>1, <1>2, <2>1, <2>3, <2>4 DEF LockOK, Holds, Inside
    <2>7. ASSUME NEW u \in Threads, u # t
          PROVE  FrameOK(u)' /\ LockOK(u)'
      <3>1. stack'[u] = stack[u] /\ FrameOK(u) /\ LockOK(u)
        BY <2>4, <2>7 DEF IInv
      <3>2. FrameOK(u)'
        BY <3>1 DEF FrameOK
      <3>3. mtx' = mtx /\ goid # u /\ goid' # u
        BY <1>1, <1>2, <2>1, <2>7 DEF DispatcherAssumption
      <3>4. LockOK(u)'
        BY <3>1, <3>3 DEF LockOK, Holds
      <3> QED
        BY <3>2, <3>4
    <2>8. TypeOK'
      BY <1>1, <2>1, <2>4 DEF IInv, TypeOK, Leave
    <2>9. DepthOK'
      <3>1. recursion' = 0 /\ Counted(t)' = 0
        BY <1>1, <1>3, <2>2, <2>3, <2>4 DEF Counted, Top
      <3> QED
        BY <1>1, <1>2, <2>3, <2>4, <3>1 DEF DepthOK, At, Top, DispatcherAssumption
    <2> QED
      BY <2>5, <2>6, <2>7, <2>8, <2>9 DEF IInv
  <1>5. CASE ~Top(t).owns
    <2>1. Pop(t) /\ goid' = goid
      BY <1>5 DEF Leave
    <2>2. n \in Nat /\ n > 1 /\ n # 1 /\ stack[t][1].pc = "handler"
      BY <1>1, <1>5, TopFacts DEF Inside
    <2>3. /\ stack' \in [Threads -> Seq(Frame)]
          /\ Len(stack'[t]) = n - 1 /\ stack'[t] # <<>>
          /\ \A i \in 1..n - 1 : stack'[t][i] = stack[t][i]
          /\ \A u \in Threads : u # t => stack'[u] = stack[u]
      <3>1. stack \in [Threads -> Seq(Frame)]
        BY DEF IInv, TypeOK
      <3> QED
        BY <1>1, <2>1, <2>2, <3>1, PopStack
    <2>4. \A i \in 1..n - 1 : i \in 1..n /\ i < n
      <3> HIDE DEF n
      <3> QED
        BY <2>2
    <2>5. FrameOK(t)'
      <3>1. \A i \in 1..Len(stack'[t]) :
               i \in 1..Len(stack[t]) /\ stack'[t][i] = stack[t][i]
        BY <2>3, <2>4
      <3>2. \A i \in 1..Len(stack'[t]) : stack[t][i].pc = "handler"
        BY <1>2, <2>3, <2>4 DEF FrameOK
      <3> QED
        BY <1>2, <3>1, <3>2 DEF FrameOK
    <2>6. LockOK(t)'
      <3>1. 1 \in 1..n - 1 /\ n - 1 \in 1..n - 1
        <4> HIDE DEF n
        <4> QED
          BY <2>2
      <3> QED
        BY <1>1, <1>2, <2>1, <2>3, <3>1 DEF LockOK, Holds
    <2>7. ASSUME NEW u \in Threads, u # t
          PROVE  FrameOK(u)' /\ LockOK(u)'
      <3>1. stack'[u] = stack[u] /\ FrameOK(u) /\ LockOK(u)
        BY <2>3, <2>7 DEF IInv
      <3>2. FrameOK(u)'
        BY <3>1 DEF FrameOK
      <3>3. LockOK(u)'
        BY <1>1, <2>1, <3>1 DEF LockOK, Holds
      <3> QED
        BY <3>2, <3>3
    <2>8. TypeOK'
      BY <1>1, <2>1, <2>3 DEF IInv, TypeOK, Leave
    <2>9. DepthOK'
      <3>1. stack'[t][n - 1].pc = "handler"
        <4>1. n - 1 \in 1..n - 1
          <5> HIDE DEF n
          <5> QED
            BY <2>2
        <4> QED
          BY <1>2, <2>3, <2>4, <4>1 DEF FrameOK
      <3>2. Counted(t)' = n - 1
        BY <2>3, <3>1 DEF Counted, Top
      <3> HIDE DEF n
      <3>3. n - 1 =< MaxRecursion /\ MaxRecursion \in Nat
        BY <1>3, <2>2 DEF DispatcherAssumption
      <3>4. n - 1 =< MaxRecursion + 1
        BY <2>2, <3>3
      <3> QED
        BY <1>1, <1>2, <1>3, <2>3, <3>2, <3>3, <3>4 DEF DepthOK, At, Top
    <2> QED
      BY <2>5, <2>6, <2>7, <2>8, <2>9 DEF IInv
  <1> QED
    BY <1>4, <1>5

LEMMA IInvInit == DispatcherAssumption /\ Init => IInv
  <1> SUFFICES ASSUME DispatcherAssumption, Init PROVE IInv
    OBVIOUS
  <1>1. TypeOK
    <2>1. \A t \in Threads : <<>> \in Seq(Frame)
      BY EmptySeq
    <2>2. stack \in [Threads -> Seq(Frame)]
      BY <2>1 DEF Init
    <2> QED
      BY <2>2 DEF Init, TypeOK, DispatcherAssumption
  <1>2. ASSUME NEW t \in Threads
        PROVE  FrameOK(t) /\ LockOK(t)
    <2>1. stack[t] = <<>> /\ Len(stack[t]) = 0
      BY EmptySeq DEF Init
    <2>2. \A i \in 1..Len(stack[t]) : FALSE
      BY <2>1
    <2> QED
      BY <2>1, <2>2 DEF Init, FrameOK, LockOK, Holds, DispatcherAssumption
  <1>3. DepthOK
    BY DEF Init, DepthOK
  <1> QED
    BY <1>1, <1>2, <1>3 DEF IInv

LEMMA IInvStep == DispatcherAssumption /\ IInv /\ [Next]_vars => IInv'
  <1> SUFFICES ASSUME DispatcherAssumption, IInv, [Next]_vars PROVE IInv'
    OBVIOUS
  <1>1. CASE UNCHANGED vars
    BY <1>1 DEF IInv, TypeOK, FrameOK, LockOK, Holds, DepthOK, Counted, Top, At, vars
  <1>2. ASSUME NEW t \in Threads, NEW op \in Ops, NEW e \in Events,
               NEW l \in Listeners \cup {NoListener}, Call(t, op, e, l)
        PROVE  IInv'
    BY <1>2, CallStep
  <1>3. ASSUME NEW t \in Threads, Lock(t)
        PROVE  IInv'
    BY <1>3, LockStep
  <1>4. ASSUME NEW t \in Threads, Step(t)
        PROVE  IInv'
    <2>1. ASSUME NEW stop \in BOOLEAN, HandlerReturn(t, stop)
          PROVE  IInv'
      BY <2>1, HandlerReturnStep
    <2> QED
      BY <1>4, <2>1, CheckGoidStep, MarkStep, AddEventListenerStep,
         RemoveEventListenerStep, HasEventListenerStep, BeginDispatchStep,
         InvokeStep, EndLoopStep, HandlerPanicStep, UnwindStep, LeaveStep,
         UnlockStep DEF Step
  <1> QED
    BY <1>1, <1>2, <1>3, <1>4 DEF Next, Finished

\* The stacks, the mutex, goid and recursion always agree.
THEOREM Invariance == Spec => []IInv
  BY DispatcherAssumption, IInvInit, IInvStep, PTL DEF Spec

-----------------------------------------------------------------------------
(* The properties.                                                         *)

\* Every variable keeps its type: in particular recursion never goes below
\* zero and no counter or stack is left malformed by a panic.
THEOREM TypeCorrect == Spec => []TypeOK
  <1>1. IInv => TypeOK
    BY DEF IInv
  <1> QED
    BY <1>1, Invariance, PTL

\* A frame inside the dispatcher belongs to the holder of the mutex.
LEMMA LockIsHeld ==
    ASSUME IInv, NEW t \in Threads, NEW i \in 1..Len(stack[t]), stack[t][i].pc \in Inside
    PROVE  mtx = t /\ goid = t
  <1>1. stack[t] \in Seq(Frame) /\ stack[t] # <<>>
    BY EmptySeq DEF IInv, TypeOK
  <1>2. /\ Len(stack[t]) \in Nat /\ 1 \in 1..Len(stack[t])
        /\ (i = 1 \/ 1 < Len(stack[t]))
    BY <1>1, LenProperties
  <1>3. FrameOK(t) /\ LockOK(t)
    BY DEF IInv
  <1>4. stack[t][1].pc \in Inside /\ stack[t][1].owns
    BY <1>2, <1>3 DEF FrameOK, Inside
  <1> QED
    BY <1>1, <1>3, <1>4 DEF LockOK, Holds

\* For any number of goroutines, nested calls and recursion limit, only the
\* goroutine that holds the mutex works on the table, and goid is never stale.
THEOREM LockIsExclusive == Spec => []MutualExclusion
  <1>1. IInv => MutualExclusion
    <2>1. IInv => (goid # NoThread => mtx = goid)
      BY DEF IInv, TypeOK, LockOK
    <2> QED
      BY <2>1, LockIsHeld DEF MutualExclusion
  <1> QED
    BY <1>1, Invariance, PTL

\* A free mutex means a clean dispatcher, after any mix of returns, stopped
\* propagations, handler panics and recursion limits.
THEOREM CleanWhenFree == Spec => []FreeIsClean
  <1>1. DispatcherAssumption /\ IInv => FreeIsClean
    <2> SUFFICES ASSUME DispatcherAssumption, IInv, mtx = NoThread
                 PROVE  /\ goid = NoThread
                        /\ recursion = 0
                        /\ \A t \in Threads : \A i \in 1..Len(stack[t]) : ~stack[t][i].owns
      BY DEF FreeIsClean
    <2>1. \A t \in Threads : ~Holds(t) /\ goid # t
      BY DEF IInv, LockOK, DispatcherAssumption
    <2>2. goid = NoThread
      BY <2>1 DEF IInv, TypeOK
    <2>3. recursion = 0
      BY DEF IInv, DepthOK
    <2>4. ASSUME NEW t \in Threads, NEW i \in 1..Len(stack[t])
          PROVE  ~stack[t][i].owns
      <3>1. stack[t] \in Seq(Frame) /\ stack[t] # <<>>
        BY EmptySeq DEF IInv, TypeOK
      <3>2. i = 1 \/ i > 1
        BY <3>1, LenProperties
      <3> QED
        BY <2>1, <3>1, <3>2 DEF IInv, FrameOK, Holds
    <2> QED
      BY <2>2, <2>3, <2>4
  <1> QED
    BY <1>1, DispatcherAssumption, Invariance, PTL

\* However handlers nest their calls, MaxRecursion dispatches run handlers at
\* once at most, and a goroutine is never more than one call deeper.
THEOREM NestingIsBounded == Spec => []BoundedNesting
  <1>1. DispatcherAssumption /\ IInv => BoundedNesting
    <2> SUFFICES ASSUME DispatcherAssumption, IInv PROVE BoundedNesting
      OBVIOUS
    <2>1. MaxRecursion \in Nat \ {0}
      BY DEF DispatcherAssumption
    <2>2. recursion =< MaxRecursion + 1
      BY <2>1 DEF IInv, DepthOK
    <2>3. ASSUME NEW t \in Threads
          PROVE  Len(stack[t]) =< MaxRecursion + 1
      <3>1. CASE mtx = t
        BY <3>1 DEF IInv, DepthOK, DispatcherAssumption
      <3>2. CASE mtx # t
        <4>1. CASE stack[t] = <<>>
          <5>1. Len(stack[t]) = 0
            BY <4>1, EmptySeq
          <5> QED
            BY <2>1, <5>1
        <4>2. CASE stack[t] # <<>>
          <5>1. ~Holds(t)
            BY <3>2 DEF IInv, LockOK
          <5>2. ~(Len(stack[t]) > 1)
            <6>1. FrameOK(t) /\ 1 \in 1..Len(stack[t])
              BY <4>2, TopFacts DEF IInv
            <6> QED
              BY <4>2, <5>1, <6>1, TopFacts DEF FrameOK, Holds, Inside
          <5>3. Len(stack[t]) = 1
            BY <4>2, <5>2, TopFacts
          <5> QED
            BY <2>1, <5>3
        <4> QED
          BY <4>1, <4>2
      <3> QED
        BY <3>1, <3>2
    <2>4. ASSUME NEW t \in Threads, NEW i \in 1..Len(stack[t]), stack[t][i].pc = "handler"
          PROVE  i =< MaxRecursion
      <3>1. /\ stack[t] # <<>> /\ Len(stack[t]) \in Nat /\ i \in Nat
            /\ i =< Len(stack[t]) /\ Len(stack[t]) =< MaxRecursion + 1
        BY <2>3, TopFacts, EmptySeq, LenProperties DEF IInv, TypeOK
      <3>2. CASE i < Len(stack[t])
        BY <2>1, <3>1, <3>2
      <3>3. CASE i = Len(stack[t])
        <4>1. mtx = t
          BY <2>4, LockIsHeld DEF Inside
        <4>2. Top(t).pc = "handler" /\ At(t, "handler")
          BY <2>4, <3>1, <3>3 DEF Top, At
        <4>3. recursion =< MaxRecursion /\ recursion = Len(stack[t])
          BY <4>1, <4>2, <3>1, DispatcherAssumption DEF IInv, DepthOK, Counted, DispatcherAssumption
        <4> QED
          BY <3>3, <4>3
      <3> QED
        BY <3>1, <3>2, <3>3
    <2> QED
      BY <2>2, <2>3, <2>4 DEF BoundedNesting
  <1> QED
    BY <1>1, DispatcherAssumption, Invariance, PTL

\* A goroutine that does not hold the mutex has one call at most, which has
\* not entered the dispatcher yet.
LEMMA WaitingFrames ==
    ASSUME IInv, NEW u \in Threads, mtx # u, NEW j \in 1..Len(stack[u])
    PROVE  stack[u][j].todo = {} /\ (stack[u][j].op = "dispatch" => stack[u][j].listener = NoListener)
  <1>1. FrameOK(u) /\ ~Holds(u)
    BY DEF IInv, LockOK
  <1>2. stack[u] # <<>>
    BY EmptySeq
  <1>3. Len(stack[u]) \in Nat /\ 1 \in 1..Len(stack[u]) /\ (j = 1 \/ j > 1)
    BY <1>2, TopFacts
  <1>4. ~stack[u][1].owns
    BY <1>1, <1>2 DEF Holds
  <1>5. stack[u][1].pc # "handler"
    BY <1>1, <1>3, <1>4 DEF FrameOK, Inside
  <1>6. ~(1 < Len(stack[u]))
    BY <1>1, <1>3, <1>5 DEF FrameOK
  <1>7. j = 1
    BY <1>3, <1>6
  <1> QED
    BY <1>1, <1>3, <1>4, <1>7 DEF FrameOK, Inside

\* After a RemoveEventListener from outside any handler, no goroutine's
\* dispatch of that event is still going to call the listener.
THEOREM RemovalIsFinal == Spec => []RemovedIsQuiet
  <1>1. DispatcherAssumption /\ IInv => RemovedIsQuiet
    <2> SUFFICES ASSUME DispatcherAssumption, IInv,
                        NEW t \in Threads, NEW i \in 1..Len(stack[t]),
                        stack[t][i].op = "remove", stack[t][i].owns,
                        stack[t][i].pc \in {"leave", "unlock"},
                        NEW u \in Threads, NEW j \in 1..Len(stack[u]),
                        stack[u][j].op = "dispatch"
                 PROVE  stack[t][i].listener \notin stack[u][j].todo \cup {stack[u][j].listener}
      BY DEF RemovedIsQuiet
    <2>1. stack[t] # <<>> /\ FrameOK(t) /\ LockOK(t)
      BY EmptySeq DEF IInv
    <2>2. Len(stack[t]) \in Nat /\ 1 \in 1..Len(stack[t]) /\ (i = 1 \/ i > 1)
      BY <2>1, TopFacts
    <2>3. i = 1 /\ ~(i < Len(stack[t]))
      BY <2>1, <2>2 DEF FrameOK
    <2>4. mtx = t
      BY <2>1, <2>3 DEF LockOK, Holds
    <2>5. u # t
      <3>1. j = 1 \/ u # t
        BY <2>2, <2>3
      <3> QED
        BY <2>3, <3>1
    <2>6. stack[t][i].listener # NoListener
      BY <2>1 DEF FrameOK
    <2>7. stack[u][j].todo = {} /\ stack[u][j].listener = NoListener
      BY <2>4, <2>5, WaitingFrames
    <2> QED
      BY <2>6, <2>7
  <1> QED
    BY <1>1, DispatcherAssumption, Invariance, PTL

-----------------------------------------------------------------------------
(* Limited listeners.                                                      *)

\* The listeners a call in progress is calling or still going to call.
Targets(f) == IF f.op = "dispatch" THEN f.todo \cup {f.listener} ELSE {}

\* The calls of a goroutine that still owe listener l a return.
Due(t, l) == {i \in 1..Len(stack[t]) : l \in Targets(stack[t][i])}

MostReturns(l) == Limit[l] + MaxRecursion - 1

\* What holds of a limited listener registered once at most.  It belongs to
\* one event.  While its count lasts every return is counted; once the count
\* is used up it is registered nowhere, and each dispatch in progress may
\* still call it once.
Accounted(l) ==
    /\ added[l] = 0 => /\ \A e \in Events : l \notin listeners[e]
                       /\ \A t \in Threads : Due(t, l) = {}
                       /\ count[l] = Limit[l]
    /\ \A d, e \in Events : l \in listeners[d] /\ l \in listeners[e] => d = e
    /\ \A t \in Threads, e \in Events : \A i \in Due(t, l) :
          l \in listeners[e] => stack[t][i].event = e
    /\ count[l] > 0 => returned[l] + count[l] = Limit[l]
    /\ count[l] = 0 =>
          /\ \A e \in Events : l \notin listeners[e]
          /\ returned[l] =< MostReturns(l)
          /\ \A t \in Threads : returned[l] + Cardinality(Due(t, l)) =< MostReturns(l)

OnceOK(l) == Limit[l] > 0 /\ added[l] =< 1 => Accounted(l)

\* No call owes l a return that it did not owe before the step.
DueShrinks(l) ==
    \A u \in Threads :
        /\ Due(u, l)' \subseteq Due(u, l)
        /\ \A i \in Due(u, l)' : stack'[u][i].event = stack[u][i].event

LEMMA DueIsFinite ==
    ASSUME IInv, NEW t \in Threads, NEW l
    PROVE  IsFiniteSet(Due(t, l)) /\ Cardinality(Due(t, l)) \in Nat
  <1>1. Len(stack[t]) \in Nat
    BY LenProperties DEF IInv, TypeOK
  <1>2. IsFiniteSet(1..Len(stack[t]))
    BY <1>1, FS_Interval
  <1>3. Due(t, l) \subseteq 1..Len(stack[t])
    BY DEF Due
  <1> QED
    BY <1>2, <1>3, FS_Subset, FS_CardinalityType

\* A step that makes no new debt to l, and neither counts nor registers it,
\* keeps the account of l.
LEMMA QuietStep ==
    ASSUME DispatcherAssumption, IInv, NEW l \in Listeners, OnceOK(l), DueShrinks(l),
           \A e \in Events : l \in listeners'[e] => l \in listeners[e],
           count'[l] = count[l], added'[l] = added[l], returned'[l] = returned[l]
    PROVE  OnceOK(l)'
  <1> SUFFICES ASSUME Limit[l] > 0, added[l] =< 1
               PROVE  Accounted(l)'
    BY DEF OnceOK
  <1>1. Accounted(l)
    BY DEF OnceOK
  <1>2. ASSUME NEW t \in Threads
        PROVE  /\ Due(t, l)' \subseteq Due(t, l)
               /\ Cardinality(Due(t, l)') =< Cardinality(Due(t, l))
               /\ Cardinality(Due(t, l)') \in Nat /\ Cardinality(Due(t, l)) \in Nat
               /\ \A i \in Due(t, l)' : stack'[t][i].event = stack[t][i].event
    BY DueIsFinite, FS_Subset, FS_CardinalityType DEF DueShrinks
  <1>3. added'[l] = 0 => /\ \A e \in Events : l \notin listeners'[e]
                         /\ \A t \in Threads : Due(t, l)' = {}
                         /\ count'[l] = Limit[l]
    BY <1>1, <1>2 DEF Accounted
  <1>4. \A t \in Threads, e \in Events : \A i \in Due(t, l)' :
          l \in listeners'[e] => stack'[t][i].event = e
    BY <1>1, <1>2 DEF Accounted
  <1>5. ASSUME count[l] = 0, NEW t \in Threads
        PROVE  returned'[l] + Cardinality(Due(t, l)') =< MostReturns(l)
    <2>1. returned[l] + Cardinality(Due(t, l)) =< MostReturns(l)
      BY <1>1, <1>5 DEF Accounted
    <2>2. returned[l] \in Nat /\ Limit[l] \in Nat /\ MaxRecursion \in Nat
      BY DEF IInv, TypeOK, DispatcherAssumption
    <2> QED
      BY <1>2, <2>1, <2>2 DEF MostReturns
  <1> QED
    BY <1>1, <1>3, <1>4, <1>5 DEF Accounted, MostReturns

\* Replacing the top frame by one that owes l no more.
LEMMA DueBecomes ==
    ASSUME IInv, NEW t \in Threads, NEW f \in Frame, NEW l,
           stack[t] # <<>>, Becomes(t, f),
           l \in Targets(f) => l \in Targets(Top(t)), f.event = Top(t).event
    PROVE  DueShrinks(l)
  <1>1. /\ stack[t] \in Seq(Frame)
        /\ stack \in [Threads -> Seq(Frame)]
    BY DEF IInv, TypeOK
  <1>2. /\ Len(stack'[t]) = Len(stack[t])
        /\ stack'[t][Len(stack[t])] = f
        /\ \A i \in 1..Len(stack[t]) :
              i # Len(stack[t]) => stack'[t][i] = stack[t][i]
        /\ \A u \in Threads : u # t => stack'[u] = stack[u]
    BY <1>1, BecomesStack
  <1>3. Top(t) = stack[t][Len(stack[t])]
    BY DEF Top
  <1> SUFFICES ASSUME NEW u \in Threads, NEW i \in Due(u, l)'
               PROVE  i \in Due(u, l) /\ stack'[u][i].event = stack[u][i].event
    BY DEF DueShrinks
  <1>4. i \in 1..Len(stack'[u]) /\ l \in Targets(stack'[u][i])
    BY DEF Due, Targets
  <1>5. CASE u # t
    BY <1>2, <1>4, <1>5 DEF Due
  <1>6. CASE u = t
    <2>1. CASE i # Len(stack[t])
      BY <1>2, <1>4, <1>6, <2>1 DEF Due
    <2>2. CASE i = Len(stack[t])
      BY <1>2, <1>3, <1>4, <1>6, <2>2 DEF Due
    <2> QED
      BY <2>1, <2>2
  <1> QED
    BY <1>5, <1>6

\* A return drops a frame.
LEMMA DuePop ==
    ASSUME IInv, NEW t \in Threads, NEW l, stack[t] # <<>>, Pop(t)
    PROVE  DueShrinks(l)
  <1>1. /\ stack[t] \in Seq(Frame) /\ Len(stack[t]) \in Nat
        /\ stack \in [Threads -> Seq(Frame)]
    BY LenProperties DEF IInv, TypeOK
  <1>2. /\ Len(stack'[t]) = Len(stack[t]) - 1
        /\ \A i \in 1..Len(stack[t]) - 1 : stack'[t][i] = stack[t][i]
        /\ \A u \in Threads : u # t => stack'[u] = stack[u]
    BY <1>1, PopStack
  <1> SUFFICES ASSUME NEW u \in Threads, NEW i \in Due(u, l)'
               PROVE  i \in Due(u, l) /\ stack'[u][i].event = stack[u][i].event
    BY DEF DueShrinks
  <1>4. i \in 1..Len(stack'[u]) /\ l \in Targets(stack'[u][i])
    BY DEF Due, Targets
  <1>5. CASE u # t
    BY <1>2, <1>4, <1>5 DEF Due
  <1>6. CASE u = t
    <2>1. i \in 1..Len(stack[t]) - 1 /\ i \in 1..Len(stack[t])
      BY <1>1, <1>2, <1>4, <1>6
    <2> QED
      BY <1>2, <1>4, <1>6, <2>1 DEF Due
  <1> QED
    BY <1>5, <1>6

\* A new call owes nobody anything yet.
LEMMA DueCall ==
    ASSUME DispatcherAssumption, IInv, NEW t \in Threads, NEW op \in Ops, NEW e \in Events,
           NEW k \in Listeners \cup {NoListener}, NEW l \in Listeners, Call(t, op, e, k)
    PROVE  DueShrinks(l)
  <1> DEFINE f == NewFrame(op, e, k)
  <1>1. /\ stack[t] \in Seq(Frame) /\ Len(stack[t]) \in Nat
        /\ stack \in [Threads -> Seq(Frame)]
    BY LenProperties DEF IInv, TypeOK
  <1>2. f \in Frame /\ l \notin Targets(f)
    BY DEF NewFrame, Frame, Labels, Targets, Call, DispatcherAssumption
  <1>3. stack' = [stack EXCEPT ![t] = Append(@, f)]
    BY DEF Call
  <1> HIDE DEF f
  <1>4. /\ Len(stack'[t]) = Len(stack[t]) + 1
        /\ stack'[t][Len(stack[t]) + 1] = f
        /\ \A i \in 1..Len(stack[t]) : stack'[t][i] = stack[t][i]
        /\ \A u \in Threads : u # t => stack'[u] = stack[u]
    BY <1>1, <1>2, <1>3, PushStack
  <1> SUFFICES ASSUME NEW u \in Threads, NEW i \in Due(u, l)'
               PROVE  i \in Due(u, l) /\ stack'[u][i].event = stack[u][i].event
    BY DEF DueShrinks
  <1>5. i \in 1..Len(stack'[u]) /\ l \in Targets(stack'[u][i])
    BY DEF Due, Targets
  <1>6. CASE u # t
    BY <1>4, <1>5, <1>6 DEF Due
  <1>7. CASE u = t
    <2>1. i # Len(stack[t]) + 1
      BY <1>2, <1>4, <1>5, <1>7
    <2>2. i \in 1..Len(stack[t])
      BY <1>1, <1>4, <1>5, <1>7, <2>1
    <2> QED
      BY <1>4, <1>5, <1>7, <2>2 DEF Due
  <1> QED
    BY <1>6, <1>7

\* The steps that call no listener and change no table.
LEMMA QuietSteps ==
    ASSUME DispatcherAssumption, IInv, NEW t \in Threads, NEW l \in Listeners,
           OnceOK(l),
           \/ CheckGoid(t) \/ Lock(t) \/ Mark(t) \/ HasEventListener(t)
           \/ EndLoop(t) \/ HandlerPanic(t) \/ Unwind(t) \/ Leave(t) \/ Unlock(t)
    PROVE  OnceOK(l)'
  <1>1. stack[t] # <<>>
    BY DEF At, CheckGoid, Lock, Mark, HasEventListener, EndLoop, HandlerPanic,
           Unwind, Leave, Unlock
  <1>2. Top(t) \in Frame
    BY <1>1, TopFacts
  <1>3. ASSUME NEW pc \in Labels, NEW b \in BOOLEAN,
               Becomes(t, [Top(t) EXCEPT !.pc = pc, !.owns = b])
        PROVE  DueShrinks(l)
    <2> DEFINE f == [Top(t) EXCEPT !.pc = pc, !.owns = b]
    <2>1. f \in Frame /\ f.event = Top(t).event /\ Targets(f) = Targets(Top(t))
      BY <1>2 DEF Frame, Targets
    <2> HIDE DEF f
    <2> QED
      BY <1>1, <1>3, <2>1, DueBecomes DEF f
  <1>4. ASSUME NEW pc \in Labels, Goto(t, pc)
        PROVE  DueShrinks(l)
    <2>1. [Top(t) EXCEPT !.pc = pc] = [Top(t) EXCEPT !.pc = pc, !.owns = Top(t).owns]
      BY <1>2 DEF Frame
    <2>2. Top(t).owns \in BOOLEAN
      BY <1>2 DEF Frame
    <2> QED
      BY <1>3, <1>4, <2>1, <2>2 DEF Goto
  <1>5. HandlerPanic(t) => DueShrinks(l)
    <2> SUFFICES ASSUME HandlerPanic(t) PROVE DueShrinks(l)
      OBVIOUS
    <2> DEFINE f == [Top(t) EXCEPT !.pc = "unwind", !.listener = NoListener, !.todo = {}]
    <2>1. f \in Frame /\ f.event = Top(t).event /\ l \notin Targets(f)
      BY <1>2 DEF Frame, Targets, DispatcherAssumption, Labels
    <2>2. Becomes(t, f)
      BY DEF HandlerPanic
    <2> HIDE DEF f
    <2> QED
      BY <1>1, <2>1, <2>2, DueBecomes
  <1>6. Lock(t) => DueShrinks(l)
    BY <1>3 DEF Lock, Labels
  <1>7. CheckGoid(t) \/ Mark(t) \/ HasEventListener(t) \/ EndLoop(t) \/ Unwind(t)
        => DueShrinks(l)
    BY <1>4 DEF CheckGoid, Mark, HasEventListener, EndLoop, Unwind, Labels
  <1>8. Leave(t) \/ Unlock(t) => DueShrinks(l)
    BY <1>1, <1>4, DuePop DEF Leave, Unlock, Labels
  <1>9. DueShrinks(l)
    BY <1>5, <1>6, <1>7, <1>8
  <1>10. UNCHANGED <<listeners, count, added, returned>>
    BY DEF CheckGoid, Lock, Mark, HasEventListener, EndLoop, HandlerPanic,
           Unwind, Leave, Unlock
  <1> QED
    BY <1>9, <1>10, QuietStep

\* Calling a due listener moves it from todo to listener.
LEMMA InvokeAccount ==
    ASSUME DispatcherAssumption, IInv, NEW t \in Threads, NEW l \in Listeners,
           OnceOK(l), Invoke(t)
    PROVE  OnceOK(l)'
  <1>1. stack[t] # <<>> /\ Top(t).pc = "loop"
    BY DEF At, Invoke
  <1>2. Top(t) \in Frame
    BY <1>1, TopFacts
  <1>3. PICK k \in Top(t).todo :
          Becomes(t, [Top(t) EXCEPT !.pc = "handler", !.listener = k, !.todo = @ \ {k}])
    BY DEF Invoke
  <1> DEFINE f == [Top(t) EXCEPT !.pc = "handler", !.listener = k, !.todo = @ \ {k}]
  <1>4. /\ f \in Frame /\ f.event = Top(t).event
        /\ l \in Targets(f) => l \in Targets(Top(t))
    BY <1>2 DEF Frame, Targets, Labels
  <1>5. Becomes(t, f)
    BY <1>3
  <1> HIDE DEF f
  <1>6. DueShrinks(l)
    BY <1>1, <1>4, <1>5, DueBecomes
  <1> QED
    BY <1>6, QuietStep DEF Invoke

\* A registration is the first one, or the listener is not limited to one.
LEMMA AddAccount ==
    ASSUME DispatcherAssumption, IInv, NEW t \in Threads, NEW l \in Listeners,
           OnceOK(l), AddEventListener(t)
    PROVE  OnceOK(l)'
  <1>1. stack[t] # <<>> /\ Top(t).pc = "body" /\ Top(t).op = "add"
    BY DEF At, AddEventListener
  <1>2. /\ Top(t) \in Frame /\ Top(t).listener \in Listeners
        /\ Top(t).event \in Events
    BY <1>1, TopFacts DEF Frame
  <1> DEFINE f == [Top(t) EXCEPT !.pc = "leave"]
  <1>3. f \in Frame /\ f.event = Top(t).event /\ Targets(f) = Targets(Top(t))
    BY <1>2 DEF Frame, Targets, Labels
  <1>4. Becomes(t, f)
    BY DEF AddEventListener, Goto
  <1> HIDE DEF f
  <1>5. DueShrinks(l)
    BY <1>1, <1>3, <1>4, DueBecomes
  <1>6. UNCHANGED <<count, returned>>
    BY DEF AddEventListener
  <1>7. listeners \in [Events -> SUBSET Listeners] /\ added \in [Listeners -> Nat]
    BY DEF IInv, TypeOK
  <1>8. CASE Top(t).listener # l
    <2>1. added'[l] = added[l]
      BY <1>7, <1>8 DEF AddEventListener
    <2>2. \A e \in Events : l \in listeners'[e] <=> l \in listeners[e]
      BY <1>2, <1>7, <1>8 DEF AddEventListener
    <2> QED
      BY <1>5, <1>6, <2>1, <2>2, QuietStep
  <1>9. CASE Top(t).listener = l
    <2>1. added'[l] = added[l] + 1
      BY <1>7, <1>9 DEF AddEventListener
    <2> SUFFICES ASSUME Limit[l] > 0, added[l] = 0
                 PROVE  Accounted(l)'
      BY <1>7, <2>1 DEF OnceOK
    <2>2. Accounted(l)
      BY DEF OnceOK
    <2>3. \A e \in Events : l \in listeners'[e] => e = Top(t).event
      BY <1>2, <1>7, <2>2 DEF AddEventListener, Accounted
    <2>4. \A u \in Threads : Due(u, l)' = {}
      BY <1>5, <2>2 DEF Accounted, DueShrinks
    <2>5. added'[l] # 0
      BY <2>1
    <2>6. count[l] > 0
      BY <2>2 DEF Accounted
    <2> QED
      BY <1>6, <2>2, <2>3, <2>4, <2>5, <2>6 DEF Accounted
  <1> QED
    BY <1>8, <1>9

LEMMA RemoveAccount ==
    ASSUME DispatcherAssumption, IInv, NEW t \in Threads, NEW l \in Listeners,
           OnceOK(l), RemoveEventListener(t)
    PROVE  OnceOK(l)'
  <1>1. stack[t] # <<>> /\ Top(t).pc = "body"
    BY DEF At, RemoveEventListener
  <1>2. Top(t) \in Frame
    BY <1>1, TopFacts
  <1> DEFINE f == [Top(t) EXCEPT !.pc = "leave"]
  <1>3. f \in Frame /\ f.event = Top(t).event /\ Targets(f) = Targets(Top(t))
    BY <1>2 DEF Frame, Targets, Labels
  <1>4. Becomes(t, f)
    BY DEF RemoveEventListener, Goto
  <1> HIDE DEF f
  <1>5. DueShrinks(l)
    BY <1>1, <1>3, <1>4, DueBecomes
  <1>6. \A e \in Events : l \in listeners'[e] => l \in listeners[e]
    BY DEF IInv, TypeOK, RemoveEventListener
  <1> QED
    BY <1>5, <1>6, QuietStep DEF RemoveEventListener

\* A dispatch owes a return to the listeners of its event only, none of
\* which has used up its count.
LEMMA BeginAccount ==
    ASSUME DispatcherAssumption, IInv, NEW t \in Threads, NEW l \in Listeners,
           OnceOK(l), BeginDispatch(t)
    PROVE  OnceOK(l)'
  <1>1. stack[t] # <<>> /\ Top(t).pc = "body" /\ Top(t).op = "dispatch"
    BY DEF At, BeginDispatch
  <1>2. Top(t) \in Frame /\ Top(t).event \in Events
    BY <1>1, TopFacts DEF Frame
  <1>3. Top(t).listener = NoListener /\ Top(t).todo = {}
    BY <1>1, TopFacts
  <1>4. listeners \in [Events -> SUBSET Listeners]
    BY DEF IInv, TypeOK
  <1>5. UNCHANGED <<listeners, count, added, returned>>
    BY DEF BeginDispatch
  <1>6. PICK f \in Frame :
          /\ Becomes(t, f) /\ f.event = Top(t).event
          /\ Targets(f) \subseteq {NoListener} \cup listeners[f.event]
    <2>1. CASE recursion + 1 > MaxRecursion
      <3> DEFINE g == [Top(t) EXCEPT !.pc = "unwind"]
      <3>1. g \in Frame /\ g.event = Top(t).event /\ Targets(g) = {NoListener}
        BY <1>1, <1>2, <1>3 DEF Frame, Labels, Targets
      <3>2. Becomes(t, g)
        BY <2>1 DEF BeginDispatch, Goto
      <3> QED
        BY <3>1, <3>2
    <2>2. CASE ~(recursion + 1 > MaxRecursion)
      <3> DEFINE g == [Top(t) EXCEPT !.pc = "loop", !.todo = listeners[Top(t).event]]
      <3>1. /\ g \in Frame /\ g.event = Top(t).event
            /\ Targets(g) \subseteq {NoListener} \cup listeners[g.event]
        BY <1>1, <1>2, <1>3, <1>4 DEF Frame, Labels, Targets
      <3>2. Becomes(t, g)
        BY <2>2 DEF BeginDispatch
      <3> QED
        BY <3>1, <3>2
    <2> QED
      BY <2>1, <2>2
  <1>7. l # NoListener
    BY DEF DispatcherAssumption
  <1>8. CASE l \notin listeners[f.event]
    <2>1. DueShrinks(l)
      BY <1>1, <1>6, <1>7, <1>8, DueBecomes
    <2> QED
      BY <1>5, <2>1, QuietStep
  <1>9. CASE l \in listeners[f.event]
    <2> SUFFICES ASSUME Limit[l] > 0, added[l] =< 1
                 PROVE  Accounted(l)'
      BY <1>5 DEF OnceOK
    <2>1. Accounted(l)
      BY DEF OnceOK
    <2>2. count[l] # 0 /\ added[l] # 0 /\ f.event \in Events
      BY <1>2, <1>6, <1>9, <2>1 DEF Accounted
    <2>3. /\ Len(stack'[t]) = Len(stack[t])
          /\ stack'[t][Len(stack[t])] = f
          /\ \A i \in 1..Len(stack[t]) :
                i # Len(stack[t]) => stack'[t][i] = stack[t][i]
          /\ \A u \in Threads : u # t => stack'[u] = stack[u]
      <3>1. stack \in [Threads -> Seq(Frame)]
        BY DEF IInv, TypeOK
      <3> QED
        BY <1>1, <1>6, <3>1, BecomesStack
    <2>4. ASSUME NEW u \in Threads, NEW e \in Events, NEW i \in Due(u, l)',
                 l \in listeners'[e]
          PROVE  stack'[u][i].event = e
      <3>1. i \in 1..Len(stack'[u]) /\ l \in Targets(stack'[u][i])
        BY DEF Due, Targets
      <3>2. CASE u = t /\ i = Len(stack[t])
        BY <1>5, <1>9, <2>1, <2>2, <2>3, <2>4, <3>2 DEF Accounted
      <3>3. CASE ~(u = t /\ i = Len(stack[t]))
        <4>1. i \in 1..Len(stack[u]) /\ stack'[u][i] = stack[u][i]
          BY <2>3, <3>1, <3>3
        <4>2. i \in Due(u, l)
          BY <3>1, <4>1 DEF Due
        <4> QED
          BY <1>5, <2>1, <2>4, <4>1, <4>2 DEF Accounted
      <3> QED
        BY <3>2, <3>3
    <2> QED
      BY <1>5, <2>1, <2>2, <2>4 DEF Accounted
  <1> QED
    BY <1>8, <1>9

\* The running listener is no longer due in its own dispatch.
RunningIsNotDue ==
    \A t \in Threads : \A i \in 1..Len(stack[t]) : stack[t][i].listener \notin stack[t][i].todo

\* A return is counted while the count lasts; the last one removes the
\* listener, and every later one pays a debt.
LEMMA ReturnAccount ==
    ASSUME DispatcherAssumption, IInv, RunningIsNotDue, NEW t \in Threads,
           NEW l \in Listeners, OnceOK(l), NEW stop \in BOOLEAN, HandlerReturn(t, stop)
    PROVE  OnceOK(l)'
  <1>1. stack[t] # <<>> /\ Top(t).pc = "handler" /\ At(t, "handler")
    BY DEF At, HandlerReturn
  <1> DEFINE n == Len(stack[t])
             k == Top(t).listener
             f == [Top(t) EXCEPT !.pc = IF stop THEN "unwind" ELSE "loop",
                                 !.listener = NoListener,
                                 !.todo = IF stop THEN {} ELSE @]
  <1>2. /\ Top(t) \in Frame /\ Top(t).event \in Events
        /\ n \in Nat /\ n \in 1..n /\ Top(t) = stack[t][n]
    BY <1>1, TopFacts DEF Frame
  <1>3. k \in Listeners /\ Top(t).op = "dispatch" /\ k \notin Top(t).todo
    <2>1. k # NoListener /\ Top(t).op = "dispatch"
      BY <1>1, <1>2 DEF IInv, FrameOK
    <2> QED
      BY <1>2, <2>1 DEF RunningIsNotDue, Frame
  <1>4. /\ f \in Frame /\ f.event = Top(t).event
        /\ Targets(f) \subseteq {NoListener} \cup Top(t).todo
        /\ l \in Targets(f) => l \in Targets(Top(t))
    BY <1>2, <1>3 DEF Frame, Labels, Targets, DispatcherAssumption
  <1>5. Becomes(t, f) /\ added' = added
    BY DEF HandlerReturn
  <1> HIDE DEF f
  <1>6. DueShrinks(l)
    BY <1>1, <1>4, <1>5, DueBecomes
  <1>7. /\ listeners \in [Events -> SUBSET Listeners] /\ count \in [Listeners -> Nat]
        /\ returned \in [Listeners -> Nat] /\ added \in [Listeners -> Nat]
        /\ MaxRecursion \in Nat \ {0} /\ Limit \in [Listeners -> Nat]
    BY DEF IInv, TypeOK, DispatcherAssumption
  <1>8. \A e \in Events : l \in listeners'[e] => l \in listeners[e]
    BY <1>7 DEF HandlerReturn
  <1>9. CASE k # l
    <2>1. count'[l] = count[l] /\ returned'[l] = returned[l]
      BY <1>7, <1>9 DEF HandlerReturn
    <2> QED
      BY <1>5, <1>6, <1>8, <2>1, QuietStep
  <1>10. CASE k = l
    <2> SUFFICES ASSUME Limit[l] > 0, added[l] =< 1
                 PROVE  Accounted(l)'
      BY <1>5 DEF OnceOK
    <2>1. Accounted(l)
      BY DEF OnceOK
    <2>2. n \in Due(t, l)
      BY <1>2, <1>3, <1>10 DEF Due, Targets
    <2>3. added[l] # 0
      BY <2>1, <2>2 DEF Accounted
    <2>4. returned'[l] = returned[l] + 1
      BY <1>7, <1>10 DEF HandlerReturn
    <2>5. count'[l] = IF count[l] > 0 THEN count[l] - 1 ELSE count[l]
      BY <1>7, <1>10 DEF HandlerReturn
    <2>6. n =< MaxRecursion
      <3>1. mtx = t /\ t # NoThread
        BY <1>1, TopInside DEF Inside, DispatcherAssumption
      <3>2. recursion = n /\ recursion =< MaxRecursion
        BY <1>1, <3>1 DEF IInv, DepthOK, Counted
      <3> QED
        BY <3>2
    <2>7. Due(t, l)' \subseteq Due(t, l) \ {n}
      <3>1. stack'[t][n] = f
        <4>1. stack \in [Threads -> Seq(Frame)]
          BY DEF IInv, TypeOK
        <4> QED
          BY <1>1, <1>4, <1>5, <4>1, BecomesStack
      <3>2. l \notin Targets(f)
        BY <1>3, <1>4, <1>10 DEF DispatcherAssumption
      <3> QED
        BY <1>6, <3>1, <3>2 DEF DueShrinks, Due
    <2>8. ASSUME NEW u \in Threads, u # t
          PROVE  Due(u, l)' = {}
      <3>1. mtx # u
        BY <1>1, <2>8, TopInside DEF Inside
      <3>2. Due(u, l) = {}
        BY <3>1, WaitingFrames DEF Due, Targets, DispatcherAssumption
      <3> QED
        BY <1>6, <3>2 DEF DueShrinks
    <2>9. \A u \in Threads, e \in Events : \A i \in Due(u, l)' :
             l \in listeners'[e] => stack'[u][i].event = e
      BY <1>6, <1>8, <2>1 DEF Accounted, DueShrinks
    <2>10. /\ Cardinality(Due(t, l)') \in Nat /\ Cardinality(Due(t, l)) \in Nat
           /\ Cardinality(Due(t, l)') =< Cardinality(Due(t, l)) - 1
           /\ Cardinality(Due(t, l)) =< n
      <3>1. IsFiniteSet(Due(t, l)) /\ Cardinality(Due(t, l)) \in Nat
        BY DueIsFinite
      <3>2. /\ IsFiniteSet(Due(t, l) \ {n})
            /\ Cardinality(Due(t, l) \ {n}) = Cardinality(Due(t, l)) - 1
        BY <2>2, <3>1, FS_RemoveElement
      <3>3. /\ Cardinality(Due(t, l)') =< Cardinality(Due(t, l) \ {n})
            /\ Cardinality(Due(t, l)') \in Nat
        BY <2>7, <3>2, FS_Subset, FS_CardinalityType
      <3>4. IsFiniteSet(1..n) /\ Cardinality(1..n) = n
        <4>1. 1 \in Int /\ n \in Int /\ ~(1 > n) /\ n - 1 + 1 = n
          BY <1>2
        <4> QED
          BY <4>1, FS_Interval
      <3>5. Cardinality(Due(t, l)) =< n
        BY <3>4, FS_Subset DEF Due
      <3> QED
        BY <3>1, <3>2, <3>3, <3>5
    <2>11. Cardinality({}) = 0
      BY FS_EmptySet
    <2>12. CASE count[l] > 1
      <3>1. count'[l] > 0 /\ returned'[l] + count'[l] = Limit[l]
        BY <1>7, <2>1, <2>4, <2>5, <2>12 DEF Accounted
      <3> QED
        BY <1>5, <1>8, <2>1, <2>3, <2>9, <3>1 DEF Accounted
    <2>13. CASE count[l] = 1
      <3>1. \A e \in Events : l \notin listeners'[e]
        BY <1>2, <1>7, <1>10, <2>1, <2>2, <2>13 DEF Accounted, HandlerReturn
      <3>2. count'[l] = 0 /\ returned'[l] = Limit[l]
        BY <1>7, <2>1, <2>4, <2>5, <2>13 DEF Accounted
      <3>3. ASSUME NEW u \in Threads
            PROVE  returned'[l] + Cardinality(Due(u, l)') =< MostReturns(l)
        <4>1. CASE u = t
          BY <1>2, <1>7, <2>6, <2>10, <3>2, <4>1 DEF MostReturns
        <4>2. CASE u # t
          <5>1. Cardinality(Due(u, l)') = 0
            BY <2>8, <2>11, <4>2
          <5> QED
            BY <1>7, <3>2, <5>1 DEF MostReturns
        <4> QED
          BY <4>1, <4>2
      <3>4. returned'[l] =< MostReturns(l)
        BY <1>7, <3>2 DEF MostReturns
      <3> QED
        BY <1>5, <2>3, <2>9, <3>1, <3>2, <3>3, <3>4 DEF Accounted, MostReturns
    <2>14. CASE count[l] = 0
      <3>1. \A e \in Events : l \notin listeners'[e]
        BY <1>8, <2>1, <2>14 DEF Accounted
      <3>2. count'[l] = 0
        BY <2>5, <2>14
      <3>3. returned[l] + Cardinality(Due(t, l)) =< MostReturns(l)
        BY <2>1, <2>14 DEF Accounted
      <3>4. returned'[l] + Cardinality(Due(t, l)') =< MostReturns(l)
        BY <1>7, <2>4, <2>10, <3>3 DEF MostReturns
      <3>5. returned'[l] =< MostReturns(l)
        BY <1>7, <2>4, <2>10, <3>4 DEF MostReturns
      <3>6. ASSUME NEW u \in Threads
            PROVE  returned'[l] + Cardinality(Due(u, l)') =< MostReturns(l)
        <4>1. CASE u = t
          BY <3>4, <4>1
        <4>2. CASE u # t
          <5>1. Cardinality(Due(u, l)') = 0
            BY <2>8, <2>11, <4>2
          <5>2. returned'[l] \in Nat
            BY <1>7, <2>4
          <5> QED
            BY <3>5, <5>1, <5>2
        <4> QED
          BY <4>1, <4>2
      <3> QED
        BY <1>5, <2>3, <2>9, <3>1, <3>2, <3>5, <3>6 DEF Accounted, MostReturns
    <2> QED
      BY <1>7, <2>12, <2>13, <2>14
  <1> QED
    BY <1>9, <1>10

\* Every step keeps running listeners out of what is left to call.
LEMMA RunningStep ==
    ASSUME DispatcherAssumption, IInv, IInv', RunningIsNotDue, [Next]_vars
    PROVE  RunningIsNotDue'
  <1>1. ASSUME NEW t \in Threads, NEW f \in Frame, stack[t] # <<>>, Becomes(t, f),
               f.listener \notin f.todo
        PROVE  RunningIsNotDue'
    <2>1. /\ Len(stack'[t]) = Len(stack[t])
          /\ stack'[t][Len(stack[t])] = f
          /\ \A i \in 1..Len(stack[t]) :
                i # Len(stack[t]) => stack'[t][i] = stack[t][i]
          /\ \A u \in Threads : u # t => stack'[u] = stack[u]
      <3>1. stack \in [Threads -> Seq(Frame)]
        BY DEF IInv, TypeOK
      <3> QED
        BY <1>1, <3>1, BecomesStack
    <2> QED
      BY <1>1, <2>1 DEF RunningIsNotDue
  \* A frame below the top, or one that keeps its listener and todo.
  <1>2. ASSUME NEW t \in Threads, stack[t] # <<>>
        PROVE  Top(t) \in Frame /\ Top(t).listener \notin Top(t).todo
    <2>1. /\ Top(t) \in Frame /\ Top(t) = stack[t][Len(stack[t])]
          /\ Len(stack[t]) \in 1..Len(stack[t])
      BY <1>2, TopFacts
    <2> QED
      BY <2>1 DEF RunningIsNotDue
  <1>3. ASSUME NEW t \in Threads, stack[t] # <<>>, NEW pc \in Labels, NEW b \in BOOLEAN,
               Becomes(t, [Top(t) EXCEPT !.pc = pc, !.owns = b])
        PROVE  RunningIsNotDue'
    <2> DEFINE f == [Top(t) EXCEPT !.pc = pc, !.owns = b]
    <2>1. f \in Frame /\ f.listener = Top(t).listener /\ f.todo = Top(t).todo
      BY <1>2, <1>3 DEF Frame
    <2> HIDE DEF f
    <2> QED
      BY <1>1, <1>2, <1>3, <2>1 DEF f
  <1>4. ASSUME NEW t \in Threads, stack[t] # <<>>, NEW pc \in Labels, Goto(t, pc)
        PROVE  RunningIsNotDue'
    <2>1. [Top(t) EXCEPT !.pc = pc] = [Top(t) EXCEPT !.pc = pc, !.owns = Top(t).owns]
      BY <1>2, <1>4 DEF Frame
    <2>2. Top(t).owns \in BOOLEAN
      BY <1>2, <1>4 DEF Frame
    <2> QED
      BY <1>3, <1>4, <2>1, <2>2 DEF Goto
  <1>5. ASSUME NEW t \in Threads, stack[t] # <<>>, Pop(t)
        PROVE  RunningIsNotDue'
    <2>1. stack \in [Threads -> Seq(Frame)] /\ Len(stack[t]) \in Nat
      BY LenProperties DEF IInv, TypeOK
    <2>2. /\ Len(stack'[t]) = Len(stack[t]) - 1
          /\ \A i \in 1..Len(stack[t]) - 1 : stack'[t][i] = stack[t][i]
          /\ \A u \in Threads : u # t => stack'[u] = stack[u]
      BY <1>5, <2>1, PopStack
    <2>3. ASSUME NEW i \in 1..Len(stack'[t])
          PROVE  stack'[t][i].listener \notin stack'[t][i].todo
      <3>1. i \in 1..Len(stack[t]) - 1 /\ i \in 1..Len(stack[t])
        BY <2>1, <2>2
      <3> QED
        BY <2>2, <3>1 DEF RunningIsNotDue
    <2> QED
      BY <2>2, <2>3 DEF RunningIsNotDue
  <1>6. ASSUME NEW t \in Threads, NEW op \in Ops, NEW e \in Events,
               NEW l \in Listeners \cup {NoListener}, Call(t, op, e, l)
        PROVE  RunningIsNotDue'
    <2> DEFINE f == NewFrame(op, e, l)
    <2>1. f \in Frame /\ f.todo = {}
      BY DEF NewFrame, Frame, Labels
    <2>2. stack' = [stack EXCEPT ![t] = Append(@, f)]
      BY <1>6 DEF Call
    <2> HIDE DEF f
    <2>3. stack \in [Threads -> Seq(Frame)] /\ Len(stack[t]) \in Nat
      BY LenProperties DEF IInv, TypeOK
    <2>4. /\ Len(stack'[t]) = Len(stack[t]) + 1
          /\ stack'[t][Len(stack[t]) + 1] = f
          /\ \A i \in 1..Len(stack[t]) : stack'[t][i] = stack[t][i]
          /\ \A u \in Threads : u # t => stack'[u] = stack[u]
      BY <2>1, <2>2, <2>3, PushStack
    <2>5. ASSUME NEW i \in 1..Len(stack'[t])
          PROVE  stack'[t][i].listener \notin stack'[t][i].todo
      <3>1. i \in 1..Len(stack[t]) \/ i = Len(stack[t]) + 1
        BY <2>3, <2>4
      <3> QED
        BY <2>1, <2>4, <3>1 DEF RunningIsNotDue
    <2> QED
      BY <2>4, <2>5 DEF RunningIsNotDue
  <1>7. ASSUME NEW t \in Threads, Invoke(t)
        PROVE  RunningIsNotDue'
    <2>1. stack[t] # <<>> /\ Top(t) \in Frame
      BY <1>2, <1>7 DEF At, Invoke
    <2>2. PICK k \in Top(t).todo :
            Becomes(t, [Top(t) EXCEPT !.pc = "handler", !.listener = k, !.todo = @ \ {k}])
      BY <1>7 DEF Invoke
    <2>3. [Top(t) EXCEPT !.pc = "handler", !.listener = k, !.todo = @ \ {k}] \in Frame
      BY <2>1 DEF Frame, Labels
    <2> QED
      BY <1>1, <2>1, <2>2, <2>3 DEF Frame
  <1>8. ASSUME NEW t \in Threads, NEW stop \in BOOLEAN, HandlerReturn(t, stop)
        PROVE  RunningIsNotDue'
    <2>1. stack[t] # <<>> /\ Top(t) \in Frame
      BY <1>2, <1>8 DEF At, HandlerReturn
    <2> DEFINE f == [Top(t) EXCEPT !.pc = IF stop THEN "unwind" ELSE "loop",
                                   !.listener = NoListener,
                                   !.todo = IF stop THEN {} ELSE @]
    <2>2. f \in Frame /\ f.listener \notin f.todo
      BY <2>1 DEF Frame, Labels, DispatcherAssumption
    <2>3. Becomes(t, f)
      BY <1>8 DEF HandlerReturn
    <2> HIDE DEF f
    <2> QED
      BY <1>1, <2>1, <2>2, <2>3
  <1>9. ASSUME NEW t \in Threads, HandlerPanic(t)
        PROVE  RunningIsNotDue'
    <2>1. stack[t] # <<>> /\ Top(t) \in Frame
      BY <1>2, <1>9 DEF At, HandlerPanic
    <2> DEFINE f == [Top(t) EXCEPT !.pc = "unwind", !.listener = NoListener, !.todo = {}]
    <2>2. f \in Frame /\ f.listener \notin f.todo
      BY <2>1 DEF Frame, Labels
    <2>3. Becomes(t, f)
      BY <1>9 DEF HandlerPanic
    <2> HIDE DEF f
    <2> QED
      BY <1>1, <2>1, <2>2, <2>3
  <1>10. ASSUME NEW t \in Threads, BeginDispatch(t)
         PROVE  RunningIsNotDue'
    <2>1. stack[t] # <<>> /\ Top(t) \in Frame /\ Top(t).pc = "body" /\ Top(t).op = "dispatch"
      BY <1>2, <1>10 DEF At, BeginDispatch
    <2>2. CASE recursion + 1 > MaxRecursion
      BY <1>4, <1>10, <2>1, <2>2 DEF BeginDispatch, Labels
    <2>3. CASE ~(recursion + 1 > MaxRecursion)
      <3> DEFINE f == [Top(t) EXCEPT !.pc = "loop", !.todo = listeners[Top(t).event]]
      <3>1. Top(t).listener = NoListener
        BY <2>1, TopFacts
      <3>2. listeners[Top(t).event] \in SUBSET Listeners
        BY <2>1 DEF IInv, TypeOK, Frame
      <3>3. f \in Frame /\ f.listener \notin f.todo
        BY <2>1, <3>1, <3>2 DEF Frame, Labels, DispatcherAssumption
      <3>4. Becomes(t, f)
        BY <1>10, <2>3 DEF BeginDispatch
      <3> HIDE DEF f
      <3> QED
        BY <1>1, <2>1, <3>3, <3>4
    <2> QED
      BY <2>2, <2>3
  <1>11. ASSUME NEW t \in Threads, Lock(t)
         PROVE  RunningIsNotDue'
    BY <1>3, <1>11 DEF Lock, At, Labels
  <1>12. ASSUME NEW t \in Threads,
                \/ CheckGoid(t) \/ Mark(t) \/ AddEventListener(t)
                \/ RemoveEventListener(t) \/ HasEventListener(t)
                \/ EndLoop(t) \/ Unwind(t)
         PROVE  RunningIsNotDue'
    BY <1>4, <1>12 DEF CheckGoid, Mark, AddEventListener, RemoveEventListener,
       HasEventListener, EndLoop, Unwind, At, Labels
  <1>13. ASSUME NEW t \in Threads, Leave(t) \/ Unlock(t)
         PROVE  RunningIsNotDue'
    BY <1>4, <1>5, <1>13 DEF Leave, Unlock, At, Labels
  <1>14. CASE UNCHANGED vars
    BY <1>14 DEF vars, RunningIsNotDue
  <1>15. ASSUME NEW t \in Threads, Step(t)
         PROVE  RunningIsNotDue'
    BY <1>7, <1>8, <1>9, <1>10, <1>12, <1>13, <1>15 DEF Step
  <1> QED
    BY <1>6, <1>11, <1>14, <1>15 DEF Next, Finished

\* The inductive invariant behind OverrunBound.
CountInv == IInv /\ RunningIsNotDue /\ \A l \in Listeners : OnceOK(l)

LEMMA CountInvInit == DispatcherAssumption /\ Init => CountInv
  <1> SUFFICES ASSUME DispatcherAssumption, Init PROVE CountInv
    OBVIOUS
  <1>1. \A t \in Threads : \A i \in 1..Len(stack[t]) : FALSE
    <2>1. \A t \in Threads : stack[t] = <<>> /\ Len(stack[t]) = 0
      BY EmptySeq DEF Init
    <2> QED
      BY <2>1
  <1>2. ASSUME NEW t \in Threads, NEW l \in Listeners
        PROVE  Due(t, l) = {}
    BY <1>1 DEF Due
  <1>3. ASSUME NEW l \in Listeners
        PROVE  OnceOK(l)
    BY <1>2 DEF OnceOK, Accounted, Init, DispatcherAssumption
  <1> QED
    BY <1>1, <1>3, IInvInit DEF CountInv, RunningIsNotDue

LEMMA CountInvStep == DispatcherAssumption /\ CountInv /\ [Next]_vars => CountInv'
  <1> SUFFICES ASSUME DispatcherAssumption, CountInv, [Next]_vars PROVE CountInv'
    OBVIOUS
  <1>1. IInv /\ IInv' /\ RunningIsNotDue
    BY IInvStep DEF CountInv
  <1>2. RunningIsNotDue'
    BY <1>1, RunningStep
  <1>3. ASSUME NEW l \in Listeners
        PROVE  OnceOK(l)'
    <2>1. OnceOK(l)
      BY DEF CountInv
    <2>2. CASE UNCHANGED vars
      BY <2>1, <2>2 DEF vars, OnceOK, Accounted, MostReturns, Due
    <2>3. ASSUME NEW t \in Threads, NEW op \in Ops, NEW e \in Events,
                 NEW k \in Listeners \cup {NoListener}, Call(t, op, e, k)
          PROVE  OnceOK(l)'
      <3>1. DueShrinks(l)
        BY <1>1, <2>3, DueCall
      <3> QED
        BY <1>1, <2>1, <2>3, <3>1, QuietStep DEF Call
    <2>4. ASSUME NEW t \in Threads, Lock(t)
          PROVE  OnceOK(l)'
      BY <1>1, <2>1, <2>4, QuietSteps
    <2>5. ASSUME NEW t \in Threads, Step(t)
          PROVE  OnceOK(l)'
      <3>1. ASSUME NEW stop \in BOOLEAN, HandlerReturn(t, stop)
            PROVE  OnceOK(l)'
        BY <1>1, <2>1, <3>1, ReturnAccount
      <3> QED
        BY <1>1, <2>1, <2>5, <3>1, QuietSteps, InvokeAccount, AddAccount,
           RemoveAccount, BeginAccount DEF Step
    <2> QED
      BY <2>2, <2>3, <2>4, <2>5 DEF Next, Finished
  <1> QED
    BY <1>1, <1>2, <1>3 DEF CountInv

\* A limited listener registered once is called at most MaxRecursion - 1
\* times more than its count, however deep its handlers nest dispatches,
\* and whichever goroutines make them.
THEOREM OverrunIsBounded == Spec => []OverrunBound
  <1>1. DispatcherAssumption /\ CountInv => OverrunBound
    <2> SUFFICES ASSUME DispatcherAssumption, CountInv, NEW l \in Listeners,
                        Limit[l] > 0, added[l] =< 1
                 PROVE  returned[l] =< Limit[l] + MaxRecursion - 1
      BY DEF OverrunBound
    <2>1. Accounted(l)
      BY DEF CountInv, OnceOK
    <2>2. /\ count[l] \in Nat /\ returned[l] \in Nat /\ Limit[l] \in Nat
          /\ MaxRecursion \in Nat \ {0}
      BY DEF CountInv, IInv, TypeOK, DispatcherAssumption
    <2> QED
      BY <2>1, <2>2 DEF Accounted, MostReturns
  <1> QED
    BY <1>1, DispatcherAssumption, CountInvInit, CountInvStep, PTL DEF Spec

-----------------------------------------------------------------------------
(* The refinement of ListenerRegistry.                                     *)

\* What the registry sees of a dispatch, and of the first n frames of a stack.
View(f) == [event |-> f.event, due |-> f.todo, running |-> f.listener]
Views(q, n) == [i \in 1..n |-> View(q[i])]

\* The number of deliveries a goroutine's stack stands for.
Depth(t) ==
    IF At(t, "loop") \/ At(t, "handler") THEN Len(stack[t])
    ELSE IF stack[t] = <<>> THEN 0 ELSE Len(stack[t]) - 1

Deliveries == IF mtx = NoThread THEN <<>> ELSE Delivering(mtx)

LEMMA DeliveringViews ==
    ASSUME NEW t
    PROVE  /\ Delivering(t) = Views(stack[t], Depth(t))
           /\ Delivering(t)' = Views(stack'[t], Depth(t)')
  BY DEF Delivering, Depth, View, Views

\* The registry sees the stack of the holder.
LEMMA HolderDeliveries ==
    ASSUME DispatcherAssumption, NEW t \in Threads
    PROVE  /\ mtx = t => Deliveries = Views(stack[t], Depth(t))
           /\ mtx' = t => Deliveries' = Views(stack'[t], Depth(t)')
           /\ mtx = NoThread => Deliveries = <<>>
           /\ mtx' = NoThread => Deliveries' = <<>>
  BY DeliveringViews DEF Deliveries, DispatcherAssumption

LEMMA ViewsFacts ==
    ASSUME NEW q \in Seq(Frame), NEW n \in Nat, n =< Len(q)
    PROVE  /\ Views(q, n) \in Seq(Registry!Delivery)
           /\ Len(Views(q, n)) = n
           /\ \A i \in 1..n : Views(q, n)[i] = View(q[i])
           /\ n = 0 <=> Views(q, n) = <<>>
  <1>1. \A i \in 1..n : View(q[i]) \in Registry!Delivery
    <2>1. ASSUME NEW i \in 1..n
          PROVE  q[i] \in Frame
      BY ElementOfSeq, LenProperties
    <2> QED
      BY <2>1 DEF View, Frame, Registry!Delivery
  <1>2. Views(q, n) \in Seq(Registry!Delivery) /\ Len(Views(q, n)) = n
        /\ \A i \in 1..n : Views(q, n)[i] = View(q[i])
    BY <1>1 DEF Views
  <1>3. n = 0 <=> Views(q, n) = <<>>
    BY <1>2, EmptySeq
  <1> QED
    BY <1>2, <1>3

\* Frames that look alike below n make the same deliveries below n.
LEMMA ViewsSame ==
    ASSUME NEW p, NEW q, NEW n \in Nat, \A i \in 1..n : View(p[i]) = View(q[i])
    PROVE  Views(p, n) = Views(q, n)
  BY DEF Views

LEMMA ViewsAppend ==
    ASSUME NEW p \in Seq(Frame), NEW q \in Seq(Frame), NEW n \in Nat,
           n < Len(p), n =< Len(q), \A i \in 1..n : p[i] = q[i]
    PROVE  Views(p, n + 1) = Append(Views(q, n), View(p[n + 1]))
  <1>1. /\ n + 1 \in Nat /\ Len(p) \in Nat /\ n =< Len(p) /\ n + 1 =< Len(p)
        /\ n + 1 \in 1..Len(p)
    BY LenProperties
  <1>2. /\ Views(q, n) \in Seq(Registry!Delivery) /\ Len(Views(q, n)) = n
        /\ \A i \in 1..n : Views(q, n)[i] = View(q[i])
    BY ViewsFacts
  <1>3. /\ Views(p, n + 1) \in Seq(Registry!Delivery) /\ Len(Views(p, n + 1)) = n + 1
        /\ \A i \in 1..n + 1 : Views(p, n + 1)[i] = View(p[i])
    BY <1>1, ViewsFacts
  <1>4. View(p[n + 1]) \in Registry!Delivery
    BY <1>1, <1>3, ElementOfSeq
  <1> DEFINE a == Views(q, n)
             v == View(p[n + 1])
             b == Append(a, v)
  <1>5. b \in Seq(Registry!Delivery) /\ Len(b) = n + 1
        /\ b[n + 1] = v /\ \A i \in 1..n : b[i] = a[i]
    <2> HIDE DEF a, v
    <2> QED
      BY <1>2, <1>4 DEF a, v
  <1>6. \A i \in 1..n + 1 : Views(p, n + 1)[i] = b[i]
    <2> HIDE DEF b
    <2>1. ASSUME NEW i \in 1..n + 1
          PROVE  Views(p, n + 1)[i] = b[i]
      <3>1. i \in 1..n \/ i = n + 1
        OBVIOUS
      <3> QED
        BY <1>2, <1>3, <1>5, <3>1
    <2> QED
      BY <2>1
  <1> HIDE DEF b
  <1>7. Views(p, n + 1) = b
    BY <1>3, <1>5, <1>6, SeqEqual
  <1> QED
    BY <1>7 DEF b

LEMMA ViewsFront ==
    ASSUME NEW q \in Seq(Frame), NEW n \in Nat \ {0}, n =< Len(q)
    PROVE  SubSeq(Views(q, n), 1, n - 1) = Views(q, n - 1)
  <1>1. /\ Views(q, n) \in Seq(Registry!Delivery) /\ Len(Views(q, n)) = n
        /\ \A i \in 1..n : Views(q, n)[i] = View(q[i])
        /\ Views(q, n) # <<>>
    BY ViewsFacts
  <1>2. n - 1 \in Nat /\ n - 1 =< Len(q)
    BY LenProperties
  <1>3. /\ Views(q, n - 1) \in Seq(Registry!Delivery) /\ Len(Views(q, n - 1)) = n - 1
        /\ \A i \in 1..n - 1 : Views(q, n - 1)[i] = View(q[i])
    BY <1>2, ViewsFacts
  <1> DEFINE b == SubSeq(Views(q, n), 1, n - 1)
  <1>4. /\ b \in Seq(Registry!Delivery) /\ Len(b) = n - 1
        /\ \A i \in 1..n - 1 : b[i] = Views(q, n)[i]
    BY <1>1, FrontProperties
  <1> HIDE DEF b
  <1>5. \A i \in 1..n - 1 : b[i] = Views(q, n - 1)[i]
    BY <1>1, <1>3, <1>4
  <1>6. b = Views(q, n - 1)
    BY <1>3, <1>4, <1>5, SeqEqual
  <1> QED
    BY <1>6 DEF b

LEMMA ViewsExcept ==
    ASSUME NEW p \in Seq(Frame), NEW q \in Seq(Frame), NEW n \in Nat \ {0},
           n =< Len(p), n =< Len(q), \A i \in 1..n : i # n => p[i] = q[i]
    PROVE  Views(p, n) = [Views(q, n) EXCEPT ![n] = View(p[n])]
  <1>1. [Views(q, n) EXCEPT ![n] = View(p[n])]
          = [i \in 1..n |-> IF i = n THEN View(p[n]) ELSE View(q[i])]
    BY DEF Views
  <1> QED
    BY <1>1 DEF Views

\* A step of a goroutine that neither has nor takes the mutex.
LEMMA OtherStep ==
    ASSUME DispatcherAssumption, IInv, NEW t \in Threads, mtx # t, mtx' = mtx,
           \A u \in Threads : u # t => stack'[u] = stack[u]
    PROVE  Deliveries' = Deliveries
  <1>1. mtx = NoThread \/ (mtx \in Threads /\ stack'[mtx] = stack[mtx])
    BY DEF IInv, TypeOK
  <1> QED
    BY <1>1 DEF Deliveries, Delivering, At, Top

\* A step of the holder that keeps its stack up to Depth.
LEMMA HolderStep ==
    ASSUME DispatcherAssumption, NEW t \in Threads, mtx = t, mtx' = t,
           Depth(t)' = Depth(t), Depth(t) \in Nat,
           \A i \in 1..Depth(t) : View(stack'[t][i]) = View(stack[t][i])
    PROVE  Deliveries' = Deliveries
  BY ViewsSame, HolderDeliveries

\* Replacing a top frame that is not delivering by another such frame.
LEMMA TopIsNoDelivery ==
    ASSUME DispatcherAssumption, IInv, NEW t \in Threads, NEW f \in Frame,
           stack[t] # <<>>, Becomes(t, f), mtx' = mtx,
           Top(t).pc \notin {"loop", "handler"}, f.pc \notin {"loop", "handler"}
    PROVE  Deliveries' = Deliveries
  <1> DEFINE n == Len(stack[t])
  <1>1. /\ Len(stack'[t]) = n /\ stack'[t] # <<>> /\ stack'[t][n] = f
        /\ \A i \in 1..n : i # n => stack'[t][i] = stack[t][i]
        /\ \A u \in Threads : u # t => stack'[u] = stack[u]
    <2>1. stack \in [Threads -> Seq(Frame)]
      BY DEF IInv, TypeOK
    <2> QED
      BY <2>1, BecomesStack
  <1>2. n \in Nat /\ n \in 1..n /\ Top(t) = stack[t][n]
    BY TopFacts
  <1>3. CASE mtx # t
    BY <1>1, <1>3, OtherStep
  <1>4. CASE mtx = t
    <2>1. Depth(t) = n - 1 /\ Depth(t)' = n - 1
      BY <1>1, <1>2 DEF Depth, At, Top
    <2>2. n - 1 \in Nat
      BY <1>2
    <2>3. \A i \in 1..n - 1 : stack'[t][i] = stack[t][i]
      BY <1>1, <1>2
    <2> QED
      BY <1>4, <2>1, <2>2, <2>3, HolderStep
  <1> QED
    BY <1>3, <1>4

\* A call made by a handler leaves the deliveries below it as they are.
LEMMA CallStutters ==
    ASSUME DispatcherAssumption, IInv, NEW t \in Threads, NEW op \in Ops, NEW e \in Events,
           NEW l \in Listeners \cup {NoListener}, Call(t, op, e, l)
    PROVE  Deliveries' = Deliveries
  <1> DEFINE f == NewFrame(op, e, l)
             n == Len(stack[t])
  <1>1. f \in Frame /\ f.pc = "check"
    BY DEF NewFrame, Frame, Labels
  <1>2. stack' = [stack EXCEPT ![t] = Append(@, f)] /\ mtx' = mtx
    BY DEF Call
  <1> HIDE DEF f
  <1>3. stack \in [Threads -> Seq(Frame)] /\ n \in Nat
    BY LenProperties DEF IInv, TypeOK
  <1>4. /\ stack'[t] # <<>>
        /\ Len(stack'[t]) = n + 1 /\ stack'[t][n + 1] = f
        /\ \A i \in 1..n : stack'[t][i] = stack[t][i]
        /\ \A u \in Threads : u # t => stack'[u] = stack[u]
    BY <1>1, <1>2, <1>3, PushStack
  <1>5. CASE mtx # t
    BY <1>2, <1>4, <1>5, OtherStep
  <1>6. CASE mtx = t
    <2>1. stack[t] # <<>>
      BY <1>6 DEF IInv, LockOK, Holds
    <2>2. At(t, "handler")
      BY <2>1 DEF Call
    <2>3. Depth(t) = n
      BY <2>2 DEF Depth
    <2>4. Depth(t)' = n
      BY <1>1, <1>3, <1>4 DEF Depth, At, Top
    <2> QED
      BY <1>2, <1>3, <1>4, <1>6, <2>3, <2>4, HolderStep
  <1> QED
    BY <1>5, <1>6

\* So does the return of such a call.
LEMMA LeaveStutters ==
    ASSUME DispatcherAssumption, IInv, NEW t \in Threads, Leave(t)
    PROVE  Deliveries' = Deliveries
  <1> DEFINE n == Len(stack[t])
  <1>1. stack[t] # <<>> /\ Top(t).pc = "leave" /\ mtx' = mtx
    BY DEF Leave, At
  <1>2. /\ Top(t) \in Frame /\ n \in Nat /\ n \in 1..n /\ Top(t) = stack[t][n]
        /\ n = 1 \/ n > 1
        /\ n = 1 => Top(t).owns
        /\ stack \in [Threads -> Seq(Frame)] /\ FrameOK(t)
    BY <1>1, TopFacts DEF Inside, IInv, TypeOK
  <1>3. mtx = t
    BY <1>1, TopInside DEF Inside
  <1>4. CASE Top(t).owns
    <2> DEFINE f == [Top(t) EXCEPT !.pc = "unlock"]
    <2>1. f \in Frame /\ f.pc = "unlock"
      BY <1>2 DEF Frame, Labels
    <2>2. Becomes(t, f)
      BY <1>4 DEF Leave, Goto
    <2> HIDE DEF f
    <2> QED
      BY <1>1, <2>1, <2>2, TopIsNoDelivery
  <1>5. CASE ~Top(t).owns
    <2>1. Pop(t) /\ n > 1
      BY <1>2, <1>5 DEF Leave
    <2>2. /\ Len(stack'[t]) = n - 1 /\ stack'[t] # <<>>
          /\ \A i \in 1..n - 1 : stack'[t][i] = stack[t][i]
      BY <1>1, <1>2, <2>1, PopStack
    <2>3. n - 1 \in 1..n - 1 /\ n - 1 \in 1..n /\ n - 1 < n /\ n - 1 \in Nat
      BY <1>2, <2>1
    <2>4. stack'[t][n - 1].pc = "handler"
      BY <1>2, <2>2, <2>3 DEF FrameOK
    <2>5. Depth(t)' = n - 1
      BY <2>2, <2>4 DEF Depth, At, Top
    <2>6. Depth(t) = n - 1
      BY <1>1 DEF Depth, At
    <2> QED
      BY <1>1, <1>3, <2>2, <2>3, <2>5, <2>6, HolderStep
  <1> QED
    BY <1>4, <1>5

LEMMA LockAcquires ==
    ASSUME DispatcherAssumption, IInv, NEW t \in Threads, Lock(t)
    PROVE  Registry!Acquire(t)
  <1> DEFINE f == [Top(t) EXCEPT !.pc = "mark", !.owns = TRUE]
  <1>1. /\ stack[t] # <<>> /\ Top(t).pc = "lock" /\ Becomes(t, f)
        /\ mtx = NoThread /\ mtx' = t /\ listeners' = listeners
    BY DEF Lock, At
  <1>2. Len(stack[t]) = 1 /\ Top(t) \in Frame
    BY <1>1, BottomFrame
  <1>3. f \in Frame /\ f.pc = "mark"
    BY <1>2 DEF Frame, Labels
  <1> HIDE DEF f
  <1>4. /\ stack' \in [Threads -> Seq(Frame)]
        /\ stack'[t] # <<>> /\ Len(stack'[t]) = 1 /\ stack'[t][1] = f
    <2>1. stack \in [Threads -> Seq(Frame)]
      BY DEF IInv, TypeOK
    <2> QED
      BY <1>1, <1>2, <1>3, <2>1, BecomesStack
  <1>5. Depth(t)' = 0
    BY <1>3, <1>4 DEF Depth, At, Top
  <1>6. Views(stack'[t], 0) = <<>>
    BY <1>4, ViewsFacts
  <1>7. Deliveries = <<>> /\ Deliveries' = <<>>
    BY <1>1, <1>5, <1>6, HolderDeliveries
  <1> QED
    BY <1>1, <1>7 DEF Registry!Acquire, Deliveries

LEMMA UnlockReleases ==
    ASSUME DispatcherAssumption, IInv, NEW t \in Threads, Unlock(t)
    PROVE  Registry!Release(t)
  <1>1. /\ stack[t] # <<>> /\ Top(t).pc = "unlock"
        /\ mtx' = NoThread /\ listeners' = listeners
    BY DEF Unlock, At
  <1>2. Len(stack[t]) = 1 /\ Top(t) = stack[t][1] /\ stack[t] \in Seq(Frame)
    BY <1>1, BottomFrame, TopFacts
  <1>3. mtx = t
    BY <1>1, <1>2, TopFacts DEF IInv, LockOK, Holds
  <1>4. Depth(t) = 0
    BY <1>1, <1>2 DEF Depth, At
  <1>5. Views(stack[t], 0) = <<>>
    BY <1>2, ViewsFacts
  <1>6. Deliveries = <<>> /\ Deliveries' = <<>>
    BY <1>1, <1>3, <1>4, <1>5, HolderDeliveries
  <1> QED
    BY <1>1, <1>3, <1>6 DEF Registry!Release, Deliveries

\* The steps the registry does not see.
LEMMA HiddenSteps ==
    ASSUME DispatcherAssumption, IInv, NEW t \in Threads,
           \/ CheckGoid(t) \/ Mark(t) \/ HasEventListener(t) \/ Unwind(t)
           \/ BeginDispatch(t) /\ recursion + 1 > MaxRecursion
    PROVE  mtx' = mtx /\ listeners' = listeners /\ Deliveries' = Deliveries
  <1>1. /\ stack[t] # <<>> /\ Top(t).pc \notin {"loop", "handler"}
        /\ mtx' = mtx /\ listeners' = listeners
    BY DEF CheckGoid, Mark, HasEventListener, Unwind, BeginDispatch, At
  <1>2. PICK pc \in Labels \ {"loop", "handler"} : Goto(t, pc)
    BY DEF CheckGoid, Mark, HasEventListener, Unwind, BeginDispatch, Labels
  <1> DEFINE f == [Top(t) EXCEPT !.pc = pc]
  <1>3. f \in Frame /\ f.pc = pc
    BY <1>1, TopFacts DEF Frame
  <1>4. Becomes(t, f)
    BY <1>2 DEF Goto
  <1> HIDE DEF f
  <1> QED
    BY <1>1, <1>3, <1>4, TopIsNoDelivery

LEMMA TableRefines ==
    ASSUME DispatcherAssumption, IInv, NEW t \in Threads,
           AddEventListener(t) \/ RemoveEventListener(t)
    PROVE  \E e \in Events, l \in Listeners :
              Registry!Register(t, e, l) \/ Registry!Unregister(t, e, l)
  <1>1. /\ stack[t] # <<>> /\ Top(t).pc = "body" /\ mtx' = mtx /\ Goto(t, "leave")
        /\ Top(t).op \in {"add", "remove"}
    BY DEF AddEventListener, RemoveEventListener, At
  <1>2. mtx = t
    BY <1>1, TopInside DEF Inside
  <1>3. /\ Top(t) \in Frame /\ Top(t).event \in Events /\ Top(t).listener \in Listeners
    BY <1>1, TopFacts DEF Frame
  <1> DEFINE f == [Top(t) EXCEPT !.pc = "leave"]
  <1>4. f \in Frame /\ f.pc = "leave" /\ Becomes(t, f)
    BY <1>1, <1>3 DEF Frame, Labels, Goto
  <1> HIDE DEF f
  <1>5. Deliveries' = Deliveries
    BY <1>1, <1>4, TopIsNoDelivery
  <1>6. CASE AddEventListener(t)
    <2>1. Registry!Register(t, Top(t).event, Top(t).listener)
      BY <1>1, <1>2, <1>5, <1>6 DEF Registry!Register, AddEventListener, Deliveries
    <2> QED
      BY <1>3, <2>1
  <1>7. CASE RemoveEventListener(t)
    <2>1. Registry!Unregister(t, Top(t).event, Top(t).listener)
      BY <1>1, <1>2, <1>5, <1>7 DEF Registry!Unregister, RemoveEventListener, Deliveries
    <2> QED
      BY <1>3, <2>1
  <1> QED
    BY <1>6, <1>7

\* The innermost delivery is the top frame of the holder.
LEMMA InnermostIsTop ==
    ASSUME DispatcherAssumption, IInv, NEW t \in Threads,
           At(t, "loop") \/ At(t, "handler")
    PROVE  /\ mtx = t /\ Top(t) \in Frame /\ Top(t).op = "dispatch"
           /\ Len(stack[t]) \in Nat \ {0}
           /\ Deliveries = Views(stack[t], Len(stack[t]))
           /\ Deliveries \in Seq(Registry!Delivery)
           /\ Len(Deliveries) = Len(stack[t])
           /\ Deliveries # <<>>
           /\ Deliveries[Len(stack[t])] = View(Top(t))
  <1> DEFINE n == Len(stack[t])
  <1>1. stack[t] # <<>> /\ Top(t).pc \in {"loop", "handler"}
    BY DEF At
  <1>2. mtx = t
    BY <1>1, TopInside DEF Inside
  <1>3. /\ Top(t) \in Frame /\ stack[t] \in Seq(Frame) /\ n \in Nat /\ n \in 1..n
        /\ Top(t) = stack[t][n] /\ FrameOK(t)
    BY <1>1, TopFacts DEF IInv
  <1>4. n \in Nat \ {0}
    BY <1>3
  <1>5. Top(t).op = "dispatch"
    BY <1>1, <1>3 DEF FrameOK
  <1>6. Deliveries = Views(stack[t], n)
    BY <1>2, HolderDeliveries DEF Depth
  <1>7. /\ Views(stack[t], n) \in Seq(Registry!Delivery)
        /\ Len(Views(stack[t], n)) = n
        /\ Views(stack[t], n)[n] = View(stack[t][n])
        /\ Views(stack[t], n) # <<>>
    BY <1>3, <1>4, ViewsFacts
  <1> QED
    BY <1>2, <1>3, <1>4, <1>5, <1>6, <1>7

\* Changing the top frame changes the innermost delivery.
LEMMA ChangeInnermost ==
    ASSUME DispatcherAssumption, IInv, NEW t \in Threads, NEW f \in Frame,
           At(t, "loop") \/ At(t, "handler"),
           Becomes(t, f), mtx' = mtx, f.pc \in {"loop", "handler"}
    PROVE  Deliveries' = [Deliveries EXCEPT ![Len(Deliveries)] = View(f)]
  <1> DEFINE n == Len(stack[t])
  <1>1. /\ mtx = t /\ n \in Nat \ {0} /\ Len(Deliveries) = n
        /\ Deliveries = Views(stack[t], n)
    BY InnermostIsTop
  <1>2. stack[t] # <<>> /\ stack \in [Threads -> Seq(Frame)]
    BY DEF At, IInv, TypeOK
  <1>3. /\ stack' \in [Threads -> Seq(Frame)] /\ stack'[t] # <<>>
        /\ Len(stack'[t]) = n /\ stack'[t][n] = f
        /\ \A i \in 1..n : i # n => stack'[t][i] = stack[t][i]
    BY <1>2, BecomesStack
  <1>4. Depth(t)' = n
    BY <1>3 DEF Depth, At, Top
  <1>5. Deliveries' = Views(stack'[t], n)
    BY <1>1, <1>4, HolderDeliveries
  <1>6. Views(stack'[t], n) = [Views(stack[t], n) EXCEPT ![n] = View(stack'[t][n])]
    <2> DEFINE p == stack'[t]
               q == stack[t]
    <2>1. /\ q \in Seq(Frame) /\ p \in Seq(Frame) /\ n \in Nat \ {0}
          /\ n =< Len(p) /\ n =< Len(q)
          /\ \A i \in 1..n : i # n => p[i] = q[i]
      BY <1>1, <1>2, <1>3
    <2> HIDE DEF n, p, q
    <2>2. Views(p, n) = [Views(q, n) EXCEPT ![n] = View(p[n])]
      BY <2>1, ViewsExcept
    <2> QED
      BY <2>2 DEF p, q
  <1> QED
    BY <1>1, <1>3, <1>5, <1>6

\* Leaving the loop ends the innermost delivery.
LEMMA EndInnermost ==
    ASSUME DispatcherAssumption, IInv, NEW t \in Threads, NEW f \in Frame,
           At(t, "loop") \/ At(t, "handler"),
           Becomes(t, f), mtx' = mtx, f.pc = "unwind"
    PROVE  Deliveries' = SubSeq(Deliveries, 1, Len(Deliveries) - 1)
  <1> DEFINE n == Len(stack[t])
  <1>1. /\ mtx = t /\ n \in Nat \ {0} /\ Len(Deliveries) = n
        /\ Deliveries = Views(stack[t], n)
    BY InnermostIsTop
  <1>2. stack[t] # <<>> /\ stack \in [Threads -> Seq(Frame)]
    BY DEF At, IInv, TypeOK
  <1>3. /\ stack' \in [Threads -> Seq(Frame)] /\ stack'[t] # <<>>
        /\ Len(stack'[t]) = n /\ stack'[t][n] = f
        /\ \A i \in 1..n : i # n => stack'[t][i] = stack[t][i]
    BY <1>2, BecomesStack
  <1>4. Depth(t)' = n - 1
    BY <1>3 DEF Depth, At, Top
  <1>5. Deliveries' = Views(stack'[t], n - 1)
    BY <1>1, <1>4, HolderDeliveries
  <1>6. Views(stack'[t], n - 1) = Views(stack[t], n - 1)
    <2>1. n - 1 \in Nat /\ \A i \in 1..n - 1 : stack'[t][i] = stack[t][i]
      BY <1>1, <1>3
    <2> QED
      BY <2>1, ViewsSame
  <1>7. SubSeq(Views(stack[t], n), 1, n - 1) = Views(stack[t], n - 1)
    BY <1>1, <1>2, ViewsFront
  <1> QED
    BY <1>1, <1>5, <1>6, <1>7

LEMMA BeginRefines ==
    ASSUME DispatcherAssumption, IInv, NEW t \in Threads, BeginDispatch(t),
           ~(recursion + 1 > MaxRecursion)
    PROVE  \E e \in Events : Registry!Begin(t, e)
  <1> DEFINE n == Len(stack[t])
             f == [Top(t) EXCEPT !.pc = "loop", !.todo = listeners[Top(t).event]]
  <1>1. /\ stack[t] # <<>> /\ Top(t).pc = "body" /\ Top(t).op = "dispatch"
        /\ mtx' = mtx /\ listeners' = listeners /\ Becomes(t, f)
    BY DEF BeginDispatch, At
  <1>2. mtx = t /\ t # NoThread
    BY <1>1, TopInside DEF Inside, DispatcherAssumption
  <1>3. /\ Top(t) \in Frame /\ Top(t).event \in Events /\ Top(t).listener = NoListener
        /\ n \in Nat /\ n \in 1..n /\ stack[t] \in Seq(Frame)
        /\ stack \in [Threads -> Seq(Frame)]
    BY <1>1, TopFacts DEF Frame, IInv, TypeOK
  <1>4. listeners[Top(t).event] \in SUBSET Listeners
    BY <1>3 DEF IInv, TypeOK
  <1>5. /\ f \in Frame /\ f.pc = "loop"
        /\ View(f) = [event |-> Top(t).event, due |-> listeners[Top(t).event],
                      running |-> NoListener]
    BY <1>3, <1>4 DEF Frame, Labels, View
  <1> HIDE DEF f
  <1>6. /\ stack' \in [Threads -> Seq(Frame)] /\ stack'[t] # <<>>
        /\ Len(stack'[t]) = n /\ stack'[t][n] = f
        /\ \A i \in 1..n : i # n => stack'[t][i] = stack[t][i]
    BY <1>1, <1>3, <1>5, BecomesStack
  <1>7. PICK m \in Nat : n = m + 1 /\ m = n - 1
    <2>1. n - 1 \in Nat /\ n = (n - 1) + 1
      BY <1>3
    <2> HIDE DEF n
    <2> QED
      BY <2>1
  <1>8. Depth(t) = m /\ Depth(t)' = n
    BY <1>1, <1>5, <1>6, <1>7 DEF Depth, At, Top
  <1>9. Deliveries = Views(stack[t], m) /\ Deliveries' = Views(stack'[t], m + 1)
    BY <1>1, <1>2, <1>7, <1>8, HolderDeliveries
  <1>10. Len(Deliveries) = m
    BY <1>3, <1>7, <1>9, ViewsFacts
  <1>11. Views(stack'[t], m + 1) = Append(Views(stack[t], m), View(stack'[t][m + 1]))
    <2>1. m < Len(stack'[t]) /\ m =< Len(stack[t]) /\ stack'[t] \in Seq(Frame)
      BY <1>6, <1>7
    <2>2. \A i \in 1..m : stack'[t][i] = stack[t][i]
      BY <1>6, <1>7
    <2> QED
      BY <1>3, <2>1, <2>2, ViewsAppend
  <1>12. m < MaxRecursion
    <2>1. recursion = m
      BY <1>1, <1>2, <1>7 DEF IInv, DepthOK, Counted
    <2> QED
      BY <1>7, <2>1 DEF DispatcherAssumption
  <1>13. Registry!Begin(t, Top(t).event)
    <2>1. Deliveries' = Append(Deliveries,
             [event |-> Top(t).event, due |-> listeners[Top(t).event],
              running |-> NoListener])
      BY <1>5, <1>6, <1>7, <1>9, <1>11
    <2> QED
      BY <1>1, <1>2, <1>10, <1>12, <2>1 DEF Registry!Begin, Deliveries
  <1> QED
    BY <1>3, <1>13

LEMMA InvokeRefines ==
    ASSUME DispatcherAssumption, IInv, NEW t \in Threads, Invoke(t)
    PROVE  \E l \in Listeners : Registry!Deliver(t, l)
  <1> DEFINE n == Len(stack[t])
  <1>1. /\ At(t, "loop") /\ Top(t).pc = "loop" /\ stack[t] # <<>>
        /\ mtx' = mtx /\ listeners' = listeners
    BY DEF Invoke, At
  <1>2. /\ mtx = t /\ Top(t) \in Frame /\ Top(t).op = "dispatch" /\ n \in Nat \ {0}
        /\ Deliveries \in Seq(Registry!Delivery)
        /\ Len(Deliveries) = n /\ Deliveries # <<>> /\ Deliveries[n] = View(Top(t))
    BY <1>1, InnermostIsTop
  <1>3. Top(t).listener = NoListener
    BY <1>1, <1>2, TopFacts
  <1>4. PICK l \in Top(t).todo :
          Becomes(t, [Top(t) EXCEPT !.pc = "handler", !.listener = l, !.todo = @ \ {l}])
    BY DEF Invoke
  <1> DEFINE f == [Top(t) EXCEPT !.pc = "handler", !.listener = l, !.todo = @ \ {l}]
             v == View(Top(t))
  <1>5. l \in Listeners
    BY <1>2 DEF Frame
  <1>6. /\ f \in Frame /\ f.pc = "handler"
        /\ View(f) = [v EXCEPT !.due = @ \ {l}, !.running = l]
        /\ v.running = NoListener /\ v.due = Top(t).todo
    <2>1. f \in Frame /\ f.pc = "handler"
      BY <1>2, <1>5 DEF Frame, Labels
    <2>2. f.event = Top(t).event /\ f.todo = Top(t).todo \ {l} /\ f.listener = l
      BY <1>2 DEF Frame
    <2>3. View(f) = [v EXCEPT !.due = @ \ {l}, !.running = l]
      <3> HIDE DEF f
      <3>1. View(f) = [event |-> Top(t).event, due |-> Top(t).todo \ {l}, running |-> l]
        BY <2>2 DEF View
      <3>2. v = [event |-> Top(t).event, due |-> Top(t).todo, running |-> Top(t).listener]
        BY DEF View
      <3> HIDE DEF v
      <3>3. PICK w : w = [v EXCEPT !.due = v.due \ {l}]
        OBVIOUS
      <3>4. w = [event |-> Top(t).event, due |-> Top(t).todo \ {l},
                 running |-> Top(t).listener]
        BY <3>2, <3>3
      <3>5. [w EXCEPT !.running = l]
              = [event |-> Top(t).event, due |-> Top(t).todo \ {l}, running |-> l]
        BY <3>4
      <3> QED
        BY <3>1, <3>3, <3>5
    <2> QED
      BY <1>3, <2>1, <2>3 DEF View
  <1>7. Becomes(t, f)
    BY <1>4
  <1> HIDE DEF f
  <1>8. Deliveries' = [Deliveries EXCEPT ![n] = View(f)]
    BY <1>1, <1>2, <1>6, <1>7, ChangeInnermost
  <1>9. [Deliveries EXCEPT ![n] = View(f)]
          = [Deliveries EXCEPT ![n].due = @ \ {l}, ![n].running = l]
    <2>1. n \in DOMAIN Deliveries
      BY <1>2, LenProperties
    <2>2. View(f) = [[Deliveries[n] EXCEPT !.due = @ \ {l}] EXCEPT !.running = l]
      BY <1>2, <1>6
    <2> QED
      BY <2>1, <2>2
  <1>10. Registry!Deliver(t, l)
    BY <1>1, <1>2, <1>6, <1>8, <1>9 DEF Registry!Deliver, Registry!Innermost, Deliveries
  <1> QED
    BY <1>5, <1>10

\* A handler's return removes its own listener from its event or none.
LEMMA ReturnRefines ==
    ASSUME DispatcherAssumption, IInv, NEW t \in Threads, NEW stop \in BOOLEAN,
           HandlerReturn(t, stop)
    PROVE  Registry!Return(t) \/ Registry!End(t)
  <1> DEFINE n == Len(stack[t])
             f == [Top(t) EXCEPT !.pc = IF stop THEN "unwind" ELSE "loop",
                                 !.listener = NoListener,
                                 !.todo = IF stop THEN {} ELSE @]
             v == View(Top(t))
  <1>1. /\ At(t, "handler") /\ Top(t).pc = "handler" /\ stack[t] # <<>> /\ mtx' = mtx
        /\ Becomes(t, f)
        /\ listeners' = listeners
           \/ listeners' = [listeners EXCEPT ![Top(t).event] = @ \ {Top(t).listener}]
    BY DEF HandlerReturn, At
  <1>2. /\ mtx = t /\ Top(t) \in Frame /\ Top(t).op = "dispatch" /\ n \in Nat \ {0}
        /\ Deliveries \in Seq(Registry!Delivery)
        /\ Len(Deliveries) = n /\ Deliveries # <<>> /\ Deliveries[n] = v
    BY <1>1, InnermostIsTop
  <1>3. Top(t).listener # NoListener
    <2>1. FrameOK(t) /\ n \in 1..n /\ Top(t) = stack[t][n]
      BY <1>1, TopFacts DEF IInv
    <2> QED
      BY <1>1, <2>1 DEF FrameOK
  <1>4. v.running = Top(t).listener /\ v.event = Top(t).event
    BY DEF View
  <1>5. Registry!MayRemove(v.running, v.event)
    BY <1>1, <1>3, <1>4 DEF Registry!MayRemove
  <1>6. f \in Frame /\ f.pc = IF stop THEN "unwind" ELSE "loop"
    BY <1>2 DEF Frame, Labels
  <1>7. CASE stop
    <2>1. Deliveries' = SubSeq(Deliveries, 1, Len(Deliveries) - 1)
      <3> HIDE DEF f
      <3> QED
        BY <1>1, <1>6, <1>7, EndInnermost
    <2>2. Registry!End(t)
      BY <1>1, <1>2, <1>5, <2>1 DEF Registry!End, Registry!Outer, Registry!Innermost, Deliveries
    <2> QED
      BY <2>2
  <1>8. CASE ~stop
    <2>1. View(f) = [v EXCEPT !.running = NoListener]
      BY <1>2, <1>8 DEF View, Frame
    <2> HIDE DEF f
    <2>2. Deliveries' = [Deliveries EXCEPT ![n] = View(f)]
      BY <1>1, <1>2, <1>6, <1>8, ChangeInnermost
    <2>3. [Deliveries EXCEPT ![n] = View(f)] = [Deliveries EXCEPT ![n].running = NoListener]
      BY <1>2, <2>1
    <2>4. Registry!Return(t)
      BY <1>1, <1>2, <1>3, <1>4, <1>5, <2>2, <2>3
         DEF Registry!Return, Registry!Innermost, Deliveries
    <2> QED
      BY <2>4
  <1> QED
    BY <1>7, <1>8

LEMMA EndRefines ==
    ASSUME DispatcherAssumption, IInv, NEW t \in Threads, EndLoop(t) \/ HandlerPanic(t)
    PROVE  Registry!End(t)
  <1>1. /\ At(t, "loop") \/ At(t, "handler")
        /\ mtx' = mtx /\ listeners' = listeners
    BY DEF EndLoop, HandlerPanic
  <1>2. mtx = t /\ Top(t) \in Frame /\ Deliveries # <<>>
    BY <1>1, InnermostIsTop
  <1>3. PICK f \in Frame : Becomes(t, f) /\ f.pc = "unwind"
    <2>1. /\ [Top(t) EXCEPT !.pc = "unwind"] \in Frame
          /\ [Top(t) EXCEPT !.pc = "unwind", !.listener = NoListener, !.todo = {}] \in Frame
          /\ [Top(t) EXCEPT !.pc = "unwind"].pc = "unwind"
          /\ [Top(t) EXCEPT !.pc = "unwind", !.listener = NoListener, !.todo = {}].pc = "unwind"
      BY <1>2 DEF Frame, Labels
    <2> QED
      BY <2>1 DEF EndLoop, HandlerPanic, Goto
  <1>4. Deliveries' = SubSeq(Deliveries, 1, Len(Deliveries) - 1)
    BY <1>1, <1>3, EndInnermost
  <1> QED
    BY <1>1, <1>2, <1>4 DEF Registry!End, Registry!Outer, Registry!MayRemove, Deliveries

LEMMA InitRefines == DispatcherAssumption /\ Init => Registry!Init
  BY DEF Init, Registry!Init

LEMMA StepRefines ==
    DispatcherAssumption /\ IInv /\ [Next]_vars => [Registry!Next]_Registry!vars
  <1> SUFFICES ASSUME DispatcherAssumption, IInv, [Next]_vars
               PROVE  Registry!Next \/ UNCHANGED <<mtx, listeners, Deliveries>>
    BY DEF Registry!vars, Deliveries
  <1>1. CASE UNCHANGED vars
    BY <1>1 DEF vars, Deliveries, Delivering, At, Top
  <1>2. ASSUME NEW t \in Threads, NEW op \in Ops, NEW e \in Events,
               NEW l \in Listeners \cup {NoListener}, Call(t, op, e, l)
        PROVE  UNCHANGED <<mtx, listeners, Deliveries>>
    <2>1. Deliveries' = Deliveries
      BY <1>2, CallStutters
    <2> QED
      BY <1>2, <2>1 DEF Call
  <1>3. ASSUME NEW t \in Threads, Lock(t)
        PROVE  Registry!Next
    BY <1>3, LockAcquires DEF Registry!Next
  <1>4. ASSUME NEW t \in Threads, Step(t)
        PROVE  Registry!Next \/ UNCHANGED <<mtx, listeners, Deliveries>>
    <2>1. CASE Unlock(t)
      BY <2>1, UnlockReleases DEF Registry!Next
    <2>2. CASE Leave(t)
      <3>1. Deliveries' = Deliveries
        BY <2>2, LeaveStutters
      <3> QED
        BY <2>2, <3>1 DEF Leave
    <2>3. CASE CheckGoid(t) \/ Mark(t) \/ HasEventListener(t) \/ Unwind(t)
      BY <2>3, HiddenSteps
    <2>4. CASE AddEventListener(t) \/ RemoveEventListener(t)
      BY <2>4, TableRefines DEF Registry!Next
    <2>5. CASE BeginDispatch(t)
      BY <2>5, BeginRefines, HiddenSteps DEF Registry!Next
    <2>6. CASE Invoke(t)
      BY <2>6, InvokeRefines DEF Registry!Next
    <2>7. CASE EndLoop(t) \/ HandlerPanic(t)
      BY <2>7, EndRefines DEF Registry!Next
    <2>8. ASSUME NEW stop \in BOOLEAN, HandlerReturn(t, stop)
          PROVE  Registry!Next
      BY <2>8, ReturnRefines DEF Registry!Next
    <2> QED
      BY <1>4, <2>1, <2>2, <2>3, <2>4, <2>5, <2>6, <2>7, <2>8 DEF Step
  <1> QED
    BY <1>1, <1>2, <1>3, <1>4 DEF Next, Finished

\* The dispatcher implements ListenerRegistry, for any goroutines, listeners
\* and recursion limit: what is delivered is what was registered when the
\* dispatch began, each listener at most once, under the mutex throughout.
THEOREM RegistryIsImplemented == Spec => ImplementsRegistry
  BY DispatcherAssumption, IInvInit, IInvStep, InitRefines, StepRefines, Invariance, PTL
     DEF Spec, ImplementsRegistry, Registry!Spec

=============================================================================
