------------------------- MODULE MediaRecorderProofs -------------------------
(***************************************************************************)
(* A recorder never writes to its closed file, whoever controls it; and    *)
(* for a single user, and as long as nothing fails, STOP and START         *)
(* alternate.                                                              *)
(*                                                                         *)
(* What a goroutine is left to do is a stack of steps.  A step pops itself *)
(* and pushes the steps of what it calls, so each invariant says what may  *)
(* stand at the top and what below it.                                     *)
(***************************************************************************)
EXTENDS MediaRecorder, FiniteSetTheorems, SequenceTheorems, TLAPS

Steps ==
    {"start", "pause", "resume", "stop",
     "startLock", "pauseLock", "resumeLock", "stopLock", "unlock",
     "START", "PAUSE", "RESUME", "STOP", "ERROR", "CLOSE", "PACKET", "dispatched",
     "write", "remove", "closeFile", "source", "close", "flvLock", "wire"}

Stack == Seq(Steps)

-----------------------------------------------------------------------------
(* Stacks.                                                                 *)

\* A stack is its top and what is left below.
LEMMA TopAndRest ==
    ASSUME NEW S, NEW q \in Seq(S), q # <<>>
    PROVE  /\ Head(q) \in S /\ Head(q) = q[1] /\ Tail(q) \in Seq(S)
           /\ Len(q) \in Nat \ {0} /\ Len(Tail(q)) = Len(q) - 1
           /\ \A i \in 1..(Len(q) - 1) : Tail(q)[i] = q[i + 1]
    BY HeadTailProperties, EmptySeq

LEMMA Concat ==
    ASSUME NEW S, NEW s \in Seq(S), NEW r \in Seq(S), NEW p, p = s \o r
    PROVE  /\ p \in Seq(S) /\ Len(p) = Len(s) + Len(r) /\ Len(s) \in Nat /\ Len(r) \in Nat
           /\ \A i \in 1..Len(s) : p[i] = s[i]
           /\ \A i \in 1..Len(r) : p[Len(s) + i] = r[i]
    OBVIOUS

LEMMA One ==
    ASSUME NEW S, NEW a \in S
    PROVE  <<a>> \in Seq(S) /\ Len(<<a>>) = 1 /\ <<a>>[1] = a
    OBVIOUS

\* A step in front of others.
LEMMA Push ==
    ASSUME NEW S, NEW a \in S, NEW r \in Seq(S)
    PROVE  /\ <<a>> \o r \in Seq(S) /\ <<a>> \o r # <<>>
           /\ Head(<<a>> \o r) = a /\ Tail(<<a>> \o r) = r
  <1>1. PICK q : q = <<a>> \o r
    OBVIOUS
  <1>2. /\ q \in Seq(S) /\ Len(q) = 1 + Len(r) /\ Len(r) \in Nat
        /\ q[1] = a /\ \A i \in 1..Len(r) : q[1 + i] = r[i]
    <2>1. PICK s \in Seq(S) : s = <<a>> /\ Len(s) = 1 /\ s[1] = a
      BY One
    <2>2. q = s \o r
      BY <1>1, <2>1
    <2>3. /\ q \in Seq(S) /\ Len(q) = Len(s) + Len(r) /\ Len(s) \in Nat /\ Len(r) \in Nat
          /\ \A i \in 1..Len(s) : q[i] = s[i]
          /\ \A i \in 1..Len(r) : q[Len(s) + i] = r[i]
      BY <2>2, Concat
    <2> QED
      BY <2>1, <2>3
  <1>3. q # <<>>
    BY <1>2, EmptySeq
  <1>4. /\ Head(q) = a /\ Tail(q) \in Seq(S) /\ Len(Tail(q)) = Len(r)
        /\ \A i \in 1..Len(r) : Tail(q)[i] = q[i + 1]
    BY <1>2, <1>3, TopAndRest
  <1>5. \A i \in 1..Len(r) : Tail(q)[i] = r[i]
    BY <1>2, <1>4
  <1>6. Tail(q) = r
    BY <1>4, <1>5, SeqEqual
  <1> QED
    BY <1>1, <1>2, <1>3, <1>4, <1>6

LEMMA HeadAndTail ==
    ASSUME NEW S, NEW q \in Seq(S), q # <<>>
    PROVE  q = <<Head(q)>> \o Tail(q)
  <1>1. PICK a \in S, r \in Seq(S) : a = Head(q) /\ r = Tail(q)
    BY TopAndRest
  <1>2. PICK s \in Seq(S) : s = <<a>> /\ Len(s) = 1 /\ s[1] = a
    BY One
  <1>3. PICK p : p = s \o r
    OBVIOUS
  <1>4. /\ p \in Seq(S) /\ Len(p) = 1 + Len(r) /\ Len(r) \in Nat
        /\ p[1] = a /\ \A i \in 1..Len(r) : p[1 + i] = r[i]
    <2>1. /\ p \in Seq(S) /\ Len(p) = Len(s) + Len(r) /\ Len(s) \in Nat /\ Len(r) \in Nat
          /\ \A i \in 1..Len(s) : p[i] = s[i]
          /\ \A i \in 1..Len(r) : p[Len(s) + i] = r[i]
      BY <1>3, Concat
    <2> QED
      BY <1>2, <2>1
  <1>5. /\ Len(q) = 1 + Len(r) /\ q[1] = a
        /\ \A i \in 1..Len(r) : r[i] = q[i + 1]
    BY <1>1, <1>4, TopAndRest
  <1>6. \A i \in 1..Len(q) : p[i] = q[i]
    <2> SUFFICES ASSUME NEW i \in 1..Len(q) PROVE p[i] = q[i]
      OBVIOUS
    <2>1. CASE i = 1
      BY <1>4, <1>5, <2>1
    <2>2. CASE i # 1
      <3>1. i - 1 \in 1..Len(r) /\ 1 + (i - 1) = i /\ (i - 1) + 1 = i
        BY <1>4, <1>5, <2>2
      <3> QED
        BY <1>4, <1>5, <3>1
    <2> QED
      BY <2>1, <2>2
  <1>7. p = q
    BY <1>4, <1>5, <1>6, SeqEqual
  <1> QED
    BY <1>1, <1>2, <1>3, <1>7

\* Two steps in front of others, one after the other.
LEMMA PushTwo ==
    ASSUME NEW S, NEW a \in S, NEW b \in S, NEW r \in Seq(S)
    PROVE  <<a, b>> \in Seq(S) /\ <<a, b>> \o r = <<a>> \o (<<b>> \o r)
  <1>1. /\ <<a>> \in Seq(S) /\ <<b>> \in Seq(S) /\ <<a, b>> \in Seq(S)
        /\ Tail(<<a, b>>) = <<b>> /\ Head(<<a, b>>) = a /\ <<a, b>> # <<>>
    <2>0. /\ <<a, b>> \in Seq(S)
          /\ Len(<<a, b>>) = 2 /\ <<a, b>>[1] = a /\ <<a, b>>[2] = b
      OBVIOUS
    <2>1. PICK q \in Seq(S) : q = <<a, b>> /\ Len(q) = 2 /\ q[1] = a /\ q[2] = b
      BY <2>0, Zenon
    <2>2. q # <<>>
      BY <2>1, EmptySeq
    <2>3. PICK r2 \in Seq(S) : r2 = Tail(q) /\ Len(r2) = 1 /\ r2[1] = b /\ Head(q) = a
      <3>1. /\ Head(q) = q[1] /\ Tail(q) \in Seq(S) /\ Len(Tail(q)) = Len(q) - 1
            /\ \A i \in 1..(Len(q) - 1) : Tail(q)[i] = q[i + 1]
        BY <2>2, TopAndRest
      <3>2. Len(q) - 1 = 1 /\ 1 \in 1..1 /\ 1 + 1 = 2
        BY <2>1
      <3> QED
        BY <2>1, <3>1, <3>2
    <2>4. PICK s \in Seq(S) : s = <<b>> /\ Len(s) = 1 /\ s[1] = b
      BY One
    <2>5. r2 = s
      <3>1. Len(r2) = Len(s) /\ \A i \in 1..Len(r2) : r2[i] = s[i]
        BY <2>3, <2>4
      <3> QED
        BY <3>1, SeqEqual, Zenon
    <2> QED
      BY <2>1, <2>2, <2>3, <2>4, <2>5, One
  <1>2. <<a, b>> = <<a>> \o <<b>>
    BY <1>1, HeadAndTail
  <1> QED
    BY <1>1, <1>2, ConcatAssociative

\* Below what is on the top there may be more.
LEMMA PushOnTop ==
    ASSUME NEW S, NEW s \in Seq(S), NEW q \in Seq(S), NEW r \in Seq(S), q # <<>>
    PROVE  /\ q \o r \in Seq(S) /\ q \o r # <<>>
           /\ Head(q \o r) = Head(q) /\ Tail(q \o r) = Tail(q) \o r
           /\ s \o Tail(q \o r) = (s \o Tail(q)) \o r
  <1>1. PICK a \in S, t \in Seq(S) : a = Head(q) /\ t = Tail(q) /\ q = <<a>> \o t
    BY TopAndRest, HeadAndTail
  <1>2. q \o r = <<a>> \o (t \o r) /\ t \o r \in Seq(S)
    <2>1. PICK b \in Seq(S) : b = <<a>>
      BY One
    <2>2. (b \o t) \o r = b \o (t \o r)
      BY ConcatAssociative
    <2>3. t \o r \in Seq(S)
      BY ConcatProperties
    <2> QED
      BY <1>1, <2>1, <2>2, <2>3
  <1>3. /\ q \o r \in Seq(S) /\ q \o r # <<>>
        /\ Head(q \o r) = a /\ Tail(q \o r) = t \o r
    BY <1>2, Push
  <1>4. (s \o t) \o r = s \o (t \o r)
    BY ConcatAssociative
  <1> QED
    BY <1>1, <1>3, <1>4

\* What a step of t does to the stacks.
LEMMA ThenPushes ==
    ASSUME todo \in [Threads -> Stack], NEW t \in Threads, todo[t] # <<>>,
           NEW s \in Stack, Then(t, s)
    PROVE  /\ todo' \in [Threads -> Stack]
           /\ todo'[t] = s \o Tail(todo[t])
           /\ \A u \in Threads : u # t => todo'[u] = todo[u]
           /\ Len(todo'[t]) = Len(s) + Len(todo[t]) - 1
           /\ Len(s) \in Nat /\ Len(todo[t]) \in Nat \ {0}
           /\ \A i \in 1..Len(s) : todo'[t][i] = s[i]
           /\ \A i \in 2..Len(todo[t]) : todo'[t][Len(s) + i - 1] = todo[t][i]
  <1>1. PICK q \in Stack : q = todo[t]
    OBVIOUS
  <1>2. PICK r \in Stack :
            /\ r = Tail(q) /\ Len(q) \in Nat \ {0} /\ Len(r) = Len(q) - 1
            /\ \A i \in 1..(Len(q) - 1) : r[i] = q[i + 1]
    <2>1. q \in Seq(Steps) /\ q # <<>>
      BY <1>1 DEF Stack
    <2>2. /\ Tail(q) \in Seq(Steps) /\ Len(q) \in Nat \ {0} /\ Len(Tail(q)) = Len(q) - 1
          /\ \A i \in 1..(Len(q) - 1) : Tail(q)[i] = q[i + 1]
      BY <2>1, TopAndRest
    <2> QED
      BY <2>2 DEF Stack
  <1>3. PICK p \in Stack : p = s \o r
    BY Concat DEF Stack
  <1>4. /\ p \in Stack /\ Len(p) = Len(s) + Len(r) /\ Len(s) \in Nat
        /\ \A i \in 1..Len(s) : p[i] = s[i]
        /\ \A i \in 1..Len(r) : p[Len(s) + i] = r[i]
    BY <1>3, Concat DEF Stack
  <1>5. todo' = [todo EXCEPT ![t] = p]
    BY <1>1, <1>2, <1>3 DEF Then
  <1>6. /\ todo' \in [Threads -> Stack] /\ todo'[t] = p
        /\ \A u \in Threads : u # t => todo'[u] = todo[u]
    BY <1>4, <1>5
  <1>7. ASSUME NEW i \in 2..Len(q) PROVE p[Len(s) + i - 1] = q[i]
    <2>1. /\ i - 1 \in 1..Len(r) /\ i - 1 \in 1..(Len(q) - 1)
          /\ Len(s) + i - 1 = Len(s) + (i - 1) /\ (i - 1) + 1 = i
      BY <1>2, <1>4
    <2>2. p[Len(s) + (i - 1)] = r[i - 1] /\ r[i - 1] = q[(i - 1) + 1]
      BY <1>2, <1>4, <2>1
    <2> QED
      BY <2>1, <2>2
  <1>8. Len(p) = Len(s) + Len(q) - 1
    BY <1>2, <1>4
  <1> QED
    BY <1>1, <1>2, <1>3, <1>4, <1>6, <1>7, <1>8

-----------------------------------------------------------------------------
(* The dispatcher and the file.                                            *)

\* The dispatches a stack is in, by their height over its bottom.
Nested(q) == {j \in 0..(Len(q) - 1) : q[Len(q) - j] = "dispatched"}

NestingOK == depth = IF owner = Nobody THEN 0 ELSE Cardinality(Nested(todo[owner]))

\* Who is in a dispatch holds the dispatcher; a packet is about to be written
\* only while the listener is registered; and the listeners have been removed
\* before the file is closed.
Sound(q, mine, registered) ==
    \A i \in 1..Len(q) :
        /\ q[i] = "dispatched" => mine
        /\ q[i] = "write" => i = 1 /\ mine /\ registered
        /\ q[i] = "closeFile" /\ i = 1 => ~registered
        /\ q[i] = "closeFile" /\ i # 1 => q[i - 1] = "remove"

FileInv ==
    /\ todo \in [Threads -> Stack]
    /\ owner \in Threads \cup {Nobody} /\ depth \in Nat
    /\ NestingOK
    /\ file = "closed" => ~listening
    /\ \A t \in Threads : Sound(todo[t], owner = t, listening)

\* p is q with s in place of its top.
Becomes(q, s, p) ==
    /\ Len(p) = Len(s) + Len(q) - 1
    /\ \A i \in 1..Len(s) : p[i] = s[i]
    /\ \A i \in 2..Len(q) : p[Len(s) + i - 1] = q[i]

\* Where a step of p comes from, and what is over it.
FromTop(s, p, i) ==
    /\ i \in 1..Len(s) /\ p[i] = s[i]
    /\ i # 1 => i - 1 \in 1..Len(s) /\ p[i - 1] = s[i - 1]

FromBelow(q, s, p, i, k) ==
    /\ k \in 1..Len(q) /\ k # 1 /\ p[i] = q[k]
    /\ k = 2 => i = Len(s) + 1
    /\ k # 2 => i # 1 /\ p[i - 1] = q[k - 1]

LEMMA Positions ==
    ASSUME NEW S, NEW q \in Seq(S), NEW s \in Seq(S), NEW p \in Seq(S), Len(q) # 0,
           Becomes(q, s, p), NEW i \in 1..Len(p)
    PROVE  FromTop(s, p, i) \/ \E k \in Nat : FromBelow(q, s, p, i, k)
  <1>1. PICK n \in Nat, m \in Nat \ {0} :
            /\ n = Len(s) /\ m = Len(q) /\ Len(p) = n + m - 1
            /\ \A j \in 1..n : p[j] = s[j]
            /\ \A j \in 2..m : p[n + j - 1] = q[j]
    BY LenProperties DEF Becomes
  <1>2. CASE i <= n
    <2>1. i \in 1..n /\ (i # 1 => i - 1 \in 1..n)
      BY <1>1, <1>2
    <2>2. p[i] = s[i] /\ (i # 1 => p[i - 1] = s[i - 1])
      BY <1>1, <2>1
    <2> QED
      BY <1>1, <2>1, <2>2 DEF FromTop
  <1>3. CASE ~(i <= n)
    <2>1. PICK k \in Nat : k = i - n + 1 /\ k \in 2..m /\ k \in 1..m /\ k # 1 /\ n + k - 1 = i
      BY <1>1, <1>3
    <2>2. p[i] = q[k]
      BY <1>1, <2>1
    <2>3. k = 2 => i = n + 1
      BY <1>1, <2>1
    <2>4. ASSUME k # 2 PROVE i # 1 /\ p[i - 1] = q[k - 1]
      <3>1. k - 1 \in 2..m /\ n + (k - 1) - 1 = i - 1 /\ i # 1
        BY <1>1, <2>1, <2>4
      <3> QED
        BY <1>1, <3>1
    <2> QED
      BY <1>1, <2>1, <2>2, <2>3, <2>4 DEF FromBelow
  <1> QED
    BY <1>2, <1>3

\* A dispatch is added or removed only at the top.
NestedBecomes(q, s, p) ==
    /\ Nested(q) \subseteq 0..(Len(q) - 1) /\ IsFiniteSet(Nested(q))
    /\ Len(q) - 1 \in Nested(q) <=> q[1] = "dispatched"
    /\ \A j \in Nested(p) :
         \/ j \in Nested(q) /\ j # Len(q) - 1
         \/ \E k \in 1..Len(s) : j = Len(p) - k /\ s[k] = "dispatched"
    /\ \A j \in Nested(q) : j # Len(q) - 1 => j \in Nested(p)
    /\ \A k \in 1..Len(s) : s[k] = "dispatched" => Len(p) - k \in Nested(p)

LEMMA NestedAfter ==
    ASSUME NEW S, NEW q \in Seq(S), NEW s \in Seq(S), NEW p \in Seq(S), Len(q) # 0,
           Becomes(q, s, p)
    PROVE  NestedBecomes(q, s, p)
  <1>1. PICK n \in Nat, m \in Nat \ {0} :
            /\ n = Len(s) /\ m = Len(q) /\ Len(p) = n + m - 1
            /\ \A j \in 1..n : p[j] = s[j]
            /\ \A j \in 2..m : p[n + j - 1] = q[j]
    BY LenProperties DEF Becomes
  <1>2. /\ Nested(q) = {j \in 0..(m - 1) : q[m - j] = "dispatched"}
        /\ Nested(p) = {j \in 0..(n + m - 1 - 1) : p[n + m - 1 - j] = "dispatched"}
    BY <1>1 DEF Nested
  <1>3. m - 1 \in Nested(q) <=> q[1] = "dispatched"
    <2>1. m - 1 \in 0..(m - 1) /\ m - (m - 1) = 1
      BY <1>1
    <2> QED
      BY <1>2, <2>1
  <1>4. ASSUME NEW j \in Nested(p)
        PROVE  \/ j \in Nested(q) /\ j # m - 1
               \/ \E k \in 1..n : j = n + m - 1 - k /\ s[k] = "dispatched"
    <2>1. j \in 0..(n + m - 1 - 1) /\ p[n + m - 1 - j] = "dispatched"
      BY <1>2
    <2>2. CASE j <= m - 2
      <3>1. j \in 0..(m - 1) /\ m - j \in 2..m /\ n + (m - j) - 1 = n + m - 1 - j /\ j # m - 1
        BY <2>1, <2>2
      <3> QED
        BY <1>1, <1>2, <2>1, <3>1
    <2>3. CASE ~(j <= m - 2)
      <3>1. PICK k \in 1..n : k = n + m - 1 - j /\ j = n + m - 1 - k
        BY <2>1, <2>3
      <3> QED
        BY <1>1, <2>1, <3>1
    <2> QED
      BY <2>2, <2>3
  <1>5. ASSUME NEW j \in Nested(q), j # m - 1 PROVE j \in Nested(p)
    <2>1. j \in 0..(m - 1) /\ q[m - j] = "dispatched"
      BY <1>2
    <2>2. m - j \in 2..m /\ n + (m - j) - 1 = n + m - 1 - j /\ j \in 0..(n + m - 1 - 1)
      BY <1>5, <2>1
    <2> QED
      BY <1>1, <1>2, <2>1, <2>2
  <1>6. ASSUME NEW k \in 1..n, s[k] = "dispatched" PROVE n + m - 1 - k \in Nested(p)
    <2>1. n + m - 1 - k \in 0..(n + m - 1 - 1) /\ n + m - 1 - (n + m - 1 - k) = k
      OBVIOUS
    <2> QED
      BY <1>1, <1>2, <1>6, <2>1
  <1>7. Nested(q) \subseteq 0..(m - 1) /\ IsFiniteSet(Nested(q))
    <2>1. IsFiniteSet(0..(m - 1))
      BY FS_Interval
    <2> QED
      BY <1>2, <2>1, FS_Subset
  <1> QED
    BY <1>1, <1>3, <1>4, <1>5, <1>6, <1>7 DEF NestedBecomes

\* What a step of t does, by stacks alone.
LEMMA StepBecomes ==
    ASSUME todo \in [Threads -> Stack], NEW t \in Threads, NEW s \in Stack, NEW h,
           At(t, h), Then(t, s)
    PROVE  /\ todo' \in [Threads -> Stack]
           /\ \A u \in Threads : u # t => todo'[u] = todo[u]
           /\ todo[t] \in Stack /\ Len(todo[t]) # 0 /\ todo[t][1] = h
           /\ todo'[t] = s \o Tail(todo[t]) /\ Becomes(todo[t], s, todo'[t])
  <1>1. todo[t] # <<>> /\ Head(todo[t]) = h
    BY DEF At
  <1>2. /\ todo' \in [Threads -> Stack] /\ \A u \in Threads : u # t => todo'[u] = todo[u]
        /\ todo'[t] = s \o Tail(todo[t])
        /\ Len(todo[t]) # 0 /\ Becomes(todo[t], s, todo'[t])
    BY <1>1, ThenPushes DEF Becomes
  <1>3. PICK q \in Stack : q = todo[t]
    OBVIOUS
  <1>4. q[1] = h
    BY <1>1, <1>3, TopAndRest DEF Stack
  <1> QED
    BY <1>2, <1>3, <1>4


\* What may be pushed over a sound stack.
Pushable(s, mine, registered) ==
    \A i \in 1..Len(s) :
        /\ s[i] = "dispatched" => mine
        /\ s[i] = "write" => i = 1 /\ mine /\ registered
        /\ s[i] = "closeFile" => i # 1 /\ s[i - 1] = "remove"

LEMMA SoundAfter ==
    ASSUME NEW S, NEW q \in Seq(S), NEW s \in Seq(S), NEW p \in Seq(S), Len(q) # 0,
           Becomes(q, s, p),
           NEW mine, NEW reg, NEW mineNow, NEW regNow,
           Sound(q, mine, reg), Pushable(s, mineNow, regNow),
           \A k \in 1..Len(q) : k # 1 /\ q[k] = "dispatched" => mineNow,
           q[1] = "remove" => Len(s) = 0 /\ ~regNow
    PROVE  Sound(p, mineNow, regNow)
  <1> SUFFICES ASSUME NEW i \in 1..Len(p)
               PROVE  /\ p[i] = "dispatched" => mineNow
                      /\ p[i] = "write" => i = 1 /\ mineNow /\ regNow
                      /\ p[i] = "closeFile" /\ i = 1 => ~regNow
                      /\ p[i] = "closeFile" /\ i # 1 => p[i - 1] = "remove"
    BY DEF Sound
  <1>1. FromTop(s, p, i) \/ \E k \in Nat : FromBelow(q, s, p, i, k)
    BY Positions
  <1>2. CASE FromTop(s, p, i)
    <2>1. /\ i \in 1..Len(s) /\ p[i] = s[i]
          /\ i # 1 => p[i - 1] = s[i - 1]
      BY <1>2 DEF FromTop
    <2>2. /\ s[i] = "dispatched" => mineNow
          /\ s[i] = "write" => i = 1 /\ mineNow /\ regNow
          /\ s[i] = "closeFile" => i # 1 /\ s[i - 1] = "remove"
      BY <2>1 DEF Pushable
    <2> QED
      BY <2>1, <2>2
  <1>3. ASSUME NEW k \in Nat, FromBelow(q, s, p, i, k)
        PROVE  /\ p[i] = "dispatched" => mineNow
               /\ p[i] # "write"
               /\ p[i] = "closeFile" /\ i = 1 => ~regNow
               /\ p[i] = "closeFile" /\ i # 1 => p[i - 1] = "remove"
    <2>1. /\ k \in 1..Len(q) /\ k # 1 /\ p[i] = q[k]
          /\ k = 2 => i = Len(s) + 1
          /\ k # 2 => i # 1 /\ p[i - 1] = q[k - 1]
      BY <1>3 DEF FromBelow
    <2>2. /\ q[k] = "dispatched" => mineNow
          /\ q[k] # "write"
          /\ q[k] = "closeFile" => q[k - 1] = "remove"
      BY <2>1 DEF Sound
    <2>3. CASE k = 2
      <3>1. i = Len(s) + 1
        BY <2>1, <2>3
      <3>2. k - 1 = 1
        BY <2>3
      <3>3. ASSUME q[k] = "closeFile" PROVE i = 1 /\ ~regNow
        <4>1. q[1] = "remove"
          BY <2>2, <3>2, <3>3
        <4>2. Len(s) = 0 /\ ~regNow
          BY <4>1
        <4> QED
          BY <3>1, <4>2
      <3> QED
        BY <2>1, <2>2, <3>3
    <2>4. CASE k # 2
      BY <2>1, <2>2, <2>4
    <2> QED
      BY <2>3, <2>4
  <1> QED
    BY <1>1, <1>2, <1>3

LEMMA SoundStep ==
    ASSUME FileInv, NEW t \in Threads, NEW h, NEW s \in Stack, At(t, h), Then(t, s),
           Pushable(s, owner' = t, listening'),
           \A k \in 1..Len(todo[t]) : k # 1 /\ todo[t][k] = "dispatched" => owner' = t,
           \A u \in Threads : u # t /\ owner = u => owner' = u /\ listening' = listening,
           h = "remove" => Len(s) = 0 /\ ~listening',
           listening' => listening
    PROVE  \A u \in Threads : Sound(todo[u], owner = u, listening)'
  <1>1. /\ todo' \in [Threads -> Stack]
        /\ \A u \in Threads : u # t => todo'[u] = todo[u]
        /\ todo[t] \in Stack /\ Len(todo[t]) # 0 /\ todo[t][1] = h
        /\ Becomes(todo[t], s, todo'[t])
    <2>1. todo \in [Threads -> Stack]
      BY DEF FileInv
    <2> QED
      BY <2>1, StepBecomes
  <1>2. Sound(todo'[t], owner' = t, listening')
    <2>1. /\ todo'[t] \in Stack /\ Sound(todo[t], owner = t, listening)
          /\ todo[t][1] = "remove" => Len(s) = 0 /\ ~listening'
      BY <1>1 DEF FileInv
    <2>2. PICK q \in Stack, p \in Stack : q = todo[t] /\ p = todo'[t]
      BY <1>1, <2>1
    <2>3. /\ q \in Seq(Steps) /\ p \in Seq(Steps) /\ s \in Seq(Steps) /\ Len(q) # 0
          /\ Becomes(q, s, p)
          /\ Sound(q, owner = t, listening) /\ (q[1] = "remove" => Len(s) = 0 /\ ~listening')
          /\ \A k \in 1..Len(q) : k # 1 /\ q[k] = "dispatched" => owner' = t
      BY <1>1, <2>1, <2>2 DEF Stack
    <2>4. Sound(p, owner' = t, listening')
      BY <2>3, SoundAfter
    <2> QED
      BY <2>2, <2>4
  <1>3. ASSUME NEW u \in Threads, u # t PROVE Sound(todo'[u], owner' = u, listening')
    <2>1. Sound(todo[u], owner = u, listening) /\ todo'[u] = todo[u]
      BY <1>1, <1>3 DEF FileInv
    <2>2. /\ owner = u => owner' = u /\ listening' = listening
          /\ listening' => listening
      BY <1>3
    <2>3. PICK q \in Stack : q = todo[u] /\ q = todo'[u]
      BY <2>1 DEF FileInv
    <2>4. Sound(q, owner' = u, listening')
      <3> SUFFICES ASSUME NEW i \in 1..Len(q)
                   PROVE  /\ q[i] = "dispatched" => owner' = u
                          /\ q[i] = "write" => i = 1 /\ owner' = u /\ listening'
                          /\ q[i] = "closeFile" /\ i = 1 => ~listening'
                          /\ q[i] = "closeFile" /\ i # 1 => q[i - 1] = "remove"
        BY DEF Sound
      <3>1. /\ q[i] = "dispatched" => owner = u
            /\ q[i] = "write" => i = 1 /\ owner = u /\ listening
            /\ q[i] = "closeFile" /\ i = 1 => ~listening
            /\ q[i] = "closeFile" /\ i # 1 => q[i - 1] = "remove"
        BY <2>1, <2>3 DEF Sound
      <3> QED
        BY <2>2, <3>1
    <2> QED
      BY <2>3, <2>4
  <1> QED
    BY <1>2, <1>3

\* A step that neither begins nor ends a dispatch.
LEMMA PlainStep ==
    ASSUME FileInv, NEW t \in Threads, NEW h, h # "dispatched", NEW s \in Stack,
           At(t, h), Then(t, s), owner' = owner, depth' = depth,
           Pushable(s, FALSE, FALSE),
           h = "remove" => Len(s) = 0 /\ ~listening',
           listening' => listening,
           listening' = listening \/ owner \in {Nobody, t},
           file' = "closed" => ~listening'
    PROVE  FileInv'
  <1>1. /\ todo \in [Threads -> Stack] /\ todo' \in [Threads -> Stack]
        /\ \A u \in Threads : u # t => todo'[u] = todo[u]
        /\ todo[t] \in Stack /\ Len(todo[t]) # 0 /\ todo[t][1] = h
        /\ Becomes(todo[t], s, todo'[t])
    <2>1. todo \in [Threads -> Stack]
      BY DEF FileInv
    <2> QED
      BY <2>1, StepBecomes
  <1>2. PICK q \in Stack, p \in Stack : q = todo[t] /\ p = todo'[t]
    BY <1>1
  <1>3. Len(q) # 0 /\ q[1] = h /\ Becomes(q, s, p)
    BY <1>1, <1>2
  <1>4. Nested(p) = Nested(q)
    <2>1. NestedBecomes(q, s, p)
      BY <1>3, NestedAfter DEF Stack
    <2>2. \A k \in 1..Len(s) : s[k] # "dispatched"
      BY DEF Pushable
    <2> QED
      BY <1>3, <2>1, <2>2 DEF NestedBecomes
  <1>5. NestingOK'
    <2>1. CASE owner = Nobody
      BY <2>1 DEF FileInv, NestingOK
    <2>2. CASE owner # Nobody
      <3>1. owner \in Threads /\ depth = Cardinality(Nested(todo[owner]))
        BY <2>2 DEF FileInv, NestingOK
      <3>2. Nested(todo'[owner]) = Nested(todo[owner])
        BY <1>1, <1>2, <1>4, <3>1
      <3> QED
        BY <2>2, <3>1, <3>2 DEF NestingOK
    <2> QED
      BY <2>1, <2>2
  <1>6. \A u \in Threads : Sound(todo[u], owner = u, listening)'
    <2>1. Pushable(s, owner' = t, listening')
      BY DEF Pushable
    <2>2. \A k \in 1..Len(todo[t]) : k # 1 /\ todo[t][k] = "dispatched" => owner' = t
      BY DEF FileInv, Sound
    <2>3. \A u \in Threads : u # t /\ owner = u => owner' = u /\ listening' = listening
      BY RecorderAssumption DEF RecorderAssumption
    <2> QED
      BY <2>1, <2>2, <2>3, SoundStep
  <1>7. owner' \in Threads \cup {Nobody} /\ depth' \in Nat
    BY DEF FileInv
  <1> QED
    BY <1>1, <1>5, <1>6, <1>7 DEF FileInv

\* A dispatch begins: the listeners to run come first.
LEMMA RunStep ==
    ASSUME FileInv, NEW t \in Threads, NEW h, h \notin {"dispatched", "remove"}, NEW s \in Stack,
           At(t, h), Then(t, s), owner \in {Nobody, t}, owner' = t, depth' = depth + 1,
           Len(s) \in Nat \ {0},
           \A k \in 1..Len(s) : s[k] = "dispatched" <=> k = Len(s),
           Pushable(s, TRUE, listening),
           listening' = listening, file' = file
    PROVE  FileInv'
  <1>1. /\ todo \in [Threads -> Stack] /\ todo' \in [Threads -> Stack]
        /\ \A u \in Threads : u # t => todo'[u] = todo[u]
        /\ todo[t] \in Stack /\ Len(todo[t]) # 0 /\ todo[t][1] = h
        /\ Becomes(todo[t], s, todo'[t])
    <2>1. todo \in [Threads -> Stack]
      BY DEF FileInv
    <2> QED
      BY <2>1, StepBecomes
  <1>2. PICK q \in Stack, p \in Stack : q = todo[t] /\ p = todo'[t]
    BY <1>1
  <1>3. Len(q) # 0 /\ q[1] = h /\ Becomes(q, s, p)
    BY <1>1, <1>2
  <1>4. /\ IsFiniteSet(Nested(q)) /\ Len(q) - 1 \notin Nested(q)
        /\ Nested(p) = Nested(q) \cup {Len(q) - 1}
    <2>1. NestedBecomes(q, s, p)
      BY <1>3, NestedAfter DEF Stack
    <2>2. Len(p) - Len(s) = Len(q) - 1
      <3>1. Len(p) \in Nat /\ Len(q) \in Nat /\ Len(s) \in Nat /\ Len(p) = Len(s) + Len(q) - 1
        BY <1>3, LenProperties DEF Becomes, Stack
      <3> QED
        BY <3>1
    <2>3. Len(q) - 1 \notin Nested(q) /\ IsFiniteSet(Nested(q))
      BY <1>3, <2>1 DEF NestedBecomes
    <2>4. Len(q) - 1 \in Nested(p)
      <3>1. Len(s) \in 1..Len(s)
        OBVIOUS
      <3> QED
        BY <2>1, <2>2, <3>1 DEF NestedBecomes
    <2>5. \A j \in Nested(p) : j \in Nested(q) \/ j = Len(q) - 1
      BY <2>1, <2>2 DEF NestedBecomes
    <2>6. \A j \in Nested(q) : j \in Nested(p)
      BY <2>1, <2>3 DEF NestedBecomes
    <2> QED
      BY <2>3, <2>4, <2>5, <2>6
  <1>5. t # Nobody
    BY RecorderAssumption DEF RecorderAssumption
  <1>6. depth = Cardinality(Nested(q))
    <2>1. CASE owner = t
      BY <1>2, <1>5, <2>1 DEF FileInv, NestingOK
    <2>2. CASE owner = Nobody
      <3>1. depth = 0
        BY <2>2 DEF FileInv, NestingOK
      <3>2. \A k \in 1..Len(q) : q[k] # "dispatched"
        BY <1>2, <1>5, <2>2 DEF FileInv, Sound
      <3>3. Nested(q) = {}
        <4>1. Len(q) \in Nat
          BY LenProperties DEF Stack
        <4>2. \A j \in 0..(Len(q) - 1) : Len(q) - j \in 1..Len(q)
          BY <4>1
        <4> QED
          BY <3>2, <4>2 DEF Nested
      <3> QED
        BY <3>1, <3>3, FS_EmptySet
    <2> QED
      BY <2>1, <2>2
  <1>7. NestingOK'
    <2>1. Cardinality(Nested(p)) = Cardinality(Nested(q)) + 1
      BY <1>4, FS_AddElement
    <2> QED
      BY <1>2, <1>5, <1>6, <2>1 DEF NestingOK
  <1>8. \A u \in Threads : Sound(todo[u], owner = u, listening)'
    <2>1. Pushable(s, owner' = t, listening')
      BY DEF Pushable
    <2>2. \A u \in Threads : u # t /\ owner = u => owner' = u /\ listening' = listening
      BY RecorderAssumption DEF RecorderAssumption
    <2> QED
      BY <2>1, <2>2, SoundStep
  <1>9. owner' \in Threads \cup {Nobody} /\ depth' \in Nat
    BY DEF FileInv
  <1> QED
    BY <1>1, <1>7, <1>8, <1>9 DEF FileInv

\* A dispatch ends, and the outermost gives the dispatcher back.
LEMMA DispatchedStep ==
    ASSUME FileInv, NEW t \in Threads, Dispatched(t)
    PROVE  FileInv'
  <1>0. <<>> \in Stack /\ At(t, "dispatched") /\ Then(t, <<>>)
    BY DEF Dispatched, Stack
  <1>1. /\ todo \in [Threads -> Stack] /\ todo' \in [Threads -> Stack]
        /\ \A u \in Threads : u # t => todo'[u] = todo[u]
        /\ todo[t] \in Stack /\ Len(todo[t]) # 0 /\ todo[t][1] = "dispatched"
        /\ Becomes(todo[t], <<>>, todo'[t])
    <2>1. todo \in [Threads -> Stack]
      BY DEF FileInv
    <2> QED
      BY <1>0, <2>1, StepBecomes
  <1>2. PICK q \in Stack, p \in Stack : q = todo[t] /\ p = todo'[t]
    BY <1>1
  <1>3. Len(q) \in Nat \ {0} /\ q[1] = "dispatched" /\ Becomes(q, <<>>, p)
    BY <1>1, <1>2, LenProperties DEF Stack
  <1>4. /\ IsFiniteSet(Nested(q)) /\ Len(q) - 1 \in Nested(q)
        /\ Nested(p) = Nested(q) \ {Len(q) - 1}
    <2>1. NestedBecomes(q, <<>>, p)
      BY <1>0, <1>3, NestedAfter DEF Stack
    <2>2. PICK s \in Stack : s = <<>> /\ Len(s) = 0
      BY <1>0, EmptySeq
    <2>3. \A k \in 1..Len(s) : FALSE
      BY <2>2
    <2>4. NestedBecomes(q, s, p)
      BY <2>1, <2>2
    <2>5. /\ IsFiniteSet(Nested(q)) /\ Len(q) - 1 \in Nested(q)
          /\ \A j \in Nested(p) : j \in Nested(q) /\ j # Len(q) - 1
          /\ \A j \in Nested(q) : j # Len(q) - 1 => j \in Nested(p)
      BY <1>3, <2>3, <2>4 DEF NestedBecomes
    <2> QED
      BY <2>5
  <1>5. t # Nobody /\ owner = t
    <2>1. 1 \in 1..Len(q)
      BY <1>3
    <2>2. owner = t
      BY <1>2, <1>3, <2>1 DEF FileInv, Sound
    <2> QED
      BY <2>2, RecorderAssumption DEF RecorderAssumption
  <1>6. depth \in Nat \ {0} /\ depth = Cardinality(Nested(q)) /\ Cardinality(Nested(p)) = depth - 1
    <2>1. depth = Cardinality(Nested(q)) /\ depth \in Nat
      BY <1>2, <1>5 DEF FileInv, NestingOK
    <2>2. Cardinality(Nested(p)) = Cardinality(Nested(q)) - 1
      BY <1>4, FS_RemoveElement
    <2>3. depth # 0
      BY <1>4, <2>1, FS_EmptySet
    <2> QED
      BY <2>1, <2>2, <2>3
  <1>7. /\ depth' = depth - 1 /\ listening' = listening /\ file' = file
        /\ depth = 1 => owner' = Nobody
        /\ depth # 1 => owner' = t
    BY <1>5 DEF Dispatched
  <1>8. NestingOK' /\ depth' \in Nat /\ owner' \in Threads \cup {Nobody}
    <2>1. CASE depth = 1
      BY <1>6, <1>7, <2>1 DEF NestingOK
    <2>2. CASE depth # 1
      BY <1>2, <1>5, <1>6, <1>7, <2>2 DEF NestingOK
    <2> QED
      BY <2>1, <2>2
  <1>9. \A u \in Threads : Sound(todo[u], owner = u, listening)'
    <2>1. Pushable(<<>>, owner' = t, listening') /\ Len(<<>>) = 0
      BY EmptySeq DEF Pushable
    <2>2. \A u \in Threads : u # t /\ owner = u => owner' = u /\ listening' = listening
      BY <1>5
    <2>3. ASSUME NEW k \in 1..Len(q), k # 1, q[k] = "dispatched" PROVE owner' = t
      <3>1. Len(q) - k \in 0..(Len(q) - 1) /\ Len(q) - (Len(q) - k) = k /\ Len(q) - k # Len(q) - 1
        BY <1>3, <2>3
      <3>2. Len(q) - k \in Nested(p)
        BY <1>4, <2>3, <3>1 DEF Nested
      <3>3. IsFiniteSet(Nested(p)) /\ Nested(p) # {}
        BY <1>4, <3>2, FS_RemoveElement
      <3>4. Cardinality(Nested(p)) # 0
        BY <3>3, FS_EmptySet
      <3> QED
        BY <1>6, <1>7, <3>4
    <2>4. \A k \in 1..Len(todo[t]) : k # 1 /\ todo[t][k] = "dispatched" => owner' = t
      BY <1>2, <2>3
    <2> QED
      BY <1>0, <1>7, <2>1, <2>2, <2>4, SoundStep
  <1> QED
    BY <1>1, <1>7, <1>8, <1>9 DEF FileInv

-----------------------------------------------------------------------------
(* What the code pushes.                                                   *)

Ordinary == Steps \ {"dispatched", "write", "closeFile"}

LEMMA Two ==
    ASSUME NEW S, NEW a \in S, NEW b \in S
    PROVE  <<a, b>> \in Seq(S) /\ Len(<<a, b>>) = 2 /\ <<a, b>>[1] = a /\ <<a, b>>[2] = b
    OBVIOUS

LEMMA Four ==
    ASSUME NEW S, NEW a \in S, NEW b \in S, NEW c \in S, NEW d \in S
    PROVE  /\ <<a, b, c, d>> \in Seq(S) /\ Len(<<a, b, c, d>>) = 4
           /\ <<a, b, c, d>>[1] = a /\ <<a, b, c, d>>[2] = b
           /\ <<a, b, c, d>>[3] = c /\ <<a, b, c, d>>[4] = d
    OBVIOUS

LEMMA Nothing == <<>> \in Stack /\ Len(<<>>) = 0 /\ Pushable(<<>>, FALSE, FALSE)
    BY EmptySeq DEF Pushable, Stack

LEMMA OneOrdinary ==
    ASSUME NEW a \in Ordinary
    PROVE  <<a>> \in Stack /\ Pushable(<<a>>, FALSE, FALSE)
  <1>1. a \in Steps /\ a \notin {"dispatched", "write", "closeFile"}
    BY DEF Ordinary
  <1>2. PICK s \in Stack : s = <<a>> /\ Len(s) = 1 /\ s[1] = a
    BY <1>1, One DEF Stack
  <1>3. \A i \in 1..Len(s) : s[i] = a
    BY <1>2
  <1>4. Pushable(s, FALSE, FALSE)
    BY <1>1, <1>3 DEF Pushable
  <1> QED
    BY <1>2, <1>4

LEMMA TwoOrdinary ==
    ASSUME NEW a \in Ordinary, NEW b \in Ordinary
    PROVE  <<a, b>> \in Stack /\ Pushable(<<a, b>>, FALSE, FALSE)
  <1>1. /\ a \in Steps /\ a \notin {"dispatched", "write", "closeFile"}
        /\ b \in Steps /\ b \notin {"dispatched", "write", "closeFile"}
    BY DEF Ordinary
  <1>2. PICK s \in Stack : s = <<a, b>> /\ Len(s) = 2 /\ s[1] = a /\ s[2] = b
    <2>1. /\ <<a, b>> \in Stack
          /\ Len(<<a, b>>) = 2 /\ <<a, b>>[1] = a /\ <<a, b>>[2] = b
      BY <1>1, Two DEF Stack
    <2> QED
      BY <2>1, Zenon
  <1>3. \A i \in 1..Len(s) : s[i] = a \/ s[i] = b
    BY <1>2
  <1>4. Pushable(s, FALSE, FALSE)
    BY <1>1, <1>3 DEF Pushable
  <1> QED
    BY <1>2, <1>4

\* The steps of Stop.
Stopping == <<"close", "remove", "closeFile", "STOP">>

LEMMA StoppingPushable == Stopping \in Stack /\ Pushable(Stopping, FALSE, FALSE)
  <1>1. "close" \in Steps /\ "remove" \in Steps /\ "closeFile" \in Steps /\ "STOP" \in Steps
    BY DEF Steps
  <1>2. PICK s \in Stack : /\ s = Stopping /\ Len(s) = 4
                           /\ s[1] = "close" /\ s[2] = "remove"
                           /\ s[3] = "closeFile" /\ s[4] = "STOP"
    <2>1. /\ Stopping \in Stack /\ Len(Stopping) = 4
          /\ Stopping[1] = "close" /\ Stopping[2] = "remove"
          /\ Stopping[3] = "closeFile" /\ Stopping[4] = "STOP"
      BY <1>1, Four DEF Stack, Stopping
    <2> QED
      BY <2>1, Zenon
  <1>3. Pushable(s, FALSE, FALSE)
    <2> SUFFICES ASSUME NEW i \in 1..Len(s)
                 PROVE  /\ s[i] # "dispatched" /\ s[i] # "write"
                        /\ s[i] = "closeFile" => i # 1 /\ s[i - 1] = "remove"
      BY DEF Pushable
    <2>0. Len(s) = 4
      BY <1>2, Zenon
    <2>1. i = 1 \/ i = 2 \/ i = 3 \/ i = 4
      BY <2>0
    <2>2. CASE i = 3
      <3>1. i - 1 = 2 /\ i # 1
        BY <2>2
      <3> QED
        BY <1>2, <2>2, <3>1
    <2>3. CASE i # 3
      BY <1>2, <2>1, <2>3
    <2> QED
      BY <2>2, <2>3
  <1> QED
    BY <1>2, <1>3

\* Something to do at the end.
LEMMA OneMoreOrdinary ==
    ASSUME NEW s \in Stack, Pushable(s, FALSE, FALSE), NEW a \in Ordinary
    PROVE  s \o <<a>> \in Stack /\ Pushable(s \o <<a>>, FALSE, FALSE)
  <1>1. a \in Steps /\ a \notin {"dispatched", "write", "closeFile"}
    BY DEF Ordinary
  <1>2. PICK r \in Stack : r = <<a>> /\ Len(r) = 1 /\ r[1] = a
    BY <1>1, One DEF Stack
  <1>3. PICK p \in Stack : p = s \o r
    BY Concat DEF Stack
  <1>4. PICK n \in Nat :
          /\ n = Len(s) /\ Len(p) = n + 1
          /\ \A i \in 1..n : p[i] = s[i]
          /\ p[n + 1] = a
    <2>1. /\ Len(p) = Len(s) + Len(r) /\ Len(s) \in Nat
          /\ \A i \in 1..Len(s) : p[i] = s[i]
          /\ \A i \in 1..Len(r) : p[Len(s) + i] = r[i]
      BY <1>3, Concat DEF Stack
    <2> QED
      BY <1>2, <2>1
  <1>5. Pushable(p, FALSE, FALSE)
    <2> SUFFICES ASSUME NEW i \in 1..Len(p)
                 PROVE  /\ p[i] # "dispatched" /\ p[i] # "write"
                        /\ p[i] = "closeFile" => i # 1 /\ p[i - 1] = "remove"
      BY DEF Pushable
    <2>1. CASE i = n + 1
      BY <1>1, <1>4, <2>1
    <2>2. CASE i # n + 1
      <3>1. i \in 1..n /\ (i # 1 => i - 1 \in 1..n)
        BY <1>4, <2>2
      <3>2. /\ s[i] # "dispatched" /\ s[i] # "write"
            /\ s[i] = "closeFile" => i # 1 /\ s[i - 1] = "remove"
        BY <1>4, <3>1 DEF Pushable
      <3> QED
        BY <1>4, <3>1, <3>2
    <2> QED
      BY <2>1, <2>2
  <1> QED
    BY <1>2, <1>3, <1>5

\* The end of a dispatch, and what a listener has to do before it.
Ends(s, registered) ==
    /\ s \in Stack /\ Len(s) \in Nat \ {0}
    /\ \A k \in 1..Len(s) : s[k] = "dispatched" <=> k = Len(s)
    /\ Pushable(s, TRUE, registered)

LEMMA JustTheEnd ==
    ASSUME NEW registered
    PROVE  Ends(<<"dispatched">>, registered)
  <1>1. "dispatched" \in Steps
    BY DEF Steps
  <1>2. PICK s \in Stack : s = <<"dispatched">> /\ Len(s) = 1 /\ s[1] = "dispatched"
    BY <1>1, One DEF Stack
  <1>3. \A k \in 1..Len(s) : k = 1
    BY <1>2
  <1>4. Len(s) \in Nat \ {0} /\ \A k \in 1..Len(s) : s[k] = "dispatched" <=> k = Len(s)
    BY <1>2, <1>3
  <1>5. Pushable(s, TRUE, registered)
    BY <1>2, <1>3 DEF Pushable
  <1>6. Ends(s, registered)
    BY <1>4, <1>5 DEF Ends
  <1> QED
    BY <1>2, <1>6

LEMMA ThenTheEnd ==
    ASSUME NEW a \in {"stop", "write"}, NEW registered, a = "write" => registered
    PROVE  Ends(<<a>> \o <<"dispatched">>, registered)
  <1>1. a \in Steps /\ "dispatched" \in Steps /\ a # "dispatched" /\ a # "closeFile"
    BY DEF Steps
  <1>2. PICK b \in Stack, r \in Stack :
            /\ b = <<a>> /\ Len(b) = 1 /\ b[1] = a
            /\ r = <<"dispatched">> /\ Len(r) = 1 /\ r[1] = "dispatched"
    BY <1>1, One DEF Stack
  <1>3. PICK s : s = b \o r
    OBVIOUS
  <1>4. /\ s \in Stack /\ Len(s) = Len(b) + Len(r)
        /\ \A i \in 1..Len(b) : s[i] = b[i]
        /\ \A i \in 1..Len(r) : s[Len(b) + i] = r[i]
    BY <1>3, Concat DEF Stack
  <1>5. Len(s) = 2 /\ s[1] = a /\ s[2] = "dispatched"
    BY <1>2, <1>4
  <1>6. \A k \in 1..Len(s) : k = 1 \/ k = 2
    BY <1>5
  <1>7. Pushable(s, TRUE, registered)
    BY <1>1, <1>5, <1>6 DEF Pushable
  <1>8. ASSUME NEW k \in 1..Len(s) PROVE s[k] = "dispatched" <=> k = Len(s)
    <2>1. CASE k = 1
      BY <1>1, <1>5, <2>1
    <2>2. CASE k = 2
      BY <1>5, <2>2
    <2> QED
      BY <1>6, <2>1, <2>2
  <1>9. Len(s) \in Nat \ {0}
    BY <1>5
  <1>10. Ends(s, registered)
    BY <1>4, <1>7, <1>8, <1>9 DEF Ends
  <1> QED
    BY <1>2, <1>3, <1>10

LEMMA Listening ==
    ASSUME NEW steps, steps \in {<<>>, <<"stop">>, <<"write">>}, NEW registered,
           steps = <<"write">> => registered
    PROVE  Ends(steps \o <<"dispatched">>, registered)
  <1>1. CASE steps = <<>>
    <2>1. "dispatched" \in Steps
      BY DEF Steps
    <2>2. <<>> \o <<"dispatched">> = <<"dispatched">>
      BY <2>1, One, ConcatEmptySeq
    <2> QED
      BY <1>1, <2>2, JustTheEnd, Zenon
  <1>2. CASE steps = <<"stop">>
    <2>1. Ends(<<"stop">> \o <<"dispatched">>, registered)
      <3>1. "stop" \in {"stop", "write"} /\ "stop" # "write"
        OBVIOUS
      <3> QED
        BY <3>1, ThenTheEnd
    <2> QED
      BY <1>2, <2>1, Zenon
  <1>3. CASE steps = <<"write">>
    <2>1. Ends(<<"write">> \o <<"dispatched">>, registered)
      BY <1>3, ThenTheEnd
    <2> QED
      BY <1>3, <2>1, Zenon
  <1> QED
    BY <1>1, <1>2, <1>3

-----------------------------------------------------------------------------
(* The steps preserve the invariant.                                       *)

LEMMA DispatchStep ==
    ASSUME FileInv, NEW t \in Threads, NEW h, h \notin {"dispatched", "remove"}, Dispatch(t, h),
           NEW steps, steps \in {<<>>, <<"stop">>, <<"write">>}, Run(t, steps),
           steps = <<"write">> => listening,
           listening' = listening, file' = file
    PROVE  FileInv'
  <1>1. At(t, h) /\ owner \in {Nobody, t}
    BY DEF Dispatch
  <1>2. CASE depth < MaxRecursion
    <2>1. PICK s : s = steps \o <<"dispatched">>
      OBVIOUS
    <2>2. owner' = t /\ depth' = depth + 1 /\ Then(t, s)
      BY <1>2, <2>1 DEF Run
    <2>3. /\ s \in Stack /\ Len(s) \in Nat \ {0}
          /\ \A k \in 1..Len(s) : s[k] = "dispatched" <=> k = Len(s)
          /\ Pushable(s, TRUE, listening)
      BY <2>1, Listening DEF Ends
    <2> QED
      BY <1>1, <2>2, <2>3, RunStep
  <1>3. CASE ~(depth < MaxRecursion)
    <2>1. owner' = owner /\ depth' = depth /\ Then(t, <<>>)
      BY <1>3 DEF Run
    <2>2. file' = "closed" => ~listening'
      BY DEF FileInv
    <2> QED
      BY <1>1, <2>1, <2>2, Nothing, PlainStep
  <1> QED
    BY <1>2, <1>3

\* A step that leaves the dispatcher, the listeners and the file alone.
LEMMA QuietStep ==
    ASSUME FileInv, NEW t \in Threads, NEW h, h \notin {"dispatched", "remove"}, NEW s \in Stack,
           At(t, h), Then(t, s), Pushable(s, FALSE, FALSE),
           owner' = owner, depth' = depth, listening' = listening, file' = file
    PROVE  FileInv'
  <1>1. file' = "closed" => ~listening'
    BY DEF FileInv
  <1> QED
    BY <1>1, PlainStep

LEMMA LockStep ==
    ASSUME FileInv, NEW t \in Threads, NEW h, h \notin {"dispatched", "remove"}, NEW state,
           NEW s \in Stack, Pushable(s, FALSE, FALSE), Lock(t, h, state, s)
    PROVE  FileInv'
  <1>1. PICK p : p = s \o <<"unlock">>
    OBVIOUS
  <1>2. p \in Stack /\ Pushable(p, FALSE, FALSE)
    <2>1. "unlock" \in Ordinary
      BY DEF Ordinary, Steps
    <2> QED
      BY <1>1, <2>1, OneMoreOrdinary
  <1>3. /\ At(t, h) /\ Then(t, p)
        /\ owner' = owner /\ depth' = depth /\ listening' = listening /\ file' = file
    BY <1>1 DEF Lock
  <1> QED
    BY <1>2, <1>3, QuietStep

LEMMA CheckStep ==
    ASSUME FileInv, NEW t \in Threads, NEW h, h \notin {"dispatched", "remove"}, NEW from,
           NEW locked \in Ordinary, Check(t, h, from, locked)
    PROVE  FileInv'
  <1>1. "ERROR" \in Ordinary
    BY DEF Ordinary, Steps
  <1>2. PICK s : s \in {<<"ERROR">>, <<locked>>, <<>>} /\ Then(t, s)
    BY DEF Check
  <1>3. s \in Stack /\ Pushable(s, FALSE, FALSE)
    BY <1>1, <1>2, OneOrdinary, Nothing
  <1>4. /\ At(t, h)
        /\ owner' = owner /\ depth' = depth /\ listening' = listening /\ file' = file
    BY DEF Check, locks
  <1> QED
    BY <1>2, <1>3, <1>4, QuietStep

\* Who is about to write holds the dispatcher, and the listener is registered,
\* so the file is open.
LEMMA WriteStep ==
    ASSUME FileInv, NEW t \in Threads, WritePacket(t)
    PROVE  FileInv' /\ file # "closed"
  <1>1. /\ At(t, "write") /\ (Then(t, <<>>) \/ Then(t, <<"stop">>))
        /\ owner' = owner /\ depth' = depth /\ listening' = listening /\ file' = file
    BY DEF WritePacket, locks
  <1>2. "stop" \in Ordinary
    BY DEF Ordinary, Steps
  <1>3. FileInv'
    BY <1>1, <1>2, Nothing, OneOrdinary, QuietStep
  <1>4. file # "closed"
    <2>1. PICK q \in Stack : q = todo[t] /\ q # <<>> /\ Head(q) = "write"
      BY <1>1 DEF FileInv, At
    <2>2. q[1] = "write" /\ 1 \in 1..Len(q)
      <3>1. Head(q) = q[1] /\ Len(q) \in Nat \ {0}
        <4>1. q \in Seq(Steps) /\ q # <<>>
          BY <2>1 DEF Stack
        <4> QED
          BY <4>1, TopAndRest
      <3> QED
        BY <2>1, <3>1
    <2>3. listening
      BY <2>1, <2>2 DEF FileInv, Sound
    <2> QED
      BY <2>3 DEF FileInv
  <1> QED
    BY <1>3, <1>4

\* The file is closed only with the listeners removed.
LEMMA CloseFileStep ==
    ASSUME FileInv, NEW t \in Threads, CloseFile(t)
    PROVE  FileInv'
  <1>1. /\ At(t, "closeFile") /\ Then(t, <<>>)
        /\ owner' = owner /\ depth' = depth /\ listening' = listening
    BY DEF CloseFile, locks
  <1>2. ~listening
    <2>1. PICK q \in Stack : q = todo[t] /\ q # <<>> /\ Head(q) = "closeFile"
      BY <1>1 DEF FileInv, At
    <2>2. q[1] = "closeFile" /\ 1 \in 1..Len(q)
      <3>1. Head(q) = q[1] /\ Len(q) \in Nat \ {0}
        <4>1. q \in Seq(Steps) /\ q # <<>>
          BY <2>1 DEF Stack
        <4> QED
          BY <4>1, TopAndRest
      <3>2. q[1] = "closeFile"
        BY <2>1, <3>1, Zenon
      <3>3. 1 \in 1..Len(q)
        BY <3>1
      <3> QED
        BY <3>2, <3>3
    <2>3. Sound(q, owner = t, listening)
      BY <2>1 DEF FileInv
    <2> QED
      BY <2>2, <2>3 DEF Sound
  <1> QED
    BY <1>1, <1>2, Nothing, PlainStep

LEMMA RemoveStep ==
    ASSUME FileInv, NEW t \in Threads, RemoveListeners(t)
    PROVE  FileInv'
  <1>1. /\ At(t, "remove") /\ Then(t, <<>>) /\ owner \in {Nobody, t} /\ ~listening'
        /\ owner' = owner /\ depth' = depth
    BY DEF RemoveListeners, locks
  <1> QED
    BY <1>1, Nothing, PlainStep

\* A goroutine with nothing to do gets its next task.
LEMMA TaskStep ==
    ASSUME FileInv, NEW t \in Threads, todo[t] = <<>>, NEW a \in Ordinary,
           todo' = [todo EXCEPT ![t] = <<a>>],
           owner' = owner, depth' = depth, listening' = listening, file' = file
    PROVE  FileInv'
  <1>1. PICK s \in Stack : s = <<a>> /\ Len(s) = 1 /\ s[1] = a
    BY One DEF Stack, Ordinary
  <1>2. /\ todo' \in [Threads -> Stack] /\ todo'[t] = s
        /\ \A u \in Threads : u # t => todo'[u] = todo[u]
    BY <1>1 DEF FileInv
  <1>3. a \notin {"dispatched", "write", "closeFile"}
    BY DEF Ordinary
  <1>4. Nested(s) = {} /\ Nested(todo[t]) = {}
    <2>1. Nested(s) = {}
      <3>1. \A j \in 0..(Len(s) - 1) : Len(s) - j = 1
        BY <1>1
      <3> QED
        BY <1>1, <1>3, <3>1 DEF Nested
    <2>2. Len(<<>>) = 0 /\ 0..(0 - 1) = {}
      BY EmptySeq
    <2> QED
      BY <2>1, <2>2 DEF Nested
  <1>5. NestingOK'
    <2>1. CASE owner = Nobody
      BY <2>1 DEF FileInv, NestingOK
    <2>2. CASE owner # Nobody
      <3>1. owner \in Threads /\ depth = Cardinality(Nested(todo[owner]))
        BY <2>2 DEF FileInv, NestingOK
      <3>2. Nested(todo'[owner]) = Nested(todo[owner])
        BY <1>2, <1>4, <3>1
      <3> QED
        BY <2>2, <3>1, <3>2 DEF NestingOK
    <2> QED
      BY <2>1, <2>2
  <1>6. ASSUME NEW u \in Threads PROVE Sound(todo[u], owner = u, listening)'
    <2>1. CASE u = t
      <3>1. \A i \in 1..Len(s) : s[i] = a
        BY <1>1
      <3>2. Sound(s, owner' = t, listening')
        BY <1>3, <3>1 DEF Sound
      <3> QED
        BY <1>2, <2>1, <3>2
    <2>2. CASE u # t
      BY <1>2, <2>2 DEF FileInv
    <2> QED
      BY <2>1, <2>2
  <1> QED
    BY <1>2, <1>5, <1>6 DEF FileInv

LEMMA FileStep ==
    ASSUME FileInv, NEW t \in Threads, Step(t)
    PROVE  FileInv' /\ (NoWriteAfterClose => NoWriteAfterClose')
  <1>0. /\ {"ERROR", "stop", "startLock", "pauseLock", "resumeLock", "stopLock", "START",
            "source", "PAUSE", "RESUME", "PACKET", "wire", "flvLock", "CLOSE"}
             \subseteq Ordinary
        /\ <<>> \in {<<>>, <<"stop">>, <<"write">>}
        /\ <<"stop">> # <<"write">> /\ <<>> # <<"write">>
    BY DEF Ordinary, Steps
  <1>1. CASE Dispatched(t)
    <2>1. badWrite' = badWrite
      BY <1>1 DEF Dispatched, counts
    <2> QED
      BY <1>1, <2>1, DispatchedStep DEF NoWriteAfterClose
  <1>2. CASE DispatchOwn(t)
    <2>1. /\ listening' = listening /\ file' = file /\ badWrite' = badWrite
          /\ Run(t, IF listening THEN <<"stop">> ELSE <<>>)
      BY <1>2 DEF DispatchOwn, counts
    <2>2. PICK h : h \in {"CLOSE", "ERROR"} /\ Dispatch(t, h)
      BY <1>2 DEF DispatchOwn
    <2>3. PICK steps : steps \in {<<>>, <<"stop">>} /\ Run(t, steps)
      BY <2>1
    <2>4. FileInv'
      BY <1>0, <2>1, <2>2, <2>3, DispatchStep
    <2> QED
      BY <2>1, <2>4 DEF NoWriteAfterClose
  <1>3. CASE DispatchPacket(t)
    <2>1. /\ listening' = listening /\ file' = file /\ badWrite' = badWrite
          /\ Dispatch(t, "PACKET")
          /\ Run(t, IF listening /\ readyState = "recording" THEN <<"write">> ELSE <<>>)
      BY <1>3 DEF DispatchPacket, counts
    <2>2. PICK steps : steps \in {<<>>, <<"write">>} /\ Run(t, steps)
                       /\ (steps = <<"write">> => listening)
      BY <1>0, <2>1
    <2>3. FileInv'
      BY <2>1, <2>2, DispatchStep
    <2> QED
      BY <2>1, <2>3 DEF NoWriteAfterClose
  <1>4. CASE DispatchStart(t)
    <2>1. /\ listening' = listening /\ file' = file /\ badWrite' = badWrite
          /\ Dispatch(t, "START") /\ Run(t, <<>>)
      BY <1>4 DEF DispatchStart
    <2>2. FileInv'
      BY <1>0, <2>1, DispatchStep
    <2> QED
      BY <2>1, <2>2 DEF NoWriteAfterClose
  <1>5. CASE DispatchState(t)
    <2>1. listening' = listening /\ file' = file /\ badWrite' = badWrite /\ Run(t, <<>>)
      BY <1>5 DEF DispatchState
    <2>2. PICK h : h \in {"PAUSE", "RESUME", "STOP"} /\ Dispatch(t, h)
      BY <1>5 DEF DispatchState
    <2>3. FileInv'
      BY <1>0, <2>1, <2>2, DispatchStep
    <2> QED
      BY <2>1, <2>3 DEF NoWriteAfterClose
  <1>6. CASE WritePacket(t)
    <2>1. FileInv' /\ file # "closed"
      BY <1>6, WriteStep
    <2>2. badWrite' = (badWrite \/ file = "closed")
      BY <1>6 DEF WritePacket
    <2> QED
      BY <2>1, <2>2 DEF NoWriteAfterClose
  <1>7. CASE Unlock(t) \/ FlvWire(t)
    <2>1. PICK h : /\ h \in {"unlock", "wire"} /\ At(t, h) /\ Then(t, <<>>)
                   /\ owner' = owner /\ depth' = depth
                   /\ listening' = listening /\ file' = file /\ badWrite' = badWrite
      BY <1>7 DEF Unlock, FlvWire, counts
    <2>2. FileInv'
      BY <2>1, Nothing, QuietStep
    <2> QED
      BY <2>1, <2>2 DEF NoWriteAfterClose
  <1>8. CASE Start(t)
    <2>1. PICK s : /\ s \in {<<"startLock">>, <<"ERROR">>} /\ At(t, "start") /\ Then(t, s)
                   /\ owner' = owner /\ depth' = depth
                   /\ listening' = listening /\ file' = file /\ badWrite' = badWrite
      BY <1>8 DEF Start, locks, counts
    <2>2. s \in Stack /\ Pushable(s, FALSE, FALSE)
      BY <1>0, <2>1, OneOrdinary
    <2>3. FileInv'
      BY <2>1, <2>2, QuietStep
    <2> QED
      BY <2>1, <2>3 DEF NoWriteAfterClose
  <1>9. CASE Pause(t) \/ Resume(t) \/ Stop(t)
    <2>1. FileInv'
      <3>1. CASE Pause(t)
        <4>1. Check(t, "pause", {"recording"}, "pauseLock")
          BY <3>1 DEF Pause
        <4> QED
          BY <1>0, <4>1, CheckStep
      <3>2. CASE Resume(t)
        <4>1. Check(t, "resume", {"paused"}, "resumeLock")
          BY <3>2 DEF Resume
        <4> QED
          BY <1>0, <4>1, CheckStep
      <3>3. CASE Stop(t)
        <4>1. Check(t, "stop", {"recording", "paused"}, "stopLock")
          BY <3>3 DEF Stop
        <4> QED
          BY <1>0, <4>1, CheckStep
      <3> QED
        BY <1>9, <3>1, <3>2, <3>3
    <2>2. badWrite' = badWrite
      BY <1>9 DEF Pause, Resume, Stop, Check, counts
    <2> QED
      BY <2>1, <2>2 DEF NoWriteAfterClose
  <1>10. CASE StartLocked(t) \/ PauseLocked(t) \/ ResumeLocked(t) \/ StopLocked(t)
    <2>1. FileInv'
      <3>1. CASE StartLocked(t)
        <4>1. Lock(t, "startLock", readyState, <<"START", "source">>)
          BY <3>1 DEF StartLocked
        <4>2. /\ <<"START", "source">> \in Stack
              /\ Pushable(<<"START", "source">>, FALSE, FALSE)
          BY <1>0, TwoOrdinary
        <4> QED
          BY <4>1, <4>2, LockStep
      <3>2. CASE PauseLocked(t)
        <4>1. Lock(t, "pauseLock", "paused", <<"PAUSE">>)
          BY <3>2 DEF PauseLocked
        <4>2. <<"PAUSE">> \in Stack /\ Pushable(<<"PAUSE">>, FALSE, FALSE)
          BY <1>0, OneOrdinary
        <4> QED
          BY <4>1, <4>2, LockStep
      <3>3. CASE ResumeLocked(t)
        <4>1. Lock(t, "resumeLock", "recording", <<"RESUME">>)
          BY <3>3 DEF ResumeLocked
        <4>2. <<"RESUME">> \in Stack /\ Pushable(<<"RESUME">>, FALSE, FALSE)
          BY <1>0, OneOrdinary
        <4> QED
          BY <4>1, <4>2, LockStep
      <3>4. CASE StopLocked(t)
        <4>1. Lock(t, "stopLock", "inactive", Stopping)
          BY <3>4 DEF StopLocked, Stopping
        <4> QED
          BY <4>1, StoppingPushable, LockStep
      <3> QED
        BY <1>10, <3>1, <3>2, <3>3, <3>4
    <2>2. badWrite' = badWrite
      BY <1>10 DEF StartLocked, PauseLocked, ResumeLocked, StopLocked, Lock, counts
    <2> QED
      BY <2>1, <2>2 DEF NoWriteAfterClose
  <1>11. CASE RemoveListeners(t)
    <2>1. badWrite' = badWrite
      BY <1>11 DEF RemoveListeners, counts
    <2> QED
      BY <1>11, <2>1, RemoveStep DEF NoWriteAfterClose
  <1>12. CASE CloseFile(t)
    <2>1. badWrite' = badWrite
      BY <1>12 DEF CloseFile, counts
    <2> QED
      BY <1>12, <2>1, CloseFileStep DEF NoWriteAfterClose
  <1>13. CASE FlvSource(t) \/ FlvClose(t) \/ FlvCloseLocked(t)
    <2>1. /\ owner' = owner /\ depth' = depth
          /\ listening' = listening /\ file' = file /\ badWrite' = badWrite
      BY <1>13 DEF FlvSource, FlvClose, FlvCloseLocked, locks, counts
    <2>2. /\ <<"PACKET", "wire">> \in Stack
          /\ Pushable(<<"PACKET", "wire">>, FALSE, FALSE)
          /\ <<"CLOSE", "wire">> \in Stack
          /\ Pushable(<<"CLOSE", "wire">>, FALSE, FALSE)
          /\ <<"flvLock">> \in Stack
          /\ Pushable(<<"flvLock">>, FALSE, FALSE)
      BY <1>0, OneOrdinary, TwoOrdinary
    <2>3. FileInv'
      <3>1. CASE FlvSource(t)
        <4>1. At(t, "source") /\ Then(t, <<"PACKET", "wire">>)
          BY <3>1 DEF FlvSource
        <4> QED
          BY <2>1, <2>2, <4>1, QuietStep
      <3>2. CASE FlvCloseLocked(t)
        <4>1. At(t, "flvLock") /\ Then(t, <<"CLOSE", "wire">>)
          BY <3>2 DEF FlvCloseLocked
        <4> QED
          BY <2>1, <2>2, <4>1, QuietStep
      <3>3. CASE FlvClose(t)
        <4>1. At(t, "close") /\ (Then(t, <<"flvLock">>) \/ Then(t, <<>>))
          BY <3>3 DEF FlvClose
        <4> QED
          BY <2>1, <2>2, <4>1, Nothing, QuietStep
      <3> QED
        BY <1>13, <3>1, <3>2, <3>3
    <2> QED
      BY <2>1, <2>3 DEF NoWriteAfterClose
  <1> QED
    BY <1>1, <1>2, <1>3, <1>4, <1>5, <1>6, <1>7, <1>8, <1>9, <1>10, <1>11, <1>12, <1>13 DEF Step

LEMMA FileInit == Init => FileInv /\ NoWriteAfterClose
  <1> SUFFICES ASSUME Init PROVE FileInv /\ NoWriteAfterClose
    OBVIOUS
  <1>1. todo \in [Threads -> Stack]
    BY Nothing DEF Init
  <1>2. NestingOK
    BY DEF Init, NestingOK
  <1>3. ASSUME NEW t \in Threads PROVE Sound(todo[t], owner = t, listening)
    <2>1. Len(todo[t]) = 0
      BY EmptySeq DEF Init
    <2>2. 1..0 = {}
      OBVIOUS
    <2> QED
      BY <2>1, <2>2 DEF Sound
  <1> QED
    BY <1>1, <1>2, <1>3 DEF Init, FileInv, NoWriteAfterClose

LEMMA FileNext ==
    ASSUME FileInv, [Next]_vars
    PROVE  FileInv' /\ (NoWriteAfterClose => NoWriteAfterClose')
  <1>1. ASSUME NEW t \in Threads, Step(t) PROVE FileInv' /\ (NoWriteAfterClose => NoWriteAfterClose')
    BY <1>1, FileStep
  <1>2. ASSUME NEW t \in Threads, Call(t) PROVE FileInv' /\ (NoWriteAfterClose => NoWriteAfterClose')
    <2>1. PICK a \in {"start", "pause", "resume", "stop"} : todo' = [todo EXCEPT ![t] = <<a>>]
      BY <1>2 DEF Call
    <2>2. a \in Ordinary
      BY DEF Ordinary, Steps
    <2>3. /\ todo[t] = <<>> /\ owner' = owner /\ depth' = depth
          /\ listening' = listening /\ file' = file /\ badWrite' = badWrite
      BY <1>2 DEF Call, locks
    <2> QED
      BY <2>1, <2>2, <2>3, TaskStep DEF NoWriteAfterClose
  <1>3. CASE Deliver
    <2>1. PICK a \in {"PACKET", "close"} : todo' = [todo EXCEPT ![Media] = <<a>>]
      BY <1>3 DEF Deliver
    <2>2. a \in Ordinary /\ Media \in Threads
      BY DEF Ordinary, Steps, Threads
    <2>3. /\ todo[Media] = <<>> /\ owner' = owner /\ depth' = depth
          /\ listening' = listening /\ file' = file /\ badWrite' = badWrite
      BY <1>3 DEF Deliver, locks
    <2> QED
      BY <2>1, <2>2, <2>3, TaskStep DEF NoWriteAfterClose
  <1>4. CASE UNCHANGED vars
    <2>1. /\ todo' = todo /\ owner' = owner /\ depth' = depth
          /\ listening' = listening /\ file' = file /\ badWrite' = badWrite
      BY <1>4 DEF vars, locks, counts
    <2> QED
      BY <2>1 DEF FileInv, NestingOK, NoWriteAfterClose
  <1> QED
    BY <1>1, <1>2, <1>3, <1>4 DEF Next

\* Whatever the users do, nothing is written to the file once Stop has closed
\* it.
THEOREM NothingAfterClose == Spec => []NoWriteAfterClose
  <1>1. FileInv /\ NoWriteAfterClose /\ [Next]_vars => FileInv' /\ NoWriteAfterClose'
    BY FileNext
  <1> QED
    BY <1>1, FileInit, PTL DEF Spec

-----------------------------------------------------------------------------
(* One STOP for each START: the stacks of a single user.                   *)

U == <<"unlock">>
D == <<"dispatched">>
FU == <<"wire">> \o U
SU == <<"source">> \o U
DFU == D \o FU

\* While the recorder is not inactive: what may be on the top, and over what.
Fits(h, r) ==
    \/ h \in {"start", "pause", "resume", "startLock", "pauseLock", "resumeLock",
              "ERROR", "unlock"} /\ r = <<>>
    \/ h \in {"stop", "stopLock"} /\ r \in {<<>>, D}
    \/ h = "START" /\ r = SU
    \/ h = "PACKET" /\ r = FU
    \/ h = "write" /\ r = DFU
    \/ h \in {"source", "wire", "PAUSE", "RESUME"} /\ r = U
    \/ h = "dispatched" /\ r \in {<<>>, U, FU, SU}

Shaped(q) == q # <<>> => Fits(Head(q), Tail(q))
Starting(q) == q # <<>> /\ Head(q) \in {"startLock", "START"}

\* While it is inactive: steps that leave it so and dispatch no STOP; or,
\* under such steps, the STOP of the call that made it inactive.
Quiet == {"pause", "resume", "stop", "ERROR", "CLOSE", "dispatched", "close", "flvLock",
          "wire", "remove", "closeFile", "unlock"}

AllQuiet(q) == \A i \in 1..Len(q) : q[i] \in Quiet

StopsAt(q, k) ==
    /\ k \in 1..Len(q) /\ q[k] = "STOP" /\ Len(q) <= k + 2
    /\ \A i \in 1..Len(q) : i < k => q[i] \in Quiet
    /\ \A i \in 1..Len(q) : i = k + 1 => q[i] = "unlock"
    /\ \A i \in 1..Len(q) : i = k + 2 => q[i] = "dispatched"

Stops(q) == \E k \in Nat : StopsAt(q, k)

UserOK(q) ==
    \/ /\ readyState # "inactive" /\ Shaped(q)
       /\ Starting(q) => starts = stops
       /\ ~Starting(q) => starts = stops + 1
    \/ readyState = "inactive" /\ (q = <<"start">> \/ AllQuiet(q)) /\ starts = stops
    \/ readyState = "inactive" /\ Stops(q) /\ starts = stops + 1

\* As long as the source has not closed, its goroutine only delivers packets.
MediaOK(q) ==
    q # <<>> => \/ Head(q) = "PACKET" /\ Tail(q) = <<>>
                \/ Head(q) = "write" /\ Tail(q) = D
                \/ Head(q) = "dispatched" /\ Tail(q) = <<>>

CalmOK ==
    /\ MediaOK(todo[Media])
    /\ callers = {} => readyState = "inactive" /\ starts = stops
    /\ \A u \in callers : UserOK(todo[u])

SoloInv ==
    /\ starts \in Nat /\ stops \in Nat
    /\ callers \subseteq Users /\ IsFiniteSet(callers)
    /\ \A u \in Users : u \notin callers => todo[u] = <<>>
    /\ Calm => CalmOK

LEMMA QuietAfter ==
    ASSUME NEW S, NEW q \in Seq(S), NEW s \in Seq(S), NEW p \in Seq(S), Len(q) # 0,
           Becomes(q, s, p), AllQuiet(s), \A k \in 1..Len(q) : k # 1 => q[k] \in Quiet
    PROVE  AllQuiet(p)
  <1> SUFFICES ASSUME NEW i \in 1..Len(p) PROVE p[i] \in Quiet
    BY DEF AllQuiet
  <1>1. FromTop(s, p, i) \/ \E k \in Nat : FromBelow(q, s, p, i, k)
    BY Positions
  <1>2. CASE FromTop(s, p, i)
    BY <1>2 DEF FromTop, AllQuiet
  <1>3. ASSUME NEW k \in Nat, FromBelow(q, s, p, i, k) PROVE p[i] \in Quiet
    BY <1>3 DEF FromBelow
  <1> QED
    BY <1>1, <1>2, <1>3

LEMMA StopsAfter ==
    ASSUME NEW S, NEW q \in Seq(S), NEW s \in Seq(S), NEW p \in Seq(S), Len(q) # 0,
           Becomes(q, s, p), AllQuiet(s), Stops(q), q[1] # "STOP"
    PROVE  Stops(p)
  <1>1. PICK n \in Nat, m \in Nat \ {0} :
            /\ n = Len(s) /\ m = Len(q) /\ Len(p) = n + m - 1
            /\ \A j \in 1..n : p[j] = s[j]
            /\ \A j \in 2..m : p[n + j - 1] = q[j]
    BY LenProperties DEF Becomes
  <1>2. PICK k \in Nat : StopsAt(q, k)
    BY DEF Stops
  <1>3. /\ k \in 2..m /\ q[k] = "STOP" /\ m <= k + 2
        /\ \A i \in 1..m : i < k => q[i] \in Quiet
        /\ \A i \in 1..m : i = k + 1 => q[i] = "unlock"
        /\ \A i \in 1..m : i = k + 2 => q[i] = "dispatched"
    <2>1. /\ k \in 1..m /\ q[k] = "STOP" /\ m <= k + 2
          /\ \A i \in 1..m : i < k => q[i] \in Quiet
          /\ \A i \in 1..m : i = k + 1 => q[i] = "unlock"
          /\ \A i \in 1..m : i = k + 2 => q[i] = "dispatched"
      BY <1>1, <1>2 DEF StopsAt
    <2>2. k # 1
      BY <2>1
    <2> QED
      BY <2>1, <2>2
  <1>4. n \in Nat /\ m \in Nat \ {0} /\ k \in 2..m /\ m <= k + 2
    BY <1>1, <1>3
  <1>5. PICK l \in Nat : /\ l = n + k - 1 /\ l \in 1..(n + m - 1) /\ n + m - 1 <= l + 2
                        /\ l > n
    BY <1>4
  <1>8. p[l] = "STOP"
    BY <1>1, <1>3, <1>5
  <1>6. ASSUME NEW i \in 1..(n + m - 1)
        PROVE  /\ i < l => p[i] \in Quiet
               /\ i = l + 1 => p[i] = "unlock"
               /\ i = l + 2 => p[i] = "dispatched"
    <2>1. CASE i <= n
      <3>1. p[i] \in Quiet /\ i # l + 1 /\ i # l + 2
        <4>1. i \in 1..n /\ i < l
          BY <1>4, <1>5, <2>1
        <4> QED
          BY <1>1, <1>5, <4>1 DEF AllQuiet
      <3> QED
        BY <3>1
    <2>2. CASE ~(i <= n)
      <3>0. PICK j \in Nat : j = i - n + 1 /\ j \in 2..m /\ n + j - 1 = i
        BY <1>4, <2>2
      <3>1. /\ i < l => j < k
            /\ i = l + 1 => j = k + 1
            /\ i = l + 2 => j = k + 2
        BY <1>4, <1>5, <3>0
      <3>2. p[i] = q[j] /\ j \in 1..m
        BY <1>1, <3>0
      <3> QED
        BY <1>3, <3>1, <3>2
    <2> QED
      BY <2>1, <2>2
  <1>7. StopsAt(p, l)
    BY <1>1, <1>5, <1>6, <1>8 DEF StopsAt
  <1> QED
    BY <1>7 DEF Stops

\* When STOP is dispatched, nothing but quiet steps is left, and at most one
\* dispatch.
LEMMA StopsOnTop ==
    ASSUME NEW S, NEW q \in Seq(S), Stops(q), q[1] = "STOP"
    PROVE  /\ \A i \in 1..Len(q) : i # 1 => q[i] \in Quiet
           /\ IsFiniteSet(Nested(q)) /\ Cardinality(Nested(q)) <= 1
  <1>1. PICK k \in Nat : StopsAt(q, k)
    BY DEF Stops
  <1>2. PICK m \in Nat : m = Len(q)
    BY LenProperties
  <1>3. k = 1
    <2>1. k \in 1..m /\ \A i \in 1..m : i < k => q[i] \in Quiet
      BY <1>1, <1>2 DEF StopsAt
    <2>2. CASE 1 < k
      <3>1. 1 \in 1..m
        BY <2>1, <2>2
      <3>2. "STOP" \in Quiet
        BY <2>1, <2>2, <3>1
      <3> QED
        BY <3>2 DEF Quiet
    <2> QED
      BY <2>1, <2>2
  <1>4. /\ m <= 3
        /\ \A i \in 1..m : i = 2 => q[i] = "unlock"
        /\ \A i \in 1..m : i = 3 => q[i] = "dispatched"
    <2>1. /\ m <= k + 2
          /\ \A i \in 1..m : i = k + 1 => q[i] = "unlock"
          /\ \A i \in 1..m : i = k + 2 => q[i] = "dispatched"
      BY <1>1, <1>2 DEF StopsAt
    <2>2. k + 1 = 2 /\ k + 2 = 3
      BY <1>3
    <2> QED
      BY <2>1, <2>2
  <1>5. ASSUME NEW i \in 1..m, i # 1 PROVE q[i] \in Quiet
    <2>1. i = 2 \/ i = 3
      BY <1>4, <1>5
    <2>2. q[i] = "unlock" \/ q[i] = "dispatched"
      BY <1>4, <2>1
    <2> QED
      BY <2>2 DEF Quiet
  <1>6. ASSUME NEW j \in Nested(q) PROVE j = 0
    <2>1. j \in 0..(m - 1) /\ q[m - j] = "dispatched"
      BY <1>2 DEF Nested
    <2>2. m - j \in 1..m
      BY <2>1
    <2>3. m - j # 1
      BY <2>1
    <2>4. m - j # 2
      <3>1. m - j = 2 => q[m - j] = "unlock"
        BY <1>4, <2>2
      <3> QED
        BY <2>1, <3>1
    <2> QED
      BY <1>4, <2>1, <2>2, <2>3, <2>4
  <1>7. IsFiniteSet(Nested(q)) /\ Cardinality(Nested(q)) <= 1
    <2>1. IsFiniteSet({0}) /\ Cardinality({0}) = 1 /\ Nested(q) \subseteq {0}
      BY <1>6, FS_Singleton
    <2> QED
      BY <2>1, FS_Subset
  <1> QED
    BY <1>2, <1>5, <1>7

\* Stop makes the recorder inactive and has its STOP before it.
LEMMA StopSteps ==
    \E s \in Stack :
        /\ s = Stopping \o <<"unlock">>
        /\ Len(s) = 5 /\ s[1] = "close" /\ s[2] = "remove"
        /\ s[3] = "closeFile" /\ s[4] = "STOP" /\ s[5] = "unlock"
  <1>1. PICK a \in Stack : /\ a = Stopping /\ Len(a) = 4
                           /\ a[1] = "close" /\ a[2] = "remove"
                           /\ a[3] = "closeFile" /\ a[4] = "STOP"
    <2>1. /\ Stopping \in Stack /\ Len(Stopping) = 4
          /\ Stopping[1] = "close" /\ Stopping[2] = "remove"
          /\ Stopping[3] = "closeFile" /\ Stopping[4] = "STOP"
      <3>1. "close" \in Steps /\ "remove" \in Steps /\ "closeFile" \in Steps /\ "STOP" \in Steps
        BY DEF Steps
      <3> QED
        BY <3>1, Four DEF Stack, Stopping
    <2> QED
      BY <2>1, Zenon
  <1>2. PICK b \in Stack : b = <<"unlock">> /\ Len(b) = 1 /\ b[1] = "unlock"
    <2>1. "unlock" \in Steps
      BY DEF Steps
    <2> QED
      BY <2>1, One DEF Stack
  <1>3. PICK s : s = a \o b
    OBVIOUS
  <1>4. /\ s \in Stack /\ Len(s) = Len(a) + Len(b)
        /\ \A i \in 1..Len(a) : s[i] = a[i]
        /\ \A i \in 1..Len(b) : s[Len(a) + i] = b[i]
    BY <1>3, Concat DEF Stack
  <1>5. Len(a) = 4 /\ Len(b) = 1
    BY <1>1, <1>2, Zenon
  <1>6. /\ 1 \in 1..Len(a) /\ 2 \in 1..Len(a) /\ 3 \in 1..Len(a) /\ 4 \in 1..Len(a)
        /\ 1 \in 1..Len(b) /\ Len(a) + 1 = 5 /\ Len(a) + Len(b) = 5
    BY <1>5
  <1>7. /\ Len(s) = 5 /\ s[1] = a[1] /\ s[2] = a[2] /\ s[3] = a[3] /\ s[4] = a[4]
        /\ s[5] = b[1]
    BY <1>4, <1>6
  <1> QED
    BY <1>1, <1>2, <1>3, <1>4, <1>7, Zenon

LEMMA FiveOrSix ==
    ASSUME NEW m \in 1..2
    PROVE  /\ 5 + m - 1 = 5 \/ (5 + m - 1 = 6 /\ m = 2)
           /\ 4 \in 1..(5 + m - 1) /\ 5 + m - 1 <= 4 + 2
           /\ \A i \in 1..(5 + m - 1) :
                i = 1 \/ i = 2 \/ i = 3 \/ i = 4 \/ i = 5 \/ (i = 6 /\ m = 2)
    OBVIOUS

LEMMA StopBegins ==
    ASSUME NEW S, NEW q \in Seq(S), NEW s \in Seq(S), NEW p \in Seq(S), Becomes(q, s, p),
           NEW m \in 1..2, m = Len(q), m = 2 => q[2] = "dispatched",
           Len(s) = 5, s[1] = "close", s[2] = "remove",
           s[3] = "closeFile", s[4] = "STOP", s[5] = "unlock"
    PROVE  Stops(p)
  <1>1. /\ Len(p) = 5 + m - 1
        /\ \A i \in 1..5 : p[i] = s[i]
        /\ \A i \in 2..m : p[5 + i - 1] = q[i]
    BY DEF Becomes
  <1>2. /\ 4 \in 1..Len(p) /\ Len(p) <= 4 + 2
        /\ \A i \in 1..Len(p) :
             i = 1 \/ i = 2 \/ i = 3 \/ i = 4 \/ i = 5 \/ (i = 6 /\ m = 2)
    BY <1>1, FiveOrSix, Zenon
  <1>3. m = 2 => p[6] = "dispatched"
    <2>1. m = 2 => 2 \in 2..m /\ 5 + 2 - 1 = 6
      OBVIOUS
    <2> QED
      BY <1>1, <2>1
  <1>4. /\ p[1] = "close" /\ p[2] = "remove" /\ p[3] = "closeFile"
        /\ p[4] = "STOP" /\ p[5] = "unlock"
    BY <1>1
  <1>5. StopsAt(p, 4)
    <2>1. 4 \in 1..Len(p) /\ Len(p) <= 4 + 2
      BY <1>2
    <2>2. ASSUME NEW i \in 1..Len(p)
          PROVE  /\ i < 4 => p[i] \in Quiet
                 /\ i = 4 + 1 => p[i] = "unlock"
                 /\ i = 4 + 2 => p[i] = "dispatched"
      <3>1. i = 1 \/ i = 2 \/ i = 3 \/ i = 4 \/ i = 5 \/ (i = 6 /\ m = 2)
        BY <1>2
      <3>2. p[1] \in Quiet /\ p[2] \in Quiet /\ p[3] \in Quiet
        BY <1>4 DEF Quiet
      <3>3. i < 4 => p[i] \in Quiet
        BY <3>1, <3>2
      <3>4. i = 4 + 1 => p[i] = "unlock"
        BY <1>4
      <3>5. i = 4 + 2 => p[i] = "dispatched"
        BY <1>3, <3>1
      <3> QED
        BY <3>3, <3>4, <3>5
    <2> QED
      BY <1>4, <2>1, <2>2 DEF StopsAt
  <1> QED
    BY <1>5 DEF Stops

\* Nothing, or the end of a dispatch, is below the top.
LEMMA OneOrTwo ==
    ASSUME NEW q \in Stack, q # <<>>
    PROVE  Tail(q) = <<>> \/ Tail(q) = D =>
             \E m \in 1..2 : m = Len(q) /\ (m = 2 => q[2] = "dispatched")
  <1>1. /\ Len(q) \in Nat \ {0} /\ Len(Tail(q)) = Len(q) - 1
        /\ \A i \in 1..(Len(q) - 1) : Tail(q)[i] = q[i + 1]
    <2>1. q \in Seq(Steps)
      BY DEF Stack
    <2> QED
      BY <2>1, TopAndRest
  <1>2. CASE Tail(q) = <<>>
    <2>1. Len(Tail(q)) = 0
      BY <1>2, EmptySeq, Zenon
    <2>2. PICK n \in Nat \ {0} : n = Len(q) /\ n - 1 = 0
      BY <1>1, <2>1, Zenon
    <2>3. n = 1
      <3>1. \A i \in Nat : i - 1 = 0 => i = 1
        OBVIOUS
      <3> QED
        BY <2>2, <3>1, Zenon
    <2> QED
      BY <2>2, <2>3
  <1>3. CASE Tail(q) = D
    <2>1. PICK d \in Stack : d = D /\ Len(d) = 1 /\ d[1] = "dispatched"
      <3>1. "dispatched" \in Steps
        BY DEF Steps
      <3> QED
        BY <3>1, One DEF Stack, D
    <2>2. Len(Tail(q)) = 1 /\ Tail(q)[1] = "dispatched"
      BY <1>3, <2>1, Zenon
    <2>3. Len(q) = 2 /\ 1 \in 1..(Len(q) - 1) /\ 1 + 1 = 2
      BY <1>1, <2>2
    <2>4. q[2] = "dispatched"
      BY <1>1, <2>2, <2>3
    <2> QED
      BY <2>3, <2>4
  <1> QED
    BY <1>2, <1>3

-----------------------------------------------------------------------------
(* What a single user pushes.                                              *)

Settled(q) == Shaped(q) /\ ~Starting(q)

Rests == {<<>>, U, D, FU, SU, DFU}

LEMMA Settles ==
    ASSUME NEW a \in Steps, NEW r \in Stack, Fits(a, r), a \notin {"startLock", "START"}
    PROVE  <<a>> \o r \in Stack /\ Settled(<<a>> \o r)
  <1>1. PICK q : q = <<a>> \o r
    OBVIOUS
  <1>2. q \in Stack /\ q # <<>> /\ Head(q) = a /\ Tail(q) = r
    BY <1>1, Push DEF Stack
  <1>3. Settled(q)
    BY <1>2, Zenon DEF Settled, Shaped, Starting
  <1> QED
    BY <1>1, <1>2, <1>3

LEMMA Starts ==
    ASSUME NEW a \in Steps, NEW r \in Stack, Fits(a, r), a \in {"startLock", "START"}
    PROVE  <<a>> \o r \in Stack /\ Shaped(<<a>> \o r) /\ Starting(<<a>> \o r)
  <1>1. PICK q : q = <<a>> \o r
    OBVIOUS
  <1>2. q \in Stack /\ q # <<>> /\ Head(q) = a /\ Tail(q) = r
    BY <1>1, Push DEF Stack
  <1>3. Shaped(q) /\ Starting(q)
    BY <1>2, Zenon DEF Shaped, Starting
  <1> QED
    BY <1>1, <1>2, <1>3

\* One step alone is on top of nothing.
LEMMA Alone ==
    ASSUME NEW a \in Steps
    PROVE  <<a>> \in Stack /\ <<a>> \o <<>> = <<a>> /\ <<>> \in Stack
  <1>1. <<a>> \in Seq(Steps)
    BY One
  <1> QED
    BY <1>1, ConcatEmptySeq, Nothing DEF Stack

LEMMA RestsSettled ==
    /\ U \in Stack /\ D \in Stack /\ FU \in Stack /\ SU \in Stack /\ DFU \in Stack
    /\ \A r \in Rests : Settled(r)
  <1>0. {"unlock", "dispatched", "wire", "source"} \subseteq Steps
    BY DEF Steps
  <1>1. <<>> \in Stack /\ Settled(<<>>)
    BY Nothing DEF Settled, Shaped, Starting
  <1>2. U \in Stack /\ Settled(U)
    <2>1. Fits("unlock", <<>>)
      BY DEF Fits
    <2>2. <<"unlock">> \o <<>> \in Stack /\ Settled(<<"unlock">> \o <<>>)
      BY <1>0, <1>1, <2>1, Settles
    <2>3. <<"unlock">> \o <<>> = <<"unlock">>
      BY <1>0, Alone
    <2> QED
      BY <2>2, <2>3, Zenon DEF U
  <1>3. D \in Stack /\ Settled(D)
    <2>1. Fits("dispatched", <<>>)
      BY DEF Fits
    <2>2. <<"dispatched">> \o <<>> \in Stack /\ Settled(<<"dispatched">> \o <<>>)
      BY <1>0, <1>1, <2>1, Settles
    <2>3. <<"dispatched">> \o <<>> = <<"dispatched">>
      BY <1>0, Alone
    <2> QED
      BY <2>2, <2>3, Zenon DEF D
  <1>4. FU \in Stack /\ Settled(FU)
    <2>1. Fits("wire", U)
      BY DEF Fits
    <2> QED
      BY <1>0, <1>2, <2>1, Settles DEF FU
  <1>5. SU \in Stack /\ Settled(SU)
    <2>1. Fits("source", U)
      BY DEF Fits
    <2> QED
      BY <1>0, <1>2, <2>1, Settles DEF SU
  <1>6. DFU \in Stack /\ Settled(DFU)
    <2>1. Fits("dispatched", FU)
      BY DEF Fits
    <2> QED
      BY <1>0, <1>4, <2>1, Settles DEF DFU, D
  <1> QED
    BY <1>1, <1>2, <1>3, <1>4, <1>5, <1>6, Zenon DEF Rests

LEMMA PopNothing ==
    ASSUME NEW r \in Stack
    PROVE  <<>> \o r = r
    BY ConcatEmptySeq DEF Stack

\* What Run pushes.
LEMMA RunPushes ==
    ASSUME NEW a \in Steps, NEW r \in Stack
    PROVE  /\ (<<>> \o <<"dispatched">>) \o r = D \o r
           /\ (<<a>> \o <<"dispatched">>) \o r = <<a>> \o (D \o r)
           /\ D \o r \in Stack
  <1>1. PICK b \in Stack, c \in Stack : b = <<"dispatched">> /\ c = <<a>>
    <2>1. "dispatched" \in Steps
      BY DEF Steps
    <2> QED
      BY <2>1, One DEF Stack
  <1>2. <<>> \o b = b
    BY PopNothing
  <1>3. (c \o b) \o r = c \o (b \o r)
    BY ConcatAssociative DEF Stack
  <1>4. b \o r \in Stack
    BY ConcatProperties DEF Stack
  <1> QED
    BY <1>1, <1>2, <1>3, <1>4, Zenon DEF D

LEMMA OneQuiet ==
    ASSUME NEW a \in Quiet
    PROVE  <<a>> \in Stack /\ AllQuiet(<<a>>)
  <1>1. a \in Steps
    BY DEF Quiet, Steps
  <1>2. PICK s \in Stack : s = <<a>> /\ Len(s) = 1 /\ s[1] = a
    BY <1>1, One DEF Stack
  <1>3. \A i \in 1..Len(s) : s[i] = a
    BY <1>2
  <1> QED
    BY <1>2, <1>3 DEF AllQuiet

LEMMA BothQuiet ==
    ASSUME NEW s \in Stack, NEW r \in Stack, AllQuiet(s), AllQuiet(r)
    PROVE  s \o r \in Stack /\ AllQuiet(s \o r)
  <1>1. PICK p : p = s \o r
    OBVIOUS
  <1>2. /\ p \in Stack /\ Len(p) = Len(s) + Len(r) /\ Len(s) \in Nat /\ Len(r) \in Nat
        /\ \A i \in 1..Len(s) : p[i] = s[i]
        /\ \A i \in 1..Len(r) : p[Len(s) + i] = r[i]
    BY <1>1, Concat DEF Stack
  <1>3. ASSUME NEW i \in 1..Len(p) PROVE p[i] \in Quiet
    <2>1. CASE i <= Len(s)
      BY <1>2, <2>1 DEF AllQuiet
    <2>2. CASE ~(i <= Len(s))
      <3>1. i - Len(s) \in 1..Len(r) /\ Len(s) + (i - Len(s)) = i
        BY <1>2, <2>2
      <3> QED
        BY <1>2, <3>1 DEF AllQuiet
    <2> QED
      BY <2>1, <2>2
  <1> QED
    BY <1>1, <1>2, <1>3 DEF AllQuiet

LEMMA TwoQuiet ==
    ASSUME NEW a \in Quiet, NEW b \in Quiet
    PROVE  <<a, b>> \in Stack /\ AllQuiet(<<a, b>>)
  <1>1. a \in Steps /\ b \in Steps
    BY DEF Quiet, Steps
  <1>2. PICK s \in Stack : s = <<a, b>> /\ Len(s) = 2 /\ s[1] = a /\ s[2] = b
    <2>1. /\ <<a, b>> \in Stack
          /\ Len(<<a, b>>) = 2 /\ <<a, b>>[1] = a /\ <<a, b>>[2] = b
      BY <1>1, Two DEF Stack
    <2> QED
      BY <2>1, Zenon
  <1>3. \A i \in 1..Len(s) : s[i] = a \/ s[i] = b
    BY <1>2
  <1> QED
    BY <1>2, <1>3 DEF AllQuiet

LEMMA NothingQuiet == <<>> \in Stack /\ AllQuiet(<<>>) /\ ~Stops(<<>>)
  <1>1. Len(<<>>) = 0 /\ 1..0 = {}
    BY EmptySeq
  <1>2. ASSUME NEW k \in Nat PROVE ~StopsAt(<<>>, k)
    BY <1>1 DEF StopsAt
  <1> QED
    BY <1>1, <1>2, Nothing DEF AllQuiet, Stops

\* Every step of a goroutine has its name on the top of the stack.
LEMMA ByHead ==
    ASSUME NEW t \in Threads, Step(t)
    PROVE  /\ todo[t] # <<>>
           /\ \/ Head(todo[t]) = "dispatched" /\ Dispatched(t)
              \/ Head(todo[t]) \in {"CLOSE", "ERROR"} /\ DispatchOwn(t)
              \/ Head(todo[t]) = "PACKET" /\ DispatchPacket(t)
              \/ Head(todo[t]) = "START" /\ DispatchStart(t)
              \/ Head(todo[t]) \in {"PAUSE", "RESUME", "STOP"} /\ DispatchState(t)
              \/ Head(todo[t]) = "write" /\ WritePacket(t)
              \/ Head(todo[t]) = "unlock" /\ Unlock(t)
              \/ Head(todo[t]) = "start" /\ Start(t)
              \/ Head(todo[t]) = "startLock" /\ StartLocked(t)
              \/ Head(todo[t]) = "pause" /\ Pause(t)
              \/ Head(todo[t]) = "pauseLock" /\ PauseLocked(t)
              \/ Head(todo[t]) = "resume" /\ Resume(t)
              \/ Head(todo[t]) = "resumeLock" /\ ResumeLocked(t)
              \/ Head(todo[t]) = "stop" /\ Stop(t)
              \/ Head(todo[t]) = "stopLock" /\ StopLocked(t)
              \/ Head(todo[t]) = "remove" /\ RemoveListeners(t)
              \/ Head(todo[t]) = "closeFile" /\ CloseFile(t)
              \/ Head(todo[t]) = "source" /\ FlvSource(t)
              \/ Head(todo[t]) = "close" /\ FlvClose(t)
              \/ Head(todo[t]) = "flvLock" /\ FlvCloseLocked(t)
              \/ Head(todo[t]) = "wire" /\ FlvWire(t)
  <1>1. Dispatched(t) => todo[t] # <<>> /\ Head(todo[t]) = "dispatched"
    BY DEF Dispatched, At
  <1>2. DispatchOwn(t) => todo[t] # <<>> /\ Head(todo[t]) \in {"CLOSE", "ERROR"}
    BY DEF DispatchOwn, Dispatch, At
  <1>3. DispatchPacket(t) => todo[t] # <<>> /\ Head(todo[t]) = "PACKET"
    BY DEF DispatchPacket, Dispatch, At
  <1>4. DispatchStart(t) => todo[t] # <<>> /\ Head(todo[t]) = "START"
    BY DEF DispatchStart, Dispatch, At
  <1>5. DispatchState(t) => todo[t] # <<>> /\ Head(todo[t]) \in {"PAUSE", "RESUME", "STOP"}
    BY DEF DispatchState, Dispatch, At
  <1>6. WritePacket(t) => todo[t] # <<>> /\ Head(todo[t]) = "write"
    BY DEF WritePacket, At
  <1>7. Unlock(t) => todo[t] # <<>> /\ Head(todo[t]) = "unlock"
    BY DEF Unlock, At
  <1>8. Start(t) => todo[t] # <<>> /\ Head(todo[t]) = "start"
    BY DEF Start, At
  <1>9. /\ StartLocked(t) => todo[t] # <<>> /\ Head(todo[t]) = "startLock"
        /\ PauseLocked(t) => todo[t] # <<>> /\ Head(todo[t]) = "pauseLock"
        /\ ResumeLocked(t) => todo[t] # <<>> /\ Head(todo[t]) = "resumeLock"
        /\ StopLocked(t) => todo[t] # <<>> /\ Head(todo[t]) = "stopLock"
    BY Zenon DEF StartLocked, PauseLocked, ResumeLocked, StopLocked, Lock, At
  <1>10. /\ Pause(t) => todo[t] # <<>> /\ Head(todo[t]) = "pause"
         /\ Resume(t) => todo[t] # <<>> /\ Head(todo[t]) = "resume"
         /\ Stop(t) => todo[t] # <<>> /\ Head(todo[t]) = "stop"
    BY Zenon DEF Pause, Resume, Stop, Check, At
  <1>11. /\ RemoveListeners(t) => todo[t] # <<>> /\ Head(todo[t]) = "remove"
         /\ CloseFile(t) => todo[t] # <<>> /\ Head(todo[t]) = "closeFile"
    BY Zenon DEF RemoveListeners, CloseFile, At
  <1>12. /\ FlvSource(t) => todo[t] # <<>> /\ Head(todo[t]) = "source"
         /\ FlvClose(t) => todo[t] # <<>> /\ Head(todo[t]) = "close"
         /\ FlvCloseLocked(t) => todo[t] # <<>> /\ Head(todo[t]) = "flvLock"
         /\ FlvWire(t) => todo[t] # <<>> /\ Head(todo[t]) = "wire"
    BY Zenon DEF FlvSource, FlvClose, FlvCloseLocked, FlvWire, At
  <1> QED
    BY <1>1, <1>2, <1>3, <1>4, <1>5, <1>6, <1>7, <1>8, <1>9, <1>10, <1>11, <1>12 DEF Step

-----------------------------------------------------------------------------
(* A single user's recorder that is not inactive.                          *)

LEMMA Below ==
    ASSUME NEW h, NEW r, Fits(h, r)
    PROVE  /\ r \in Rests
           /\ h \notin {"CLOSE", "STOP", "remove", "closeFile", "close", "flvLock"}
           /\ h \in {"start", "pause", "resume", "startLock", "pauseLock", "resumeLock",
                     "ERROR", "unlock"} => r = <<>>
           /\ h \in {"stop", "stopLock"} => r = <<>> \/ r = D
           /\ h = "START" => r = SU
           /\ h = "PACKET" => r = FU
           /\ h = "write" => r = DFU
           /\ h \in {"source", "wire", "PAUSE", "RESUME"} => r = U
           /\ h = "dispatched" => r \in {<<>>, U, FU, SU}
  <1>1. r \in Rests
    BY DEF Fits, Rests
  <1>2. h \notin {"CLOSE", "STOP", "remove", "closeFile", "close", "flvLock"}
    BY DEF Fits
  <1>3. h \in {"start", "pause", "resume", "startLock", "pauseLock", "resumeLock",
               "ERROR", "unlock"} => r = <<>>
    BY DEF Fits
  <1>4. h \in {"stop", "stopLock"} => r = <<>> \/ r = D
    BY DEF Fits
  <1>5. /\ h = "START" => r = SU
        /\ h = "PACKET" => r = FU
        /\ h = "write" => r = DFU
    BY DEF Fits
  <1>6. h \in {"source", "wire", "PAUSE", "RESUME"} => r = U
    BY DEF Fits
  <1>7. h = "dispatched" => r \in {<<>>, U, FU, SU}
    BY DEF Fits
  <1> QED
    BY <1>1, <1>2, <1>3, <1>4, <1>5, <1>6, <1>7

\* The steps of a call that goes on as it began: the recorder stays started,
\* and no event is counted.
Carries(t) == readyState' # "inactive" /\ starts' = starts /\ stops' = stops

LEMMA ActiveDispatch ==
    ASSUME NEW t \in Threads, todo \in [Threads -> Stack], todo[t] # <<>>,
           NEW r \in Rests, r = Tail(todo[t]), Fits("dispatched", r),
           NEW steps, steps = <<>> \/ (\E a \in Steps \ {"startLock", "START"} :
                                        steps = <<a>> /\ Fits(a, D \o r)),
           Run(t, steps)
    PROVE  Settled(todo'[t])
  <1>1. \A s : Then(t, s) => todo'[t] = s \o r
    BY DEF Then
  <1>2. r \in Stack /\ Settled(r)
    <2>1. <<>> \in Stack
      BY Nothing
    <2> QED
      BY <2>1, RestsSettled, Zenon DEF Rests
  <1>3. CASE Then(t, <<>>)
    <2>1. todo'[t] = r
      BY <1>1, <1>2, <1>3, PopNothing, Zenon
    <2> QED
      BY <1>2, <2>1, Zenon
  <1>4. CASE Then(t, steps \o <<"dispatched">>)
    <2>1. todo'[t] = (steps \o <<"dispatched">>) \o r
      BY <1>1, <1>4, Zenon
    <2>2. CASE steps = <<>>
      <3>1. todo'[t] = D \o r
        <4>1. "stop" \in Steps
          BY DEF Steps
        <4> QED
          BY <1>2, <2>1, <2>2, <4>1, RunPushes, Zenon
      <3>2. "dispatched" \in Steps /\ "dispatched" \notin {"startLock", "START"}
        BY DEF Steps
      <3>3. Settled(<<"dispatched">> \o r)
        BY <1>2, <3>2, Settles
      <3> QED
        BY <3>1, <3>3, Zenon DEF D
    <2>3. ASSUME NEW a \in Steps \ {"startLock", "START"}, steps = <<a>>, Fits(a, D \o r)
          PROVE  Settled(todo'[t])
      <3>1. todo'[t] = <<a>> \o (D \o r) /\ D \o r \in Stack
        BY <1>2, <2>1, <2>3, RunPushes, Zenon
      <3>2. Settled(<<a>> \o (D \o r))
        BY <2>3, <3>1, Settles
      <3> QED
        BY <3>1, <3>2, Zenon
    <2> QED
      BY <2>2, <2>3, Zenon
  <1> QED
    BY <1>3, <1>4, Zenon DEF Run

LEMMA ActiveStep ==
    ASSUME FileInv, NEW t \in Threads, Step(t), ~troubled',
           starts \in Nat, stops \in Nat, readyState # "inactive", UserOK(todo[t])
    PROVE  UserOK(todo[t])'
  <1>1. todo \in [Threads -> Stack] /\ todo[t] # <<>>
    BY ByHead DEF FileInv
  <1>2. PICK h \in Steps, r \in Stack : h = Head(todo[t]) /\ r = Tail(todo[t])
    <2>1. todo[t] \in Seq(Steps)
      BY <1>1 DEF Stack
    <2> QED
      BY <1>1, <2>1, TopAndRest DEF Stack
  <1>3. /\ Fits(h, r)
        /\ h \in {"startLock", "START"} => starts = stops
        /\ h \notin {"startLock", "START"} => starts = stops + 1
    BY <1>1, <1>2, Zenon DEF UserOK, Shaped, Starting
  <1>4. \A s : Then(t, s) => todo'[t] = s \o r
    BY <1>1, <1>2 DEF Then
  <1>5. ASSUME Then(t, <<>>) PROVE todo'[t] = r
    BY <1>4, <1>5, PopNothing, Zenon
  <1>6. ASSUME readyState' # "inactive", Settled(todo'[t]), starts' = stops' + 1
        PROVE  UserOK(todo[t])'
    BY <1>6, Zenon DEF UserOK, Settled
  <1>7. r \in Rests /\ Settled(r)
    BY <1>3, Below, RestsSettled
  <1>8. ASSUME NEW a \in Steps, a \notin {"startLock", "START"}, Fits(a, r), Then(t, <<a>>)
        PROVE  Settled(todo'[t])
    <2>1. todo'[t] = <<a>> \o r
      BY <1>4, <1>8, Zenon
    <2> QED
      BY <1>8, <2>1, Settles, Zenon
  <1>9. /\ h \notin {"CLOSE", "STOP", "remove", "closeFile", "close", "flvLock"}
        /\ h \in {"start", "pause", "resume", "startLock", "pauseLock", "resumeLock",
                  "ERROR", "unlock"} => r = <<>>
        /\ h \in {"stop", "stopLock"} => r = <<>> \/ r = D
        /\ h = "START" => r = SU
        /\ h = "PACKET" => r = FU
        /\ h = "write" => r = DFU
        /\ h \in {"source", "wire", "PAUSE", "RESUME"} => r = U
        /\ h = "dispatched" => r \in {<<>>, U, FU, SU}
    BY <1>3, Below
  <1>10. CASE h = "dispatched" /\ Dispatched(t)
    <2>1. Then(t, <<>>) /\ readyState' = readyState /\ starts' = starts /\ stops' = stops
      BY <1>10 DEF Dispatched, counts
    <2>2. starts = stops + 1
      BY <1>3, <1>10
    <2> QED
      BY <1>5, <1>6, <1>7, <2>1, <2>2
  <1>11. CASE h = "ERROR" /\ DispatchOwn(t)
    <2>1. /\ Run(t, IF listening THEN <<"stop">> ELSE <<>>)
          /\ readyState' = readyState /\ starts' = starts /\ stops' = stops
      BY <1>11 DEF DispatchOwn, counts
    <2>2. PICK steps : Run(t, steps) /\ (steps = <<>> \/ steps = <<"stop">>)
      BY <2>1
    <2>3. "stop" \in Steps \ {"startLock", "START"} /\ Fits("stop", D \o r)
          /\ Fits("dispatched", r)
      <3>1. r = <<>>
        BY <1>9, <1>11
      <3>2. D \o r = D
        <4>1. "dispatched" \in Steps
          BY DEF Steps
        <4> QED
          BY <3>1, <4>1, Alone DEF D
      <3> QED
        BY <3>1, <3>2 DEF Steps, Fits
    <2>4. Settled(todo'[t])
      BY <1>1, <1>2, <1>7, <2>2, <2>3, ActiveDispatch
    <2>5. starts = stops + 1
      BY <1>3, <1>11
    <2> QED
      BY <1>6, <2>1, <2>4, <2>5
  <1>12. CASE h = "PACKET" /\ DispatchPacket(t)
    <2>1. /\ Run(t, IF listening /\ readyState = "recording" THEN <<"write">> ELSE <<>>)
          /\ readyState' = readyState /\ starts' = starts /\ stops' = stops
      BY <1>12 DEF DispatchPacket, counts
    <2>2. PICK steps : Run(t, steps) /\ (steps = <<>> \/ steps = <<"write">>)
      BY <2>1
    <2>3. "write" \in Steps \ {"startLock", "START"} /\ Fits("write", D \o r)
          /\ Fits("dispatched", r)
      <3>1. r = FU /\ D \o r = DFU
        BY <1>9, <1>12 DEF DFU
      <3> QED
        BY <3>1 DEF Steps, Fits
    <2>4. Settled(todo'[t])
      BY <1>1, <1>2, <1>7, <2>2, <2>3, ActiveDispatch
    <2>5. starts = stops + 1
      BY <1>3, <1>12
    <2> QED
      BY <1>6, <2>1, <2>4, <2>5
  <1>13. CASE h = "START" /\ DispatchStart(t)
    <2>1. Run(t, <<>>) /\ readyState' = readyState /\ starts' = starts + 1 /\ stops' = stops
      BY <1>13 DEF DispatchStart
    <2>2. Fits("dispatched", r)
      BY <1>9, <1>13 DEF Fits
    <2>3. Settled(todo'[t])
      BY <1>1, <1>2, <1>7, <2>1, <2>2, ActiveDispatch
    <2>4. starts = stops
      BY <1>3, <1>13
    <2> QED
      BY <1>6, <2>1, <2>3, <2>4
  <1>14. CASE h \in {"PAUSE", "RESUME"} /\ DispatchState(t)
    <2>1. Run(t, <<>>) /\ readyState' = readyState /\ starts' = starts
      BY <1>14 DEF DispatchState
    <2>2. stops' = stops
      <3>1. PICK event \in {"PAUSE", "RESUME", "STOP"} :
              /\ Head(todo[t]) = event
              /\ stops' = IF event = "STOP" /\ depth < MaxRecursion THEN stops + 1 ELSE stops
        BY <1>14 DEF DispatchState, Dispatch, At
      <3> QED
        BY <1>2, <1>14, <3>1
    <2>3. Fits("dispatched", r)
      BY <1>9, <1>14 DEF Fits
    <2>4. Settled(todo'[t])
      BY <1>1, <1>2, <1>7, <2>1, <2>3, ActiveDispatch
    <2>5. starts = stops + 1
      BY <1>3, <1>14
    <2> QED
      BY <1>6, <2>1, <2>2, <2>4, <2>5
  <1>15. CASE h = "write" /\ WritePacket(t)
    <2>1. Then(t, <<>>) /\ readyState' = readyState /\ starts' = starts /\ stops' = stops
      BY <1>15 DEF WritePacket
    <2>2. starts = stops + 1
      BY <1>3, <1>15
    <2> QED
      BY <1>5, <1>6, <1>7, <2>1, <2>2
  <1>16. CASE h \in {"unlock", "wire"} /\ (Unlock(t) \/ FlvWire(t))
    <2>1. Then(t, <<>>) /\ readyState' = readyState /\ starts' = starts /\ stops' = stops
      BY <1>16 DEF Unlock, FlvWire, counts
    <2>2. starts = stops + 1
      BY <1>3, <1>16
    <2> QED
      BY <1>5, <1>6, <1>7, <2>1, <2>2
  <1>17. CASE h = "start" /\ Start(t)
    <2>1. Then(t, <<"ERROR">>) /\ readyState' = readyState /\ starts' = starts /\ stops' = stops
      BY <1>17 DEF Start, counts
    <2>2. "ERROR" \in Steps /\ Fits("ERROR", r)
      BY <1>9, <1>17 DEF Steps, Fits
    <2>3. starts = stops + 1
      BY <1>3, <1>17
    <2> QED
      BY <1>6, <1>8, <2>1, <2>2, <2>3
  <1>18. CASE h = "startLock" /\ StartLocked(t)
    <2>1. /\ Then(t, <<"START", "source">> \o <<"unlock">>)
          /\ readyState' = readyState /\ starts' = starts /\ stops' = stops
      BY <1>18 DEF StartLocked, Lock, counts
    <2>2. starts = stops /\ r = <<>>
      BY <1>3, <1>9, <1>18
    <2>3. todo'[t] = <<"START">> \o SU
      <3>1. todo'[t] = (<<"START", "source">> \o <<"unlock">>) \o <<>>
        BY <1>4, <2>1, <2>2, Zenon
      <3>2. "START" \in Steps /\ "source" \in Steps /\ "unlock" \in Steps
        BY DEF Steps
      <3>3. <<"START", "source">> \o U = <<"START">> \o SU /\ <<"START", "source">> \in Stack
        <4>1. U \in Seq(Steps)
          BY RestsSettled DEF Stack
        <4> QED
          <5>1. /\ <<"START", "source">> \o U = <<"START">> \o (<<"source">> \o U)
                /\ <<"START", "source">> \in Seq(Steps)
            BY <3>2, <4>1, PushTwo
          <5> QED
            BY <5>1 DEF SU, Stack
      <3>4. <<"START", "source">> \o U \in Stack
        BY <3>3, RestsSettled, ConcatProperties DEF Stack
      <3>5. (<<"START", "source">> \o U) \o <<>> = <<"START", "source">> \o U
        BY <3>4, ConcatEmptySeq DEF Stack
      <3> QED
        BY <3>1, <3>3, <3>5, Zenon DEF U
    <2>4. Shaped(todo'[t]) /\ Starting(todo'[t])
      <3>1. "START" \in Steps /\ Fits("START", SU)
        BY DEF Steps, Fits
      <3> QED
        BY <2>3, <3>1, RestsSettled, Starts
    <2> QED
      BY <2>1, <2>2, <2>4, Zenon DEF UserOK
  <1>19. CASE h \in {"pause", "resume", "stop"} /\ (Pause(t) \/ Resume(t) \/ Stop(t))
    <2>1. /\ readyState' = readyState /\ starts' = starts /\ stops' = stops
      BY <1>19 DEF Pause, Resume, Stop, Check, counts
    <2>2. \/ Then(t, <<>>)
          \/ h = "pause" /\ Then(t, <<"pauseLock">>)
          \/ h = "resume" /\ Then(t, <<"resumeLock">>)
          \/ h = "stop" /\ Then(t, <<"stopLock">>)
      BY <1>2, <1>19 DEF Pause, Resume, Stop, Check, At
    <2>3. /\ h = "pause" => Fits("pauseLock", r)
          /\ h = "resume" => Fits("resumeLock", r)
          /\ h = "stop" => Fits("stopLock", r)
      BY <1>9 DEF Fits
    <2>4. "pauseLock" \in Steps /\ "resumeLock" \in Steps /\ "stopLock" \in Steps
      BY DEF Steps
    <2>5. Settled(todo'[t])
      <3>1. CASE Then(t, <<>>)
        BY <1>5, <1>7, <3>1
      <3>2. CASE h = "pause" /\ Then(t, <<"pauseLock">>)
        BY <1>8, <2>3, <2>4, <3>2
      <3>3. CASE h = "resume" /\ Then(t, <<"resumeLock">>)
        BY <1>8, <2>3, <2>4, <3>3
      <3>4. CASE h = "stop" /\ Then(t, <<"stopLock">>)
        BY <1>8, <2>3, <2>4, <3>4
      <3> QED
        BY <2>2, <3>1, <3>2, <3>3, <3>4
    <2>6. starts = stops + 1
      BY <1>3, <1>19
    <2> QED
      BY <1>6, <2>1, <2>5, <2>6
  <1>20. CASE h \in {"pauseLock", "resumeLock"} /\ (PauseLocked(t) \/ ResumeLocked(t))
    <2>1. PICK a \in {"PAUSE", "RESUME"} : Then(t, <<a>> \o <<"unlock">>)
      BY <1>20 DEF PauseLocked, ResumeLocked, Lock
    <2>2. readyState' # "inactive" /\ starts' = starts /\ stops' = stops
      BY <1>20 DEF PauseLocked, ResumeLocked, Lock, counts
    <2>3. starts = stops + 1 /\ r = <<>>
      BY <1>3, <1>9, <1>20
    <2>4. a \in Steps /\ a \notin {"startLock", "START"} /\ Fits(a, U)
      BY DEF Steps, Fits
    <2>5. <<a>> \o U \in Stack /\ Settled(<<a>> \o U)
      BY <2>4, RestsSettled, Settles
    <2>6. todo'[t] = <<a>> \o U
      <3>1. todo'[t] = (<<a>> \o U) \o <<>>
        BY <1>4, <2>1, <2>3, Zenon DEF U
      <3> QED
        BY <2>5, <3>1, ConcatEmptySeq DEF Stack
    <2> QED
      BY <1>6, <2>2, <2>3, <2>5, <2>6
  <1>21. CASE h = "stopLock" /\ StopLocked(t)
    <2>1. /\ Then(t, Stopping \o <<"unlock">>) /\ readyState' = "inactive"
          /\ starts' = starts /\ stops' = stops
      BY <1>21 DEF StopLocked, Lock, counts, Stopping
    <2>2. starts = stops + 1 /\ (r = <<>> \/ r = D)
      BY <1>3, <1>9, <1>21
    <2>3. PICK s \in Stack :
              /\ s = Stopping \o <<"unlock">>
              /\ Len(s) = 5 /\ s[1] = "close" /\ s[2] = "remove"
              /\ s[3] = "closeFile" /\ s[4] = "STOP" /\ s[5] = "unlock"
      BY StopSteps
    <2>4. Then(t, s)
      BY <2>1, <2>3, Zenon
    <2>5. /\ todo'[t] \in Stack /\ todo[t] \in Stack /\ Becomes(todo[t], s, todo'[t])
      <3>1. /\ todo' \in [Threads -> Stack] /\ todo[t] \in Stack
            /\ Becomes(todo[t], s, todo'[t])
        <4>1. At(t, "stopLock")
          BY <1>1, <1>2, <1>21 DEF At
        <4> QED
          BY <1>1, <2>4, <4>1, StepBecomes
      <3> QED
        BY <3>1
    <2>6. PICK q \in Stack, p \in Stack : q = todo[t] /\ p = todo'[t]
      BY <2>5, Zenon
    <2>7. PICK m \in 1..2 : m = Len(q) /\ (m = 2 => q[2] = "dispatched")
      <3>1. q # <<>> /\ (Tail(q) = <<>> \/ Tail(q) = D)
        BY <1>1, <1>2, <2>2, <2>6, Zenon
      <3> QED
        BY <3>1, OneOrTwo
    <2>8. Stops(p)
      <3>1. /\ q \in Seq(Steps) /\ s \in Seq(Steps) /\ p \in Seq(Steps)
            /\ Becomes(q, s, p)
        BY <2>5, <2>6, Zenon DEF Stack
      <3> QED
        BY <2>3, <2>7, <3>1, StopBegins, Zenon
    <2> QED
      BY <2>1, <2>2, <2>6, <2>8, Zenon DEF UserOK
  <1>22. CASE h = "source" /\ FlvSource(t)
    <2>1. /\ Then(t, <<"PACKET", "wire">>)
          /\ readyState' = readyState /\ starts' = starts /\ stops' = stops
      BY <1>22 DEF FlvSource, counts
    <2>2. starts = stops + 1 /\ r = U
      BY <1>3, <1>9, <1>22
    <2>3. todo'[t] = <<"PACKET">> \o FU
      <3>1. "PACKET" \in Steps /\ "wire" \in Steps
        BY DEF Steps
      <3>2. <<"PACKET", "wire">> \o U = <<"PACKET">> \o FU
        <4>1. U \in Seq(Steps)
          BY RestsSettled DEF Stack
        <4> QED
          <5>1. <<"PACKET", "wire">> \o U = <<"PACKET">> \o (<<"wire">> \o U)
            BY <3>1, <4>1, PushTwo
          <5> QED
            BY <5>1 DEF FU
      <3> QED
        BY <1>4, <2>1, <2>2, <3>2, Zenon
    <2>4. "PACKET" \in Steps /\ "PACKET" \notin {"startLock", "START"} /\ Fits("PACKET", FU)
      BY DEF Steps, Fits
    <2>5. Settled(todo'[t])
      BY <2>3, <2>4, RestsSettled, Settles
    <2> QED
      BY <1>6, <2>1, <2>2, <2>5
  <1> QED
    BY <1>2, <1>9, <1>10, <1>11, <1>12, <1>13, <1>14, <1>15, <1>16, <1>17, <1>18, <1>19,
       <1>20, <1>21, <1>22, ByHead

-----------------------------------------------------------------------------
(* A single user's recorder that is inactive.                              *)

\* A quiet step leaves it inactive, dispatches neither START nor STOP, and
\* pushes quiet steps.
LEMMA QuietPushes ==
    ASSUME NEW t \in Threads, Step(t), readyState = "inactive", Head(todo[t]) \in Quiet
    PROVE  /\ readyState' = "inactive" /\ starts' = starts /\ stops' = stops
           /\ \E s \in Stack : Then(t, s) /\ AllQuiet(s)
  <1>0. /\ {"pause", "resume", "stop", "ERROR", "CLOSE", "dispatched", "close", "flvLock",
            "wire", "remove", "closeFile", "unlock"} \subseteq Quiet
    BY DEF Quiet
  <1>1. CASE \/ Dispatched(t) \/ Unlock(t) \/ RemoveListeners(t) \/ CloseFile(t) \/ FlvWire(t)
    <2>1. Then(t, <<>>) /\ readyState' = readyState /\ starts' = starts /\ stops' = stops
      BY <1>1 DEF Dispatched, Unlock, RemoveListeners, CloseFile, FlvWire, counts
    <2> QED
      BY <2>1, NothingQuiet
  <1>2. CASE DispatchOwn(t)
    <2>1. /\ Run(t, IF listening THEN <<"stop">> ELSE <<>>)
          /\ readyState' = readyState /\ starts' = starts /\ stops' = stops
      BY <1>2 DEF DispatchOwn, counts
    <2>2. \/ Then(t, <<>>) \/ Then(t, <<>> \o <<"dispatched">>)
          \/ Then(t, <<"stop">> \o <<"dispatched">>)
      BY <2>1 DEF Run
    <2>3. /\ <<"dispatched">> \in Stack /\ AllQuiet(<<"dispatched">>)
          /\ <<"stop">> \in Stack /\ AllQuiet(<<"stop">>)
      BY <1>0, OneQuiet
    <2>4. <<>> \o <<"dispatched">> \in Stack /\ AllQuiet(<<>> \o <<"dispatched">>)
      BY <2>3, NothingQuiet, BothQuiet
    <2>5. <<"stop">> \o <<"dispatched">> \in Stack /\ AllQuiet(<<"stop">> \o <<"dispatched">>)
      BY <2>3, BothQuiet
    <2>6. \E s \in Stack : Then(t, s) /\ AllQuiet(s)
      BY <2>2, <2>4, <2>5, NothingQuiet, Zenon
    <2> QED
      BY <2>1, <2>6
  <1>3. CASE Pause(t) \/ Resume(t) \/ Stop(t)
    <2>1. Then(t, <<"ERROR">>) /\ readyState' = readyState /\ starts' = starts /\ stops' = stops
      BY <1>3 DEF Pause, Resume, Stop, Check, counts
    <2>2. <<"ERROR">> \in Stack /\ AllQuiet(<<"ERROR">>)
      BY <1>0, OneQuiet
    <2> QED
      BY <2>1, <2>2
  <1>4. CASE FlvClose(t)
    <2>1. /\ Then(t, <<"flvLock">>) \/ Then(t, <<>>)
          /\ readyState' = readyState /\ starts' = starts /\ stops' = stops
      BY <1>4 DEF FlvClose, counts
    <2>2. <<"flvLock">> \in Stack /\ AllQuiet(<<"flvLock">>)
      BY <1>0, OneQuiet
    <2> QED
      BY <2>1, <2>2, NothingQuiet, Zenon
  <1>5. CASE FlvCloseLocked(t)
    <2>1. /\ Then(t, <<"CLOSE", "wire">>)
          /\ readyState' = readyState /\ starts' = starts /\ stops' = stops
      BY <1>5 DEF FlvCloseLocked, counts
    <2>2. <<"CLOSE", "wire">> \in Stack /\ AllQuiet(<<"CLOSE", "wire">>)
      BY <1>0, TwoQuiet
    <2> QED
      BY <2>1, <2>2
  <1>6. Head(todo[t]) \notin {"PACKET", "START", "PAUSE", "RESUME", "STOP", "write", "start",
                              "startLock", "pauseLock", "resumeLock", "stopLock", "source"}
    BY DEF Quiet
  <1> QED
    BY <1>1, <1>2, <1>3, <1>4, <1>5, <1>6, ByHead

LEMMA InactiveStep ==
    ASSUME FileInv, NEW t \in Threads, Step(t),
           starts \in Nat, stops \in Nat, readyState = "inactive", UserOK(todo[t])
    PROVE  UserOK(todo[t])'
  <1>1. todo \in [Threads -> Stack] /\ todo[t] # <<>>
    BY ByHead DEF FileInv
  <1>2. /\ \/ (todo[t] = <<"start">> \/ AllQuiet(todo[t])) /\ starts = stops
           \/ Stops(todo[t]) /\ starts = stops + 1
    BY DEF UserOK
  <1>3. PICK q \in Stack : q = todo[t]
    BY <1>1
  <1>4. q \in Seq(Steps) /\ Len(q) \in Nat \ {0} /\ Head(q) = q[1]
    <2>1. q \in Seq(Steps) /\ q # <<>>
      BY <1>1, <1>3 DEF Stack
    <2> QED
      BY <2>1, TopAndRest
  <1>5. ASSUME NEW s \in Stack, Then(t, s), NEW p, p = todo'[t]
        PROVE  /\ p \in Seq(Steps) /\ s \in Seq(Steps) /\ Len(q) # 0 /\ Becomes(q, s, p)
    <2>1. At(t, Head(todo[t]))
      BY <1>1 DEF At
    <2>2. todo' \in [Threads -> Stack] /\ Becomes(todo[t], s, todo'[t])
      BY <1>1, <1>5, <2>1, StepBecomes
    <2>3. p \in Stack /\ Becomes(q, s, p)
      BY <1>3, <1>5, <2>2
    <2> QED
      BY <1>4, <2>3 DEF Stack
  <1>6. CASE todo[t] = <<"start">> /\ starts = stops
    <2>1. Head(todo[t]) = "start" /\ Tail(todo[t]) = <<>>
      <3>1. "start" \in Steps
        BY DEF Steps
      <3>2. /\ <<>> \in Stack /\ <<"start">> \o <<>> = <<"start">>
        BY <3>1, Alone
      <3>3. Head(<<"start">> \o <<>>) = "start" /\ Tail(<<"start">> \o <<>>) = <<>>
        BY <3>1, <3>2, Push DEF Stack
      <3> QED
        BY <1>6, <3>2, <3>3, Zenon
    <2>2. Start(t)
      BY <2>1, ByHead
    <2>3. /\ Then(t, <<"startLock">>) /\ readyState' = "recording"
          /\ starts' = starts /\ stops' = stops
      BY <2>2 DEF Start, counts
    <2>4. todo'[t] = <<"startLock">> \o <<>>
      BY <1>1, <2>1, <2>3 DEF Then
    <2>5. "startLock" \in Steps /\ Fits("startLock", <<>>)
      BY DEF Steps, Fits
    <2>6. Shaped(todo'[t]) /\ Starting(todo'[t])
      BY <2>4, <2>5, Nothing, Starts
    <2> QED
      BY <1>6, <2>3, <2>6 DEF UserOK
  <1>7. CASE AllQuiet(todo[t]) /\ starts = stops
    <2>1. AllQuiet(q)
      BY <1>3, <1>7, Zenon
    <2>2. q[1] \in Quiet /\ \A k \in 1..Len(q) : k # 1 => q[k] \in Quiet
      BY <1>4, <2>1 DEF AllQuiet
    <2>3. Head(todo[t]) \in Quiet
      BY <1>3, <1>4, <2>2, Zenon
    <2>4. readyState' = "inactive" /\ starts' = starts /\ stops' = stops
      BY <2>3, QuietPushes
    <2>5. PICK s \in Stack : Then(t, s) /\ AllQuiet(s)
      BY <2>3, QuietPushes
    <2>6. PICK p : p = todo'[t]
      OBVIOUS
    <2>7. p \in Seq(Steps) /\ s \in Seq(Steps) /\ Len(q) # 0 /\ Becomes(q, s, p)
      BY <1>5, <2>5, <2>6
    <2>8. AllQuiet(p)
      BY <1>4, <2>2, <2>5, <2>7, QuietAfter
    <2> QED
      BY <1>7, <2>4, <2>6, <2>8 DEF UserOK
  <1>8. CASE Stops(todo[t]) /\ starts = stops + 1
    <2>1. Stops(q)
      BY <1>3, <1>8, Zenon
    <2>2. CASE q[1] = "STOP"
      <3>1. /\ \A k \in 1..Len(q) : k # 1 => q[k] \in Quiet
            /\ Cardinality(Nested(q)) <= 1
        BY <1>4, <2>1, <2>2, StopsOnTop
      <3>2. Head(todo[t]) = "STOP"
        BY <1>3, <1>4, <2>2, Zenon
      <3>3. DispatchState(t)
        BY <3>2, ByHead
      <3>4. depth < MaxRecursion
        <4>1. owner \in {Nobody, t}
          BY <3>3 DEF DispatchState, Dispatch
        <4>2. depth \in Nat /\ (owner = Nobody => depth = 0)
              /\ (owner # Nobody => depth = Cardinality(Nested(todo[owner])))
          BY DEF FileInv, NestingOK
        <4>3. MaxRecursion \in Nat \ {0, 1}
          BY RecorderAssumption DEF RecorderAssumption
        <4>4. CASE owner = Nobody
          BY <4>2, <4>3, <4>4
        <4>5. CASE owner # Nobody
          <5>1. depth = Cardinality(Nested(q))
            BY <1>3, <4>1, <4>2, <4>5
          <5> QED
            BY <3>1, <4>2, <4>3, <5>1
        <4> QED
          BY <4>4, <4>5
      <3>5. readyState' = "inactive" /\ starts' = starts /\ stops' = stops + 1
        <4>1. PICK event \in {"PAUSE", "RESUME", "STOP"} :
                /\ Head(todo[t]) = event
                /\ stops' = IF event = "STOP" /\ depth < MaxRecursion THEN stops + 1 ELSE stops
          BY <3>3 DEF DispatchState, Dispatch, At
        <4>2. stops' = stops + 1
          BY <3>2, <3>4, <4>1
        <4>3. readyState' = readyState /\ starts' = starts
          BY <3>3 DEF DispatchState
        <4> QED
          BY <4>2, <4>3
      <3>6. PICK s \in Stack : Then(t, s) /\ AllQuiet(s)
        <4>1. Then(t, <<>> \o <<"dispatched">>)
          BY <3>3, <3>4 DEF DispatchState, Run
        <4>2. <<"dispatched">> \in Stack /\ AllQuiet(<<"dispatched">>)
          <5>1. "dispatched" \in Quiet
            BY DEF Quiet
          <5> QED
            BY <5>1, OneQuiet
        <4>3. /\ <<>> \o <<"dispatched">> \in Stack
              /\ AllQuiet(<<>> \o <<"dispatched">>)
          BY <4>2, NothingQuiet, BothQuiet
        <4> QED
          BY <4>1, <4>3, Zenon
      <3>7. PICK p : p = todo'[t]
        OBVIOUS
      <3>8. p \in Seq(Steps) /\ s \in Seq(Steps) /\ Len(q) # 0 /\ Becomes(q, s, p)
        BY <1>5, <3>6, <3>7
      <3>9. AllQuiet(p)
        BY <1>4, <3>1, <3>6, <3>8, QuietAfter
      <3>10. starts' = stops'
        BY <1>8, <3>5
      <3> QED
        BY <3>5, <3>7, <3>9, <3>10, Zenon DEF UserOK
    <2>3. CASE q[1] # "STOP"
      <3>1. Head(todo[t]) \in Quiet
        <4>1. PICK k \in Nat : StopsAt(q, k)
          BY <2>1 DEF Stops
        <4>2. k # 1 /\ k \in 1..Len(q) /\ \A i \in 1..Len(q) : i < k => q[i] \in Quiet
          BY <2>3, <4>1 DEF StopsAt
        <4>3. 1 \in 1..Len(q) /\ 1 < k
          BY <1>4, <4>2
        <4>4. q[1] \in Quiet
          BY <4>2, <4>3
        <4> QED
          BY <1>3, <1>4, <4>4, Zenon
      <3>2. readyState' = "inactive" /\ starts' = starts /\ stops' = stops
        BY <3>1, QuietPushes
      <3>3. PICK s \in Stack : Then(t, s) /\ AllQuiet(s)
        BY <3>1, QuietPushes
      <3>4. PICK p : p = todo'[t]
        OBVIOUS
      <3>5. p \in Seq(Steps) /\ s \in Seq(Steps) /\ Len(q) # 0 /\ Becomes(q, s, p)
        BY <1>5, <3>3, <3>4
      <3>6. Stops(p)
        BY <1>4, <2>1, <2>3, <3>3, <3>5, StopsAfter
      <3>7. starts' = stops' + 1
        BY <1>8, <3>2
      <3> QED
        BY <3>2, <3>4, <3>6, <3>7, Zenon DEF UserOK
    <2> QED
      BY <2>2, <2>3
  <1> QED
    BY <1>2, <1>6, <1>7, <1>8

-----------------------------------------------------------------------------
(* The source, and the invariant as a whole.                               *)

\* As long as nothing fails, delivering a packet leaves the recorder as it is.
LEMMA MediaStep ==
    ASSUME FileInv, Step(Media), ~troubled', MediaOK(todo[Media])
    PROVE  /\ MediaOK(todo'[Media])
           /\ readyState' = readyState /\ starts' = starts /\ stops' = stops
           /\ callers' = callers
  <1>1. todo \in [Threads -> Stack] /\ todo[Media] # <<>> /\ Media \in Threads
    BY ByHead DEF FileInv, Threads
  <1>2. PICK h, r : h = Head(todo[Media]) /\ r = Tail(todo[Media])
    OBVIOUS
  <1>3. \/ h = "PACKET" /\ r = <<>>
        \/ h = "write" /\ r = D
        \/ h = "dispatched" /\ r = <<>>
    BY <1>1, <1>2, Zenon DEF MediaOK
  <1>4. \A s : Then(Media, s) => todo'[Media] = s \o r
    BY <1>1, <1>2 DEF Then
  <1>5. MediaOK(<<>>)
    BY DEF MediaOK
  <1>6. MediaOK(D)
    <2>1. "dispatched" \in Steps
      BY DEF Steps
    <2>2. <<>> \in Stack /\ <<"dispatched">> \o <<>> = <<"dispatched">>
      BY <2>1, Alone
    <2>3. Head(<<"dispatched">> \o <<>>) = "dispatched" /\ Tail(<<"dispatched">> \o <<>>) = <<>>
      BY <2>1, <2>2, Push DEF Stack
    <2> QED
      BY <2>2, <2>3, Zenon DEF MediaOK, D
  <1>7. MediaOK(<<"write">> \o D)
    <2>1. "write" \in Steps /\ D \in Stack
      BY RestsSettled DEF Steps
    <2>2. Head(<<"write">> \o D) = "write" /\ Tail(<<"write">> \o D) = D
      BY <2>1, Push DEF Stack
    <2> QED
      BY <2>2, Zenon DEF MediaOK
  <1>8. CASE h = "PACKET" /\ DispatchPacket(Media)
    <2>1. /\ Run(Media, IF listening /\ readyState = "recording" THEN <<"write">> ELSE <<>>)
          /\ readyState' = readyState /\ starts' = starts /\ stops' = stops
          /\ callers' = callers
      BY <1>8 DEF DispatchPacket, counts
    <2>2. \/ Then(Media, <<>>) \/ Then(Media, <<>> \o <<"dispatched">>)
          \/ Then(Media, <<"write">> \o <<"dispatched">>)
      BY <2>1 DEF Run
    <2>3. r = <<>> /\ <<>> \in Stack
      BY <1>3, <1>8, Nothing
    <2>4. CASE Then(Media, <<>>)
      BY <1>4, <1>5, <2>1, <2>3, <2>4, PopNothing, Zenon
    <2>5. "write" \in Steps /\ "dispatched" \in Steps /\ D \o <<>> = D
      <3>1. "write" \in Steps /\ "dispatched" \in Steps
        BY DEF Steps
      <3> QED
        BY <3>1, Alone DEF D
    <2>6. CASE Then(Media, <<>> \o <<"dispatched">>)
      <3>1. todo'[Media] = (<<>> \o <<"dispatched">>) \o <<>>
        BY <1>4, <2>3, <2>6, Zenon
      <3>2. todo'[Media] = D
        BY <2>3, <2>5, <3>1, RunPushes, Zenon
      <3> QED
        BY <1>6, <2>1, <3>2, Zenon
    <2>7. CASE Then(Media, <<"write">> \o <<"dispatched">>)
      <3>1. todo'[Media] = (<<"write">> \o <<"dispatched">>) \o <<>>
        BY <1>4, <2>3, <2>7, Zenon
      <3>2. todo'[Media] = <<"write">> \o D
        BY <2>3, <2>5, <3>1, RunPushes, Zenon
      <3> QED
        BY <1>7, <2>1, <3>2, Zenon
    <2> QED
      BY <2>2, <2>4, <2>6, <2>7
  <1>9. CASE h = "write" /\ WritePacket(Media)
    <2>1. /\ Then(Media, <<>>)
          /\ readyState' = readyState /\ starts' = starts /\ stops' = stops
          /\ callers' = callers
      BY <1>9 DEF WritePacket
    <2>2. r = D /\ D \in Stack
      BY <1>3, <1>9, RestsSettled
    <2> QED
      BY <1>4, <1>6, <2>1, <2>2, PopNothing, Zenon
  <1>10. CASE h = "dispatched" /\ Dispatched(Media)
    <2>1. /\ Then(Media, <<>>)
          /\ readyState' = readyState /\ starts' = starts /\ stops' = stops
          /\ callers' = callers
      BY <1>10 DEF Dispatched, counts
    <2>2. r = <<>> /\ <<>> \in Stack
      BY <1>3, <1>10, Nothing
    <2> QED
      BY <1>4, <1>5, <2>1, <2>2, PopNothing, Zenon
  <1> QED
    BY <1>1, <1>2, <1>3, <1>8, <1>9, <1>10, ByHead

\* What a step does to the counts, and to the other goroutines.
LEMMA StepFrame ==
    ASSUME FileInv, NEW t \in Threads, Step(t), starts \in Nat, stops \in Nat
    PROVE  /\ callers' = callers /\ starts' \in Nat /\ stops' \in Nat
           /\ troubled => troubled'
           /\ \A u \in Threads : u # t => todo'[u] = todo[u]
  <1>1. callers' = callers
    BY ByHead DEF Dispatched, DispatchOwn, DispatchPacket, DispatchStart, DispatchState,
       WritePacket, Unlock, Start, StartLocked, Pause, PauseLocked, Resume, ResumeLocked,
       Stop, StopLocked, RemoveListeners, CloseFile, FlvSource, FlvClose, FlvCloseLocked,
       FlvWire, Lock, Check, counts
  <1>2. /\ starts' = starts \/ starts' = starts + 1
        /\ stops' = stops \/ stops' = stops + 1
    BY ByHead DEF Dispatched, DispatchOwn, DispatchPacket, DispatchStart, DispatchState,
       WritePacket, Unlock, Start, StartLocked, Pause, PauseLocked, Resume, ResumeLocked,
       Stop, StopLocked, RemoveListeners, CloseFile, FlvSource, FlvClose, FlvCloseLocked,
       FlvWire, Lock, Check, counts
  <1>3. troubled => troubled'
    BY ByHead DEF Dispatched, DispatchOwn, DispatchPacket, DispatchStart, DispatchState,
       WritePacket, Unlock, Start, StartLocked, Pause, PauseLocked, Resume, ResumeLocked,
       Stop, StopLocked, RemoveListeners, CloseFile, FlvSource, FlvClose, FlvCloseLocked,
       FlvWire, Lock, Check, counts
  <1>4. \A u \in Threads : u # t => todo'[u] = todo[u]
    <2>1. \E s : Then(t, s)
      BY ByHead, Zenon DEF Dispatched, DispatchOwn, DispatchPacket, DispatchStart, DispatchState,
         WritePacket, Unlock, Start, StartLocked, Pause, PauseLocked, Resume, ResumeLocked,
         Stop, StopLocked, RemoveListeners, CloseFile, FlvSource, FlvClose, FlvCloseLocked,
         FlvWire, Lock, Check, Run
    <2> QED
      BY <2>1 DEF Then, FileInv
  <1> QED
    BY <1>1, <1>2, <1>3, <1>4

\* One user at most has called.
LEMMA OnlyCaller ==
    ASSUME NEW C, IsFiniteSet(C), Cardinality(C) <= 1, NEW u \in C
    PROVE  C = {u}
  <1> SUFFICES ASSUME NEW v \in C, v # u PROVE FALSE
    OBVIOUS
  <1>0. IsFiniteSet({u}) /\ Cardinality({u}) = 1 /\ v \notin {u}
    BY FS_Singleton
  <1>1. Cardinality({u} \cup {v}) = 2
    <2>1. PICK s : s = {u} /\ IsFiniteSet(s) /\ Cardinality(s) = 1 /\ v \notin s
      BY <1>0
    <2>2. Cardinality(s \cup {v}) = Cardinality(s) + 1
      BY <2>1, FS_AddElement
    <2> QED
      BY <2>1, <2>2
  <1>2. Cardinality({u} \cup {v}) <= Cardinality(C) /\ Cardinality(C) \in Nat
    <2>1. {u} \cup {v} \subseteq C
      OBVIOUS
    <2> QED
      BY <2>1, FS_Subset, FS_CardinalityType
  <1> QED
    BY <1>1, <1>2

LEMMA SoloStep ==
    ASSUME FileInv, SoloInv, NEW t \in Threads, Step(t)
    PROVE  SoloInv'
  <1>1. /\ callers' = callers /\ starts' \in Nat /\ stops' \in Nat
        /\ troubled => troubled'
        /\ \A u \in Threads : u # t => todo'[u] = todo[u]
    BY StepFrame DEF SoloInv
  <1>2. todo[t] # <<>> /\ Media \notin Users /\ Media \in Threads
    BY ByHead, RecorderAssumption DEF RecorderAssumption, Threads
  <1>3. t # Media => t \in callers
    BY <1>2 DEF SoloInv, Threads
  <1>4. ASSUME NEW u \in Users, u \notin callers PROVE todo'[u] = <<>>
    <2>1. u # t /\ u \in Threads
      BY <1>2, <1>3, <1>4 DEF Threads
    <2> QED
      BY <1>1, <1>4, <2>1 DEF SoloInv
  <1>5. ASSUME Calm' PROVE CalmOK'
    <2>1. ~troubled' /\ Calm /\ Cardinality(callers) <= 1
      BY <1>1, <1>5 DEF Calm
    <2>2. CalmOK
      BY <2>1 DEF SoloInv
    <2>3. CASE t = Media
      <3>1. /\ MediaOK(todo'[Media])
            /\ readyState' = readyState /\ starts' = starts /\ stops' = stops
        BY <2>1, <2>2, <2>3, MediaStep DEF CalmOK
      <3>2. ASSUME NEW u \in callers PROVE UserOK(todo[u])'
        <4>1. u # Media /\ u \in Threads
          BY <1>2 DEF SoloInv, Threads
        <4>2. todo'[u] = todo[u] /\ UserOK(todo[u])
          BY <1>1, <2>2, <2>3, <4>1 DEF CalmOK
        <4> QED
          BY <3>1, <4>2 DEF UserOK
      <3> QED
        BY <1>1, <2>2, <3>1, <3>2 DEF CalmOK
    <2>4. CASE t # Media
      <3>1. t \in callers /\ callers = {t}
        BY <1>3, <2>1, <2>4, OnlyCaller DEF SoloInv
      <3>2. UserOK(todo[t])
        BY <2>2, <3>1 DEF CalmOK
      <3>3. UserOK(todo[t])'
        BY <2>1, <3>2, ActiveStep, InactiveStep DEF SoloInv
      <3>4. todo'[Media] = todo[Media]
        BY <1>1, <1>2, <2>4
      <3> QED
        BY <1>1, <2>2, <3>1, <3>3, <3>4 DEF CalmOK
    <2> QED
      BY <2>3, <2>4
  <1> QED
    BY <1>1, <1>4, <1>5 DEF SoloInv

LEMMA SoloCall ==
    ASSUME FileInv, SoloInv, NEW t \in Threads, Call(t)
    PROVE  SoloInv'
  <1>1. /\ t \in Users /\ todo[t] = <<>> /\ callers' = callers \cup {t}
        /\ readyState' = readyState /\ starts' = starts /\ stops' = stops
        /\ troubled' = troubled
    BY DEF Call
  <1>2. PICK c \in {"start", "pause", "resume", "stop"} : todo' = [todo EXCEPT ![t] = <<c>>]
    BY DEF Call
  <1>3. /\ todo'[t] = <<c>>
        /\ \A u \in Threads : u # t => todo'[u] = todo[u]
    BY <1>2 DEF FileInv
  <1>4. callers' \subseteq Users /\ IsFiniteSet(callers')
    BY <1>1, FS_AddElement DEF SoloInv
  <1>5. ASSUME NEW u \in Users, u \notin callers' PROVE todo'[u] = <<>>
    BY <1>1, <1>3, <1>5 DEF SoloInv, Threads
  <1>6. ASSUME Calm' PROVE CalmOK'
    <2>1. callers' = {t}
      BY <1>1, <1>4, <1>6, OnlyCaller DEF Calm
    <2>2. Calm
      <3>1. callers \subseteq callers'
        BY <1>1
      <3>2. Cardinality(callers) <= Cardinality(callers') /\ Cardinality(callers) \in Nat
            /\ Cardinality(callers') \in Nat
        BY <1>4, <3>1, FS_Subset, FS_CardinalityType
      <3>3. Cardinality(callers') <= 1 /\ ~troubled
        BY <1>1, <1>6 DEF Calm
      <3> QED
        BY <3>2, <3>3 DEF Calm
    <2>3. CalmOK
      BY <2>2 DEF SoloInv
    <2>4. todo'[Media] = todo[Media]
      <3>1. Media \in Threads /\ Media # t
        BY <1>1, RecorderAssumption DEF RecorderAssumption, Threads
      <3> QED
        BY <1>3, <3>1
    <2>5. \/ readyState = "inactive" /\ starts = stops
          \/ readyState # "inactive" /\ starts = stops + 1
      <3>1. CASE callers = {}
        BY <2>3, <3>1 DEF CalmOK
      <3>2. CASE callers # {}
        <4>1. t \in callers
          BY <1>1, <2>1, <3>2
        <4>2. UserOK(<<>>)
          BY <1>1, <2>3, <4>1 DEF CalmOK
        <4> QED
          BY <4>2, NothingQuiet DEF UserOK, Starting
      <3> QED
        BY <3>1, <3>2
    <2>6. UserOK(todo[t])'
      <3>1. CASE readyState = "inactive" /\ starts = stops
        <4>1. CASE c = "start"
          BY <1>1, <1>3, <3>1, <4>1 DEF UserOK
        <4>2. CASE c # "start"
          <5>1. c \in Quiet
            BY <4>2 DEF Quiet
          <5>2. AllQuiet(<<c>>)
            BY <5>1, OneQuiet
          <5> QED
            BY <1>1, <1>3, <3>1, <5>2, Zenon DEF UserOK
        <4> QED
          BY <4>1, <4>2
      <3>2. CASE readyState # "inactive" /\ starts = stops + 1
        <4>1. c \in Steps /\ c \notin {"startLock", "START"} /\ Fits(c, <<>>)
          BY DEF Steps, Fits
        <4>2. Settled(<<c>> \o <<>>) /\ <<c>> \o <<>> = <<c>>
          BY <4>1, Nothing, Settles, Alone
        <4> QED
          BY <1>1, <1>3, <3>2, <4>2, Zenon DEF UserOK, Settled
      <3> QED
        BY <2>5, <3>1, <3>2
    <2> QED
      BY <2>1, <2>3, <2>4, <2>6 DEF CalmOK
  <1> QED
    BY <1>1, <1>4, <1>5, <1>6 DEF SoloInv

LEMMA SoloDeliver ==
    ASSUME FileInv, SoloInv, Deliver
    PROVE  SoloInv'
  <1>1. /\ todo[Media] = <<>> /\ callers' = callers
        /\ readyState' = readyState /\ starts' = starts /\ stops' = stops
    BY DEF Deliver
  <1>2. PICK event \in {"PACKET", "close"} :
            /\ todo' = [todo EXCEPT ![Media] = <<event>>]
            /\ troubled' = (troubled \/ event = "close")
    BY DEF Deliver
  <1>3. Media \in Threads /\ Media \notin Users
    BY RecorderAssumption DEF RecorderAssumption, Threads
  <1>4. /\ todo'[Media] = <<event>>
        /\ \A u \in Users : todo'[u] = todo[u]
    BY <1>2, <1>3 DEF FileInv, Threads
  <1>5. ASSUME Calm' PROVE CalmOK'
    <2>1. ~troubled /\ event # "close" /\ Calm
      BY <1>1, <1>2, <1>5 DEF Calm
    <2>2. event = "PACKET" /\ CalmOK
      BY <2>1 DEF SoloInv
    <2>3. MediaOK(todo'[Media])
      <3>1. "PACKET" \in Steps
        BY DEF Steps
      <3>2. <<>> \in Stack /\ <<"PACKET">> \o <<>> = <<"PACKET">>
        BY <3>1, Alone
      <3>3. Head(<<"PACKET">> \o <<>>) = "PACKET" /\ Tail(<<"PACKET">> \o <<>>) = <<>>
        BY <3>1, <3>2, Push DEF Stack
      <3> QED
        BY <1>4, <2>2, <3>2, <3>3, Zenon DEF MediaOK
    <2>4. ASSUME NEW u \in callers PROVE UserOK(todo[u])'
      <3>1. todo'[u] = todo[u] /\ UserOK(todo[u])
        BY <1>4, <2>2 DEF CalmOK, SoloInv
      <3> QED
        BY <1>1, <3>1 DEF UserOK
    <2> QED
      BY <1>1, <2>2, <2>3, <2>4 DEF CalmOK
  <1> QED
    BY <1>1, <1>4, <1>5 DEF SoloInv

LEMMA SoloInit == Init => SoloInv
  <1> SUFFICES ASSUME Init PROVE SoloInv
    OBVIOUS
  <1>1. callers = {} /\ starts = 0 /\ stops = 0 /\ readyState = "inactive"
        /\ \A u \in Threads : todo[u] = <<>>
    BY DEF Init
  <1>2. IsFiniteSet(callers)
    BY <1>1, FS_EmptySet
  <1>3. MediaOK(todo[Media])
    BY <1>1 DEF MediaOK, Threads
  <1>4. CalmOK
    BY <1>1, <1>3 DEF CalmOK
  <1> QED
    BY <1>1, <1>2, <1>4 DEF SoloInv, Threads

LEMMA SoloNext ==
    ASSUME FileInv, SoloInv, [Next]_vars
    PROVE  SoloInv'
  <1>1. CASE Next
    <2>1. Deliver \/ \E t \in Threads : Call(t) \/ Step(t)
      BY <1>1 DEF Next
    <2> QED
      BY <2>1, SoloDeliver, SoloCall, SoloStep
  <1>2. CASE UNCHANGED vars
    <2>1. /\ todo' = todo /\ readyState' = readyState /\ starts' = starts /\ stops' = stops
          /\ callers' = callers /\ troubled' = troubled
      BY <1>2 DEF vars, counts
    <2>2. Calm' => Calm
      BY <2>1 DEF Calm
    <2>3. CalmOK => CalmOK'
      BY <2>1 DEF CalmOK, UserOK
    <2> QED
      BY <2>1, <2>2, <2>3 DEF SoloInv
  <1> QED
    BY <1>1, <1>2

LEMMA SoloCounts == SoloInv => OneStopPerStart
  <1> SUFFICES ASSUME SoloInv, Calm
               PROVE  /\ stops <= starts /\ starts <= stops + 1
                      /\ Idle /\ readyState = "inactive" => starts = stops
    BY DEF OneStopPerStart
  <1>1. CalmOK /\ starts \in Nat /\ stops \in Nat /\ callers \subseteq Users
    BY DEF SoloInv
  <1>2. CASE callers = {}
    BY <1>1, <1>2 DEF CalmOK
  <1>3. CASE callers # {}
    <2>1. PICK u \in callers : UserOK(todo[u])
      BY <1>1, <1>3 DEF CalmOK
    <2>2. starts = stops \/ starts = stops + 1
      BY <2>1 DEF UserOK
    <2>3. ASSUME Idle, readyState = "inactive" PROVE starts = stops
      <3>1. todo[u] = <<>>
        BY <1>1, <2>3 DEF Idle
      <3>2. UserOK(<<>>)
        BY <2>1, <3>1
      <3> QED
        BY <2>3, <3>2, NothingQuiet DEF UserOK
    <2> QED
      BY <1>1, <2>2, <2>3
  <1> QED
    BY <1>2, <1>3

\* For one user, and as long as neither the file nor the source fails, every
\* START is followed by one STOP, however the recorder is stopped.
THEOREM StopsMatchStarts == Spec => []OneStopPerStart
  <1>1. Init => FileInv /\ SoloInv
    BY FileInit, SoloInit
  <1>2. FileInv /\ SoloInv /\ [Next]_vars => FileInv' /\ SoloInv'
    BY FileNext, SoloNext
  <1> QED
    BY <1>1, <1>2, SoloCounts, PTL DEF Spec

=============================================================================
