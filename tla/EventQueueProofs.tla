-------------------------- MODULE EventQueueProofs --------------------------
(***************************************************************************)
(* Proofs about EventQueue, for every set of threads and events, whatever  *)
(* kinds the events have and however few results the waiters ask for: the  *)
(* variables keep their types, no event is registered twice, and every     *)
(* trigger of a queueing event is delivered exactly once and in order.     *)
(***************************************************************************)
EXTENDS EventQueue, FiniteSetTheorems, SequenceTheorems, TLAPS

EventCalls == {"Add", "Delete", "Trigger", "AddEop", "Push", "FdReady"}

Calls == {Idle} \cup [at : {"Close"}] \cup [at : EventCalls, ev : Events]
           \cup [at : {"Scan", "Rescan", "Asleep"}, num : Nums, wait : Waits]

\* What the threads and the GPU thread are doing.  A trigger of the GPU
\* thread carries a stamp that was given out.
CallsOK ==
    /\ call \in [Threads -> Calls]
    /\ gpu \in [at : {"Idle", "Next", "All"}, todo : SUBSET Events]
                 \cup [at : {"Next", "Trigger", "Prune"}, todo : SUBSET Events,
                       ev : Events, stamp : 1..MaxStamp]
    /\ gpu.at # "Idle" => stamp >= 1
    /\ eopList \subseteq Events

\* What an event holds for the waiters to come.
Held(e) == IF triggered[e] THEN <<current[e]>> \o pending[e] ELSE <<>>

\* Only a queueing event that is triggered has pending events, only a timer
\* has a deadline, and an event that is not registered is not triggered and
\* has no history.
Clean(e) ==
    /\ ~triggered[e] \/ ~Queues(e) => pending[e] = <<>>
    /\ deadline[e] # "None" => kind[e] = "Timer"
    /\ ~Registered(e) => ~triggered[e]
    /\ ~Registered(e) \/ ~Queues(e) => sent[e] = <<>> /\ got[e] = <<>>

\* What was sent to a queueing event was received or is held, in order.
Accounted(e) == Queues(e) => sent[e] = got[e] \o Held(e)

EventTypes ==
    /\ order \in Seq(Events) /\ IsInjective(order)
    /\ triggered \in [Events -> BOOLEAN]
    /\ current \in [Events -> 0..MaxStamp]
    /\ pending \in [Events -> Seq(1..MaxStamp)]
    /\ deadline \in [Events -> {"None", "Running", "Passed"}]
    /\ sent \in [Events -> Seq(0..MaxStamp)]
    /\ got \in [Events -> Seq(0..MaxStamp)]

\* The part of the invariant about m_events ...
EInv == EventTypes /\ \A e \in Events : Clean(e) /\ Accounted(e)

\* ... and all of it.
IInv == TypeOK /\ CallsOK /\ EInv

-----------------------------------------------------------------------------
(* Sequences.                                                              *)

\* Two sequences are equal when they agree position by position.
LEMMA SeqSame ==
    ASSUME NEW S, NEW a \in Seq(S), NEW b \in Seq(S), Len(a) = Len(b),
           \A i \in 1..Len(a) : a[i] = b[i]
    PROVE  a = b
BY SeqEqual

\* A result sent behind what is held is sent behind everything.
Behind(g, a, x) == Append(g \o a, x) = g \o Append(a, x)

LEMMA AppendBehind ==
    ASSUME NEW S, NEW g \in Seq(S), NEW a \in Seq(S), NEW x \in S
    PROVE  Behind(g, a, x)
<1> DEFINE l == Append(g \o a, x)
           r == g \o Append(a, x)
<1>1. g \o a \in Seq(S) /\ Append(a, x) \in Seq(S)
  OBVIOUS
<1>2. l \in Seq(S) /\ r \in Seq(S) /\ Len(l) = Len(r)
  BY <1>1
<1>3. \A i \in 1..Len(l) : l[i] = r[i]
  BY <1>1
<1>4. l = r
  BY <1>2, <1>3, SeqSame
<1> QED BY <1>4 DEF Behind

\* A sequence is its first n elements and the others.
LEMMA SplitAt ==
    ASSUME NEW S, NEW a \in Seq(S), NEW n \in 0..Len(a)
    PROVE  /\ SubSeq(a, 1, n) \in Seq(S) /\ SubSeq(a, n + 1, Len(a)) \in Seq(S)
           /\ a = SubSeq(a, 1, n) \o SubSeq(a, n + 1, Len(a))
<1> DEFINE f == SubSeq(a, 1, n)
           t == SubSeq(a, n + 1, Len(a))
<1>0. Len(a) \in Nat /\ n \in Nat
  OBVIOUS
<1>1. /\ f \in Seq(S) /\ Len(f) = n /\ \A i \in 1..n : f[i] = a[i]
  OBVIOUS
<1>2. /\ t \in Seq(S) /\ Len(t) = Len(a) - n
      /\ \A i \in 1..(Len(a) - n) : t[i] = a[n + i]
  OBVIOUS
<1> HIDE DEF f, t
<1> DEFINE h == f \o t
<1>3. /\ h \in Seq(S) /\ Len(h) = Len(f) + Len(t)
      /\ \A i \in 1..(Len(f) + Len(t)) : h[i] = IF i <= Len(f) THEN f[i] ELSE t[i - Len(f)]
  BY <1>1, <1>2, ConcatProperties
<1> HIDE DEF h
<1>4. Len(h) = Len(a)
  BY <1>0, <1>1, <1>2, <1>3
<1>5. ASSUME NEW i \in 1..Len(a) PROVE h[i] = a[i]
  <2>1. CASE i <= n
    BY <1>0, <1>1, <1>2, <1>3, <2>1
  <2>2. CASE ~(i <= n)
    <3>1. i - n \in 1..(Len(a) - n) /\ n + (i - n) = i
      BY <1>0, <2>2
    <3>2. t[i - n] = a[i]
      BY <1>2, <3>1
    <3> QED BY <1>0, <1>1, <1>2, <1>3, <2>2, <3>2
  <2> QED BY <2>1, <2>2
<1>6. h = a
  BY <1>3, <1>4, <1>5, SeqSame
<1> QED BY <1>1, <1>2, <1>6 DEF h, f, t

\* Taking the first n elements of what is held moves them to what was got.
LEMMA TakeFront ==
    ASSUME NEW S, NEW g \in Seq(S), NEW a \in Seq(S), NEW n \in 0..Len(a)
    PROVE  g \o a = (g \o SubSeq(a, 1, n)) \o SubSeq(a, n + 1, Len(a))
<1> DEFINE f == SubSeq(a, 1, n)
           t == SubSeq(a, n + 1, Len(a))
<1>1. f \in Seq(S) /\ t \in Seq(S) /\ a = f \o t
  BY SplitAt
<1> HIDE DEF f, t
<1>2. (g \o f) \o t = g \o (f \o t)
  BY <1>1, ConcatAssociative
<1> QED BY <1>1, <1>2 DEF f, t

\* When n results of a current and its pending ones are taken, the next
\* pending one becomes current and the rest stay pending.
LEMMA TakeCurrent ==
    ASSUME NEW S, NEW c \in S, NEW p \in Seq(S), NEW n \in 1..(Len(p) + 1)
    PROVE  SubSeq(<<c>> \o p, n + 1, Len(<<c>> \o p))
              = IF n = Len(p) + 1 THEN <<>>
                ELSE <<p[n]>> \o SubSeq(p, n + 1, Len(p))
<1> DEFINE a == <<c>> \o p
<1>0. Len(p) \in Nat /\ n \in Nat
  OBVIOUS
<1>1. /\ a \in Seq(S) /\ Len(a) = Len(p) + 1
      /\ \A i \in 1..Len(p) : a[i + 1] = p[i]
  OBVIOUS
<1> HIDE DEF a
<1>2. CASE n = Len(p) + 1
  <2>1. SubSeq(a, n + 1, Len(a)) = <<>>
    BY <1>0, <1>1, <1>2, SubSeqEmpty
  <2> QED BY <1>2, <2>1 DEF a
<1>3. CASE n # Len(p) + 1
  <2>1. n \in 1..Len(p) /\ n + 1 \in 1..Len(a) /\ Len(a) \in (n + 1)..Len(a)
    BY <1>0, <1>1, <1>3
  <2>2. SubSeq(a, n + 1, Len(a)) = <<a[n + 1]>> \o SubSeq(a, n + 1 + 1, Len(a))
    BY <1>1, <2>1, SubSeqRecursiveFirst
  <2>3. a[n + 1] = p[n]
    BY <1>1, <2>1
  <2> DEFINE l == SubSeq(a, n + 2, Len(a))
             r == SubSeq(p, n + 1, Len(p))
  <2>4. /\ l \in Seq(S) /\ Len(l) = Len(p) - n
        /\ \A i \in 1..(Len(p) - n) : l[i] = a[n + 1 + i]
    BY <1>0, <1>1, <2>1
  <2>5. /\ r \in Seq(S) /\ Len(r) = Len(p) - n
        /\ \A i \in 1..(Len(p) - n) : r[i] = p[n + i]
    BY <1>0, <2>1
  <2> HIDE DEF l, r
  <2>6. ASSUME NEW i \in 1..Len(l) PROVE l[i] = r[i]
    <3>1. i \in 1..(Len(p) - n) /\ n + i \in 1..Len(p) /\ n + 1 + i = n + i + 1
      BY <1>0, <2>1, <2>4
    <3> QED BY <1>1, <2>4, <2>5, <3>1
  <2>7. l = r
    BY <2>4, <2>5, <2>6, SeqSame
  <2>8. n + 1 + 1 = n + 2
    BY <1>0
  <2> QED BY <1>3, <2>2, <2>3, <2>7, <2>8 DEF a, l, r
<1> QED BY <1>2, <1>3

-----------------------------------------------------------------------------
(* The operations on m_events.                                             *)

\* Erasing events leaves the others registered, each once.
LEMMA UnlistFacts ==
    ASSUME order \in Seq(Events), IsInjective(order), NEW S, Unlist(S)
    PROVE  /\ order' \in Seq(Events) /\ IsInjective(order')
           /\ \A e \in Events : Registered(e)' <=> (Registered(e) /\ e \notin S)
<1> DEFINE kept == {e \in Events : Registered(e) /\ e \notin S}
<1>0. Len(order) \in Nat
  OBVIOUS
<1>1. PICK m \in 0..Len(order) : order' \in [1..m -> kept]
  BY DEF Unlist, SeqOf
<1>2. m \in Nat /\ kept \subseteq Events
  BY <1>0
<1> HIDE DEF kept
<1>3. order' \in Seq(kept)
  BY <1>1, <1>2, SeqDef
<1>4. order' \in Seq(Events)
  BY <1>2, <1>3, SeqMonotonic
<1>5. ASSUME NEW i \in 1..Len(order'), NEW j \in 1..Len(order'), i < j
      PROVE  order'[i] # order'[j]
  <2>1. PICK a, b \in 1..Len(order) :
           a < b /\ order[a] = order'[i] /\ order[b] = order'[j]
    BY <1>5 DEF Unlist
  <2>2. a \in DOMAIN order /\ b \in DOMAIN order /\ a # b
    BY <2>1
  <2> QED BY <2>1, <2>2 DEF IsInjective
<1>6. IsInjective(order')
  <2> SUFFICES ASSUME NEW i \in DOMAIN order', NEW j \in DOMAIN order',
                      order'[i] = order'[j]
               PROVE  i = j
    BY DEF IsInjective
  <2>1. i \in 1..Len(order') /\ j \in 1..Len(order') /\ Len(order') \in Nat
    BY <1>4
  <2>2. ~(i < j) /\ ~(j < i)
    BY <1>5, <2>1
  <2> QED BY <2>1, <2>2
<1>7. ASSUME NEW e \in Events, Registered(e)' PROVE Registered(e) /\ e \notin S
  <2>1. PICK i \in 1..Len(order') : order'[i] = e
    BY <1>7 DEF Registered, Contains
  <2>2. e \in kept
    BY <1>3, <2>1
  <2> QED BY <2>2 DEF kept
<1>8. ASSUME NEW e \in Events, Registered(e), e \notin S PROVE Registered(e)'
  BY <1>8 DEF Registered, Unlist
<1> QED BY <1>4, <1>6, <1>7, <1>8

LEMMA EraseEInv ==
    ASSUME EInv, kind' = kind, NEW S, Erase(S)
    PROVE  EInv'
<1>0. /\ order \in Seq(Events) /\ IsInjective(order)
      /\ triggered \in [Events -> BOOLEAN]
      /\ current \in [Events -> 0..MaxStamp]
      /\ pending \in [Events -> Seq(1..MaxStamp)]
      /\ deadline \in [Events -> {"None", "Running", "Passed"}]
      /\ sent \in [Events -> Seq(0..MaxStamp)]
      /\ got \in [Events -> Seq(0..MaxStamp)]
  BY DEF EInv, EventTypes
<1>1. /\ order' \in Seq(Events) /\ IsInjective(order')
      /\ \A e \in Events : Registered(e)' <=> (Registered(e) /\ e \notin S)
  BY <1>0, UnlistFacts DEF Erase
<1>2. \A e \in Events :
         IF e \in S
         THEN /\ triggered'[e] = FALSE /\ current'[e] = 0 /\ pending'[e] = <<>>
              /\ deadline'[e] = "None" /\ sent'[e] = <<>> /\ got'[e] = <<>>
         ELSE /\ triggered'[e] = triggered[e] /\ current'[e] = current[e]
              /\ pending'[e] = pending[e] /\ deadline'[e] = deadline[e]
              /\ sent'[e] = sent[e] /\ got'[e] = got[e]
  BY <1>0 DEF Erase
<1>3. EventTypes'
  <2>1. triggered' \in [Events -> BOOLEAN]
    BY <1>0 DEF Erase
  <2>2. current' \in [Events -> 0..MaxStamp]
    BY <1>0, EventAssumption DEF Erase
  <2>3. deadline' \in [Events -> {"None", "Running", "Passed"}]
    BY <1>0 DEF Erase
  <2>4. pending' \in [Events -> Seq(1..MaxStamp)]
    <3> PICK N : N = 1..MaxStamp
      OBVIOUS
    <3>1. pending \in [Events -> Seq(N)] /\ <<>> \in Seq(N)
      BY <1>0
    <3>2. pending' \in [Events -> Seq(N)]
      BY ONLY <3>1, Erase(S) DEF Erase
    <3> QED BY <3>2
  <2>5. sent' \in [Events -> Seq(0..MaxStamp)] /\ got' \in [Events -> Seq(0..MaxStamp)]
    <3> PICK N : N = 0..MaxStamp
      OBVIOUS
    <3>1. sent \in [Events -> Seq(N)] /\ got \in [Events -> Seq(N)] /\ <<>> \in Seq(N)
      BY <1>0
    <3>2. sent' \in [Events -> Seq(N)] /\ got' \in [Events -> Seq(N)]
      BY ONLY <3>1, Erase(S) DEF Erase
    <3> QED BY <3>2
  <2> QED BY <1>1, <2>1, <2>2, <2>3, <2>4, <2>5 DEF EventTypes
<1>4. ASSUME NEW e \in Events PROVE Clean(e)' /\ Accounted(e)'
  <2>0. Clean(e) /\ Accounted(e)
    BY DEF EInv
  <2>1. CASE e \in S
    <3>1. <<>> \o <<>> = <<>>
      OBVIOUS
    <3> QED BY <1>1, <1>2, <2>1, <3>1 DEF Clean, Accounted, Held
  <2>2. CASE e \notin S
    BY <1>1, <1>2, <2>0, <2>2 DEF Clean, Accounted, Held, Queues
  <2> QED BY <2>1, <2>2
<1> QED BY <1>3, <1>4 DEF EInv

\* A trigger is sent, and held behind what is held already.
LEMMA TriggerEInv ==
    ASSUME EInv, kind' = kind, NEW e, Registered(e), NEW s \in 1..MaxStamp, Trigger(e, s)
    PROVE  EInv'
<1>0. /\ order \in Seq(Events) /\ IsInjective(order)
      /\ triggered \in [Events -> BOOLEAN]
      /\ current \in [Events -> 0..MaxStamp]
      /\ pending \in [Events -> Seq(1..MaxStamp)]
      /\ deadline \in [Events -> {"None", "Running", "Passed"}]
      /\ sent \in [Events -> Seq(0..MaxStamp)]
      /\ got \in [Events -> Seq(0..MaxStamp)]
  BY DEF EInv, EventTypes
<1>1. e \in Events
  BY <1>0 DEF Registered, Contains
<1>2. s \in 0..MaxStamp /\ MaxStamp \in Nat
  BY EventAssumption
<1>3. /\ order' = order /\ deadline' = deadline /\ got' = got
      /\ triggered' = [triggered EXCEPT ![e] = TRUE]
      /\ sent' = [sent EXCEPT ![e] = IF Queues(e) THEN Append(sent[e], s) ELSE sent[e]]
      /\ current' = IF Queues(e) /\ triggered[e] THEN current
                    ELSE [current EXCEPT ![e] = s]
      /\ pending' = IF Queues(e) /\ triggered[e]
                    THEN [pending EXCEPT ![e] = Append(pending[e], s)] ELSE pending
  BY DEF Trigger
<1>4. EventTypes'
  <2>1. triggered' \in [Events -> BOOLEAN]
    BY <1>0, <1>3
  <2>2. current' \in [Events -> 0..MaxStamp]
    BY <1>0, <1>1, <1>2, <1>3
  <2>3. pending' \in [Events -> Seq(1..MaxStamp)]
    BY <1>0, <1>1, <1>3
  <2>4. sent' \in [Events -> Seq(0..MaxStamp)]
    <3> PICK N : N = 0..MaxStamp
      OBVIOUS
    <3>1. sent \in [Events -> Seq(N)] /\ s \in N
      BY <1>0, <1>2
    <3>2. sent' \in [Events -> Seq(N)]
      BY ONLY <1>1, <1>3, <3>1
    <3> QED BY <3>2
  <2> QED BY <1>0, <1>3, <2>1, <2>2, <2>3, <2>4 DEF EventTypes
<1>5. ASSUME NEW x \in Events, x # e PROVE Clean(x)' /\ Accounted(x)'
  <2>1. Clean(x) /\ Accounted(x)
    BY DEF EInv
  <2>2. /\ triggered'[x] = triggered[x] /\ current'[x] = current[x]
        /\ pending'[x] = pending[x] /\ sent'[x] = sent[x]
    BY <1>0, <1>1, <1>3, <1>5
  <2> QED BY <1>3, <2>1, <2>2 DEF Clean, Accounted, Held, Queues, Registered
<1>6. Clean(e)'
  <2>1. Clean(e)
    BY <1>1 DEF EInv
  <2>2. triggered'[e] = TRUE /\ (~Queues(e) => pending'[e] = pending[e])
    BY <1>0, <1>1, <1>3
  <2>3. Registered(e)' /\ (Queues(e)' <=> Queues(e))
    BY <1>3 DEF Registered, Queues
  <2> QED BY <1>3, <2>1, <2>2, <2>3 DEF Clean
<1>7. Accounted(e)'
  <2> SUFFICES ASSUME Queues(e) PROVE sent'[e] = got'[e] \o Held(e)'
    BY DEF Accounted, Queues
  <2>1. sent[e] = got[e] \o Held(e) /\ (~triggered[e] => pending[e] = <<>>)
    BY <1>1 DEF EInv, Accounted, Clean
  <2>2. sent'[e] = Append(sent[e], s) /\ got'[e] = got[e] /\ triggered'[e] = TRUE
    BY <1>0, <1>1, <1>3
  <2> PICK N : N = 0..MaxStamp
    OBVIOUS
  <2>3. got[e] \in Seq(N) /\ current[e] \in N /\ pending[e] \in Seq(N) /\ s \in N
    <3>1. 1..MaxStamp \subseteq N /\ pending[e] \in Seq(1..MaxStamp)
      BY <1>0, <1>1, <1>2
    <3>2. pending[e] \in Seq(N)
      BY ONLY <3>1, SeqMonotonic
    <3> QED BY <1>0, <1>1, <1>2, <3>2
  <2>4. Held(e) \in Seq(N)
    BY ONLY <2>3 DEF Held
  <2>5. Held(e)' = Append(Held(e), s)
    <3>1. CASE triggered[e]
      <4>1. current'[e] = current[e] /\ pending'[e] = Append(pending[e], s)
        BY <1>0, <1>1, <1>3, <3>1
      <4>2. <<current[e]>> \in Seq(N)
        BY ONLY <2>3
      <4>3. Append(<<current[e]>> \o pending[e], s) = <<current[e]>> \o Append(pending[e], s)
        <5>1. Behind(<<current[e]>>, pending[e], s)
          BY ONLY <2>3, <4>2, AppendBehind
        <5> QED BY ONLY <5>1 DEF Behind
      <4> QED BY <2>2, <3>1, <4>1, <4>3 DEF Held
    <3>2. CASE ~triggered[e]
      <4>1. current'[e] = s /\ pending'[e] = <<>>
        BY <1>0, <1>1, <1>3, <2>1, <3>2
      <4>2. <<s>> \o <<>> = <<s>> /\ Append(<<>>, s) = <<s>>
        OBVIOUS
      <4> QED BY <2>2, <3>2, <4>1, <4>2 DEF Held
    <3> QED BY <3>1, <3>2
  <2>6. Append(got[e] \o Held(e), s) = got[e] \o Append(Held(e), s)
    <3>1. Behind(got[e], Held(e), s)
      BY ONLY <2>3, <2>4, AppendBehind
    <3> QED BY ONLY <3>1 DEF Behind
  <2> QED BY <2>1, <2>2, <2>5, <2>6
<1> QED BY <1>4, <1>5, <1>6, <1>7 DEF EInv

LEMMA AddEInv ==
    ASSUME EInv, kind' = kind, NEW e \in Events,
           deadline' = [deadline EXCEPT ![e] =
                            IF kind[e] = "Timer" THEN "Running" ELSE "None"],
           order' = IF Registered(e) THEN order ELSE Append(order, e),
           UNCHANGED <<triggered, current, pending, sent, got>>
    PROVE  EInv'
<1>0. /\ order \in Seq(Events) /\ IsInjective(order) /\ Len(order) \in Nat
      /\ deadline \in [Events -> {"None", "Running", "Passed"}]
  BY DEF EInv, EventTypes
<1>1. /\ order' \in Seq(Events) /\ IsInjective(order')
      /\ \A x \in Events : Registered(x)' <=> (Registered(x) \/ x = e)
  <2>1. CASE Registered(e)
    BY <1>0, <2>1 DEF Registered
  <2>2. CASE ~Registered(e)
    <3>1. /\ order' \in Seq(Events) /\ Len(order') = Len(order) + 1
          /\ \A i \in 1..Len(order) : order'[i] = order[i]
          /\ order'[Len(order) + 1] = e
      BY <1>0, <2>2
    <3>2. \A i \in 1..Len(order) : order[i] # e
      BY <2>2 DEF Registered, Contains
    <3>3. \A i, j \in 1..Len(order) : order[i] = order[j] => i = j
      BY <1>0 DEF IsInjective
    <3>4. \A i, j \in 1..Len(order') : order'[i] = order'[j] => i = j
      BY <1>0, <3>1, <3>2, <3>3
    <3>5. IsInjective(order')
      <4>1. DOMAIN order' = 1..Len(order')
        BY <3>1
      <4> QED BY <3>4, <4>1 DEF IsInjective
    <3>6. ASSUME NEW x \in Events PROVE Registered(x)' <=> (Registered(x) \/ x = e)
      <4>1. ASSUME Registered(x)' PROVE Registered(x) \/ x = e
        BY <1>0, <3>1, <4>1 DEF Registered, Contains
      <4>2. ASSUME Registered(x) PROVE Registered(x)'
        BY <1>0, <3>1, <4>2 DEF Registered, Contains
      <4>3. Registered(e)'
        BY <1>0, <3>1 DEF Registered, Contains
      <4> QED BY <4>1, <4>2, <4>3
    <3> QED BY <3>1, <3>5, <3>6
  <2> QED BY <2>1, <2>2
<1>2. EventTypes'
  BY <1>0, <1>1 DEF EInv, EventTypes
<1>3. ASSUME NEW x \in Events PROVE Clean(x)' /\ Accounted(x)'
  <2>1. Clean(x) /\ Accounted(x)
    BY DEF EInv
  <2>2. deadline'[x] # "None" => kind[x] = "Timer"
    BY <1>0, <2>1 DEF Clean
  <2> QED BY <1>1, <2>1, <2>2 DEF Clean, Accounted, Held, Queues
<1> QED BY <1>2, <1>3 DEF EInv

\* What a queueing event can deliver is what it holds.
LEMMA AvailableHeld ==
    ASSUME EInv, NEW e \in Events, Queues(e)
    PROVE  /\ Available(e) = Held(e) /\ (Up(e) <=> triggered[e])
           /\ Held(e) \in Seq(0..MaxStamp)
<1>1. Clean(e)
  BY DEF EInv
<1>2. kind[e] # "Timer"
  BY DEF Queues
<1>3. Up(e) <=> triggered[e]
  BY <1>1, <1>2 DEF Clean, Up
<1>4. Held(e) \in Seq(0..MaxStamp)
  <2> PICK N : N = 0..MaxStamp
    OBVIOUS
  <2>1. 1..MaxStamp \subseteq N /\ pending[e] \in Seq(1..MaxStamp) /\ current[e] \in N
    BY EventAssumption DEF EInv, EventTypes
  <2>2. pending[e] \in Seq(N)
    BY ONLY <2>1, SeqMonotonic
  <2>3. Held(e) \in Seq(N)
    BY ONLY <2>1, <2>2 DEF Held
  <2> QED BY <2>3
<1> QED BY <1>3, <1>4 DEF Available, Held

\* A scan takes of each event no more than it can deliver.
LEMMA TakesBound ==
    ASSUME EInv, NEW num
    PROVE  \A e \in Events : Takes(num)[e] \in 0..Len(Available(e))
<1> SUFFICES ASSUME NEW e \in Events
             PROVE  Takes(num)[e] \in 0..Len(Available(e))
  OBVIOUS
<1>0. Len(Available(e)) \in Nat
  <2>1. Len(pending[e]) \in Nat /\ Len(<<current[e]>> \o pending[e]) = Len(pending[e]) + 1
    BY DEF EInv, EventTypes
  <2>2. Len(<<>>) = 0 /\ Len(<<current[e]>>) = 1
    OBVIOUS
  <2> QED BY <2>1, <2>2 DEF Available
<1> DEFINE at == {i \in 1..Len(order) : order[i] = e}
<1>1. Takes(num)[e] = IF at = {} THEN 0 ELSE Taken(Min(at), num)
  BY DEF Takes
<1>2. CASE at = {}
  BY <1>0, <1>1, <1>2
<1>3. CASE at # {}
  <2>1. PICK i \in 1..Len(order) : order[i] = e
    BY <1>3
  <2>2. at = {i}
    BY <2>1 DEF EInv, EventTypes, IsInjective
  <2>3. Min({i}) = i
    BY <2>1 DEF Min
  <2>4. Takes(num)[e] = Taken(i, num)
    BY <1>1, <1>3, <2>2, <2>3
  <2> DEFINE L == Len(Available(e))
             T == {k \in 1..L : Before(i) + k <= num}
  <2>5. Taken(i, num) = Cardinality(T)
    BY <2>1 DEF Taken
  <2> HIDE DEF L
  <2>6. T \in SUBSET (1..L) /\ L \in Nat
    BY <1>0 DEF L
  <2> HIDE DEF T
  <2>7. IsFiniteSet(1..L) /\ Cardinality(1..L) = L
    BY ONLY <2>6, FS_Interval
  <2>8. IsFiniteSet(T) /\ Cardinality(T) <= Cardinality(1..L)
    BY ONLY <2>6, <2>7, FS_Subset
  <2>9. Cardinality(T) \in Nat
    BY ONLY <2>8, FS_CardinalityType
  <2>10. Cardinality(T) \in 0..L
    BY ONLY <2>6, <2>7, <2>8, <2>9
  <2> QED BY ONLY <2>4, <2>5, <2>10 DEF L
<1> QED BY <1>2, <1>3

\* What a scan leaves of event e when it takes n of its results.
Scanned(e, n) ==
    LET fired == kind[e] = "Timer" /\ n > 0
        reset == kind[e] \notin {"Timer", "Level"} /\ n > 0
    IN
    /\ triggered'[e] = IF fired THEN FALSE
                       ELSE IF reset THEN Rest(e, n) # <<>> ELSE Up(e)
    /\ current'[e] = IF ~reset \/ kind[e] = "Fd" THEN current[e]
                     ELSE IF Rest(e, n) = <<>> THEN 0 ELSE Head(Rest(e, n))
    /\ pending'[e] = IF ~reset \/ pending[e] = <<>> THEN pending[e]
                     ELSE SubSeq(pending[e], n + 1, Len(pending[e]))
    /\ deadline'[e] = IF fired THEN "None" ELSE deadline[e]
    /\ got'[e] = IF Queues(e) THEN got[e] \o SubSeq(Available(e), 1, n) ELSE got[e]
    /\ Registered(e)' <=> (Registered(e) /\ ~fired)

LEMMA ScanFacts ==
    ASSUME EInv, NEW t \in Threads, Scan(t)
    PROVE  /\ order' \in Seq(Events) /\ IsInjective(order')
           /\ triggered' = [e \in Events |-> triggered'[e]]
           /\ current' = [e \in Events |-> current'[e]]
           /\ pending' = [e \in Events |-> pending'[e]]
           /\ deadline' = [e \in Events |-> deadline'[e]]
           /\ got' = [e \in Events |-> got'[e]]
           /\ kind' = kind /\ sent' = sent
           /\ \A e \in Events : \E n \in 0..Len(Available(e)) : Scanned(e, n)
<1> DEFINE takes == Takes(call[t].num)
           fired == {e \in Events : kind[e] = "Timer" /\ takes[e] > 0}
           reset == {e \in Events : kind[e] \notin {"Timer", "Level"} /\ takes[e] > 0}
<1>1. /\ Unlist(fired)
      /\ triggered' = [e \in Events |->
            CASE e \in fired -> FALSE
              [] e \in reset -> Rest(e, takes[e]) # <<>>
              [] OTHER       -> Up(e)]
      /\ current' = [e \in Events |->
            IF e \notin reset \/ kind[e] = "Fd" THEN current[e]
            ELSE IF Rest(e, takes[e]) = <<>> THEN 0 ELSE Head(Rest(e, takes[e]))]
      /\ pending' = [e \in Events |->
            IF e \notin reset \/ pending[e] = <<>> THEN pending[e]
            ELSE SubSeq(pending[e], takes[e] + 1, Len(pending[e]))]
      /\ deadline' = [e \in Events |-> IF e \in fired THEN "None" ELSE deadline[e]]
      /\ got' = [e \in Events |->
            IF Queues(e) THEN got[e] \o SubSeq(Available(e), 1, takes[e]) ELSE got[e]]
      /\ kind' = kind /\ sent' = sent
  BY DEF Scan
<1>2. \A e \in Events : takes[e] \in 0..Len(Available(e))
  BY TakesBound
<1> HIDE DEF takes
<1>3. ASSUME NEW e \in Events
      PROVE  /\ e \in fired <=> (kind[e] = "Timer" /\ takes[e] > 0)
             /\ e \in reset <=> (kind[e] \notin {"Timer", "Level"} /\ takes[e] > 0)
  <2>1. e \in fired <=> (kind[e] = "Timer" /\ takes[e] > 0)
    OBVIOUS
  <2>2. e \in reset <=> (kind[e] \notin {"Timer", "Level"} /\ takes[e] > 0)
    OBVIOUS
  <2> QED BY <2>1, <2>2
<1> HIDE DEF fired, reset
<1>4. /\ order' \in Seq(Events) /\ IsInjective(order')
      /\ \A e \in Events : Registered(e)' <=> (Registered(e) /\ e \notin fired)
  BY <1>1, UnlistFacts DEF EInv, EventTypes
<1>5. ASSUME NEW e \in Events PROVE Scanned(e, takes[e])
  <2>1. triggered'[e] = IF e \in fired THEN FALSE
                        ELSE IF e \in reset THEN Rest(e, takes[e]) # <<>> ELSE Up(e)
    <3>0. ~(e \in fired /\ e \in reset)
      BY <1>3
    <3>1. triggered'[e] = CASE e \in fired -> FALSE
                            [] e \in reset -> Rest(e, takes[e]) # <<>>
                            [] OTHER       -> Up(e)
      BY <1>1
    <3>2. CASE e \in fired
      BY <3>0, <3>1, <3>2
    <3>3. CASE e \notin fired /\ e \in reset
      BY <3>1, <3>3
    <3>4. CASE e \notin fired /\ e \notin reset
      BY <3>1, <3>4
    <3> QED BY <3>2, <3>3, <3>4
  <2>2. /\ current'[e] = IF e \notin reset \/ kind[e] = "Fd" THEN current[e]
                         ELSE IF Rest(e, takes[e]) = <<>> THEN 0 ELSE Head(Rest(e, takes[e]))
        /\ pending'[e] = IF e \notin reset \/ pending[e] = <<>> THEN pending[e]
                         ELSE SubSeq(pending[e], takes[e] + 1, Len(pending[e]))
        /\ deadline'[e] = IF e \in fired THEN "None" ELSE deadline[e]
        /\ got'[e] = IF Queues(e) THEN got[e] \o SubSeq(Available(e), 1, takes[e]) ELSE got[e]
    BY <1>1
  <2> QED BY <1>3, <1>4, <2>1, <2>2 DEF Scanned
<1>6. /\ triggered' = [e \in Events |-> triggered'[e]]
      /\ current' = [e \in Events |-> current'[e]]
      /\ pending' = [e \in Events |-> pending'[e]]
  BY <1>1
<1>7. /\ deadline' = [e \in Events |-> deadline'[e]]
      /\ got' = [e \in Events |-> got'[e]]
  BY <1>1
<1> QED BY <1>1, <1>2, <1>4, <1>5, <1>6, <1>7

\* A queueing event keeps exactly what the scan did not take of it.
LEMMA ScanQueueing ==
    ASSUME EInv, kind' = kind, NEW e \in Events, Queues(e),
           NEW n \in 0..Len(Available(e)), Scanned(e, n)
    PROVE  /\ current'[e] \in 0..MaxStamp /\ pending'[e] \in Seq(1..MaxStamp)
           /\ triggered'[e] \in BOOLEAN /\ got'[e] \in Seq(0..MaxStamp)
           /\ ~triggered'[e] => pending'[e] = <<>>
           /\ triggered'[e] => Up(e)
           /\ got'[e] \o Held(e)' = got[e] \o Held(e)
<1> PICK N, M : N = 0..MaxStamp /\ M = 1..MaxStamp
  OBVIOUS
<1>0. /\ current[e] \in N /\ pending[e] \in Seq(M) /\ got[e] \in Seq(N)
      /\ triggered[e] \in BOOLEAN /\ M \subseteq N /\ 0 \in N
      /\ ~triggered[e] => pending[e] = <<>>
  BY EventAssumption DEF EInv, EventTypes, Clean
<1>1. pending[e] \in Seq(N)
  BY ONLY <1>0, SeqMonotonic
<1>2. Available(e) = Held(e) /\ (Up(e) <=> triggered[e]) /\ Held(e) \in Seq(N)
  BY AvailableHeld
<1>3. kind[e] \notin {"Timer", "Level", "Fd"}
  BY DEF Queues
<1> DEFINE p == pending[e]
           c == current[e]
           a == Available(e)
<1>4. /\ triggered'[e] = IF n > 0 THEN Rest(e, n) # <<>> ELSE Up(e)
      /\ current'[e] = IF ~(n > 0) THEN c
                       ELSE IF Rest(e, n) = <<>> THEN 0 ELSE Head(Rest(e, n))
      /\ pending'[e] = IF ~(n > 0) \/ p = <<>> THEN p ELSE SubSeq(p, n + 1, Len(p))
      /\ got'[e] = got[e] \o SubSeq(a, 1, n)
  BY <1>3 DEF Scanned
<1>5. Rest(e, n) = SubSeq(a, n + 1, Len(a))
  BY DEF Rest
<1>6. a \in Seq(N) /\ n \in 0..Len(a)
  BY <1>2
<1>7. /\ SubSeq(a, 1, n) \in Seq(N) /\ Rest(e, n) \in Seq(N)
      /\ got[e] \o a = (got[e] \o SubSeq(a, 1, n)) \o Rest(e, n)
  <2> HIDE DEF a
  <2>1. SubSeq(a, 1, n) \in Seq(N) /\ SubSeq(a, n + 1, Len(a)) \in Seq(N)
    BY ONLY <1>6, SplitAt
  <2>2. got[e] \o a = (got[e] \o SubSeq(a, 1, n)) \o SubSeq(a, n + 1, Len(a))
    BY ONLY <1>0, <1>6, TakeFront
  <2> QED BY ONLY <1>5, <2>1, <2>2
<1>8. got'[e] \in Seq(N)
  BY <1>0, <1>4, <1>7, ConcatProperties
<1>9. CASE n = 0
  <2>1. /\ triggered'[e] \in BOOLEAN /\ (triggered'[e] <=> triggered[e])
        /\ current'[e] = c /\ pending'[e] = p
    <3>1. triggered'[e] = Up(e) /\ current'[e] = c /\ pending'[e] = p
      BY <1>4, <1>9
    <3>2. Up(e) \in BOOLEAN
      BY DEF Up
    <3> QED BY <1>2, <3>1, <3>2
  <2>2. Held(e)' = a
    BY <1>2, <2>1 DEF Held
  <2>3. Rest(e, n) = a
    <3> HIDE DEF a
    <3>1. SubSeq(a, 1, Len(a)) = a
      BY ONLY <1>6, SubSeqFull
    <3> QED BY <1>5, <1>9, <3>1
  <2>4. got'[e] \o Held(e)' = got[e] \o Held(e)
    BY <1>2, <1>4, <1>7, <2>2, <2>3
  <2> QED BY <1>0, <1>2, <1>8, <2>1, <2>4
<1>10. CASE n > 0
  <2>1. triggered[e] /\ Up(e)
    BY <1>2, <1>6, <1>10 DEF Held
  <2>2. a = <<c>> \o p
    BY <1>2, <2>1 DEF Held
  <2>3. Len(a) = Len(p) + 1 /\ Len(p) \in Nat
    BY <1>0, <2>2
  <2>4. n \in 1..(Len(p) + 1)
    BY <1>6, <1>10, <2>3
  <2>5. Rest(e, n) = IF n = Len(p) + 1 THEN <<>> ELSE <<p[n]>> \o SubSeq(p, n + 1, Len(p))
    <3> HIDE DEF p, c, a
    <3>1. p \in Seq(N) /\ c \in N
      BY <1>0, <1>1 DEF p, c
    <3>2. SubSeq(<<c>> \o p, n + 1, Len(<<c>> \o p))
             = IF n = Len(p) + 1 THEN <<>> ELSE <<p[n]>> \o SubSeq(p, n + 1, Len(p))
      BY ONLY <2>4, <3>1, TakeCurrent
    <3> QED BY ONLY <1>5, <2>2, <3>2
  <2>6. CASE n = Len(p) + 1
    <3>1. Rest(e, n) = <<>> /\ triggered'[e] = FALSE /\ current'[e] = 0
      BY <1>4, <1>10, <2>5, <2>6
    <3>2. pending'[e] = <<>>
      <4>1. SubSeq(p, n + 1, Len(p)) = <<>>
        BY <2>3, <2>6, SubSeqEmpty
      <4> QED BY <1>4, <1>10, <4>1
    <3>3. Held(e)' = Rest(e, n)
      BY <3>1 DEF Held
    <3>4. got'[e] \o Held(e)' = got[e] \o Held(e)
      BY <1>2, <1>4, <1>7, <3>3
    <3>5. <<>> \in Seq(M)
      OBVIOUS
    <3> QED BY <1>0, <1>8, <2>1, <3>1, <3>2, <3>4, <3>5
  <2>7. CASE n # Len(p) + 1
    <3>1. n \in 1..Len(p) /\ p # <<>>
      BY <2>3, <2>4, <2>7
    <3> PICK q : q = SubSeq(p, n + 1, Len(p))
      OBVIOUS
    <3>2. p[n] \in M /\ p[n] \in N /\ q \in Seq(M)
      <4> HIDE DEF p
      <4>1. p \in Seq(M)
        BY <1>0 DEF p
      <4>2. p[n] \in M /\ q \in Seq(M)
        BY ONLY <3>1, <4>1, n \in 0..Len(p), q = SubSeq(p, n + 1, Len(p)), ElementOfSeq, SplitAt
      <4> QED BY <1>0, <4>2
    <3>3. Rest(e, n) = <<p[n]>> \o q
      BY <2>5, <2>7
    <3>4. <<p[n]>> \o q # <<>> /\ Head(<<p[n]>> \o q) = p[n]
      BY <3>2
    <3>5. triggered'[e] = TRUE /\ current'[e] = p[n] /\ pending'[e] = q
      BY <1>4, <1>10, <3>1, <3>3, <3>4
    <3>6. Held(e)' = Rest(e, n)
      BY <3>3, <3>5 DEF Held
    <3>7. got'[e] \o Held(e)' = got[e] \o Held(e)
      BY <1>2, <1>4, <1>7, <3>6
    <3> QED BY <1>8, <2>1, <3>2, <3>5, <3>7
  <2> QED BY <2>6, <2>7
<1>11. n = 0 \/ n > 0
  BY <1>6
<1> QED BY <1>9, <1>10, <1>11

\* Any other event has at most one result, and nothing queues up behind it.
LEMMA ScanOthers ==
    ASSUME EInv, kind' = kind, sent' = sent, NEW e \in Events, ~Queues(e),
           NEW n \in 0..Len(Available(e)), Scanned(e, n)
    PROVE  /\ current'[e] \in 0..MaxStamp /\ pending'[e] = <<>>
           /\ triggered'[e] \in BOOLEAN /\ got'[e] = <<>>
           /\ ~Registered(e)' => ~triggered'[e]
<1>0. /\ current[e] \in 0..MaxStamp /\ 0 \in 0..MaxStamp /\ pending[e] = <<>> /\ got[e] = <<>>
      /\ ~Registered(e) => ~triggered[e]
  BY EventAssumption DEF EInv, EventTypes, Clean
<1>1. got'[e] = <<>> /\ pending'[e] = <<>>
  BY <1>0 DEF Scanned
<1>2. n > 0 => n = 1 /\ Available(e) = <<current[e]>>
  BY DEF Available
<1>3. n > 0 => Rest(e, n) = <<>>
  <2>1. SubSeq(<<current[e]>>, 1 + 1, 1) = <<>> /\ Len(<<current[e]>>) = 1
    BY SubSeqEmpty
  <2> QED BY <1>2, <2>1 DEF Rest
<1>4. current'[e] \in 0..MaxStamp
  <2>1. CASE n > 0
    BY <1>0, <1>3, <2>1 DEF Scanned
  <2>2. CASE ~(n > 0)
    BY <1>0, <2>2 DEF Scanned
  <2> QED BY <2>1, <2>2
<1>5. triggered'[e] \in BOOLEAN /\ (triggered'[e] => Up(e) /\ ~(kind[e] = "Timer" /\ n > 0))
  <2>1. Up(e) \in BOOLEAN /\ (Rest(e, n) # <<>>) \in BOOLEAN
    BY DEF Up
  <2>2. CASE kind[e] = "Timer" /\ n > 0
    BY <2>2 DEF Scanned
  <2>3. CASE ~(kind[e] = "Timer" /\ n > 0) /\ kind[e] \notin {"Timer", "Level"} /\ n > 0
    BY <1>3, <2>3 DEF Scanned
  <2>4. CASE ~(kind[e] = "Timer" /\ n > 0) /\ ~(kind[e] \notin {"Timer", "Level"} /\ n > 0)
    BY <2>1, <2>4 DEF Scanned
  <2> QED BY <2>2, <2>3, <2>4
<1>6. ~Registered(e)' => ~triggered'[e]
  <2>1. Registered(e)' <=> (Registered(e) /\ ~(kind[e] = "Timer" /\ n > 0))
    BY DEF Scanned
  <2>2. Up(e) => Registered(e)
    BY DEF Up
  <2> QED BY <1>5, <2>1, <2>2
<1> QED BY <1>1, <1>4, <1>5, <1>6

LEMMA ScanEInv ==
    ASSUME EInv, NEW t \in Threads, Scan(t)
    PROVE  EInv'
<1>0. /\ deadline \in [Events -> {"None", "Running", "Passed"}]
      /\ sent \in [Events -> Seq(0..MaxStamp)]
  BY DEF EInv, EventTypes
<1>1. /\ order' \in Seq(Events) /\ IsInjective(order')
      /\ triggered' = [e \in Events |-> triggered'[e]]
      /\ current' = [e \in Events |-> current'[e]]
      /\ pending' = [e \in Events |-> pending'[e]]
      /\ deadline' = [e \in Events |-> deadline'[e]]
      /\ got' = [e \in Events |-> got'[e]]
      /\ kind' = kind /\ sent' = sent
  BY ScanFacts
<1>2. \A e \in Events : \E n \in 0..Len(Available(e)) : Scanned(e, n)
  BY ScanFacts
<1>3. ASSUME NEW e \in Events
      PROVE  /\ triggered'[e] \in BOOLEAN /\ current'[e] \in 0..MaxStamp
             /\ pending'[e] \in Seq(1..MaxStamp) /\ got'[e] \in Seq(0..MaxStamp)
             /\ deadline'[e] \in {"None", "Running", "Passed"}
             /\ Clean(e)' /\ Accounted(e)'
  <2> PICK n \in 0..Len(Available(e)) : Scanned(e, n)
    BY <1>2
  <2>0. Clean(e) /\ Accounted(e)
    BY DEF EInv
  <2>1. /\ deadline'[e] = IF kind[e] = "Timer" /\ n > 0 THEN "None" ELSE deadline[e]
        /\ Registered(e)' <=> (Registered(e) /\ ~(kind[e] = "Timer" /\ n > 0))
    BY DEF Scanned
  <2>2. /\ deadline'[e] \in {"None", "Running", "Passed"}
        /\ deadline'[e] # "None" => kind[e] = "Timer"
    BY <1>0, <2>0, <2>1 DEF Clean
  <2>3. CASE Queues(e)
    <3>1. /\ current'[e] \in 0..MaxStamp /\ pending'[e] \in Seq(1..MaxStamp)
          /\ triggered'[e] \in BOOLEAN /\ got'[e] \in Seq(0..MaxStamp)
          /\ ~triggered'[e] => pending'[e] = <<>>
          /\ triggered'[e] => Up(e)
          /\ got'[e] \o Held(e)' = got[e] \o Held(e)
      BY <1>1, <2>3, ScanQueueing
    <3>2. kind[e] # "Timer"
      BY <2>3 DEF Queues
    <3>3. Accounted(e)'
      BY <1>1, <2>0, <2>3, <3>1 DEF Accounted
    <3>4. ~Registered(e)' => ~triggered'[e] /\ sent'[e] = <<>> /\ got'[e] = <<>>
      <4> SUFFICES ASSUME ~Registered(e)
                   PROVE  ~triggered'[e] /\ sent'[e] = <<>> /\ got'[e] = <<>>
        BY <2>1, <3>2
      <4>1. ~triggered'[e] /\ sent'[e] = <<>>
        BY <1>1, <2>0, <3>1 DEF Up, Clean
      <4>2. got[e] = <<>> /\ Held(e) = <<>> /\ Held(e)' = <<>>
        BY <2>0, <4>1 DEF Clean, Held
      <4>3. got'[e] \o <<>> = <<>> \o <<>>
        BY <3>1, <4>2
      <4>4. got'[e] \o <<>> = got'[e] /\ <<>> \o <<>> = <<>>
        BY ONLY <3>1
      <4> QED BY ONLY <4>1, <4>3, <4>4
    <3>5. Clean(e)'
      BY <1>1, <2>2, <2>3, <3>1, <3>4 DEF Clean, Queues
    <3> QED BY <2>2, <3>1, <3>3, <3>5
  <2>4. CASE ~Queues(e)
    <3>1. /\ current'[e] \in 0..MaxStamp /\ pending'[e] = <<>>
          /\ triggered'[e] \in BOOLEAN /\ got'[e] = <<>>
          /\ ~Registered(e)' => ~triggered'[e]
      BY <1>1, <2>4, ScanOthers
    <3>2. <<>> \in Seq(1..MaxStamp) /\ <<>> \in Seq(0..MaxStamp)
      OBVIOUS
    <3>3. Accounted(e)'
      BY <1>1, <2>4 DEF Accounted, Queues
    <3>4. Clean(e)'
      BY <1>1, <2>0, <2>2, <2>4, <3>1 DEF Clean, Queues
    <3> QED BY <2>2, <3>1, <3>2, <3>3, <3>4
  <2> QED BY <2>3, <2>4
<1>4. EventTypes'
  BY <1>0, <1>1, <1>3 DEF EventTypes
<1> QED BY <1>3, <1>4 DEF EInv

-----------------------------------------------------------------------------
(* The whole system.                                                       *)

LEMMA InitIInv == Init => IInv
<1> SUFFICES ASSUME Init PROVE IInv
  OBVIOUS
<1>0. MaxStamp \in Nat /\ <<>> \in Seq(0..MaxStamp) /\ <<>> \in Seq(1..MaxStamp)
      /\ <<>> \in Seq(Events) /\ <<>> \o <<>> = <<>>
  BY EventAssumption
<1>1. IsInjective(order)
  BY DEF Init, IsInjective
<1>2. EventTypes
  BY <1>0, <1>1 DEF Init, EventTypes
<1>3. TypeOK
  <2>1. /\ kind \in Mixes /\ registry \in BOOLEAN /\ closed \in BOOLEAN
        /\ eopList \subseteq Events
        /\ ret \in [Threads -> {"None", "Events", "TimedOut", "Closed"}]
    BY DEF Init
  <2>2. stamp \in 0..MaxStamp
    BY <1>0 DEF Init
  <2> QED BY <1>2, <2>1, <2>2 DEF EventTypes, TypeOK
<1>4. CallsOK
  BY DEF Init, CallsOK, Calls, Idle
<1>5. ASSUME NEW e \in Events PROVE Clean(e) /\ Accounted(e)
  BY <1>0 DEF Init, Clean, Accounted, Held
<1> QED BY <1>2, <1>3, <1>4, <1>5 DEF IInv, EInv

\* A step that leaves m_events alone preserves what holds of it.
LEMMA SameEvents ==
    ASSUME EInv, kind' = kind, UNCHANGED eventVars
    PROVE  EInv'
<1> USE DEF eventVars
<1>1. EventTypes'
  BY DEF EInv, EventTypes
<1>2. ASSUME NEW e \in Events PROVE Clean(e)' /\ Accounted(e)'
  BY DEF EInv, Clean, Accounted, Held, Queues, Registered
<1> QED BY <1>1, <1>2 DEF EInv

\* Once m_events is accounted for, the other variables remain.
LEMMA Rebuild ==
    ASSUME IInv, EInv', kind' = kind,
           registry' \in BOOLEAN, closed' \in BOOLEAN,
           ret' \in [Threads -> {"None", "Events", "TimedOut", "Closed"}],
           stamp' \in 0..MaxStamp, CallsOK'
    PROVE  IInv'
<1>1. TypeOK'
  BY DEF IInv, TypeOK, EInv, EventTypes, CallsOK
<1> QED BY <1>1 DEF IInv

\* The calls: what a thread may go on to.
LEMMA GotoOK ==
    ASSUME CallsOK, NEW t \in Threads, NEW c \in Calls, Goto(t, c),
           gpu' = gpu, stamp' \in Int, stamp \in Int, stamp' >= stamp,
           eopList' \subseteq Events
    PROVE  CallsOK'
<1>1. call' \in [Threads -> Calls]
  BY DEF CallsOK, Goto
<1>2. gpu'.at # "Idle" => stamp' >= 1
  BY DEF CallsOK
<1> QED BY <1>1, <1>2 DEF CallsOK

LEMMA CallRecords ==
    /\ Idle \in Calls /\ [at |-> "Close"] \in Calls
    /\ \A at \in EventCalls, e \in Events : [at |-> at, ev |-> e] \in Calls
    /\ \A at \in {"Scan", "Rescan", "Asleep"}, n \in Nums, w \in Waits :
          [at |-> at, num |-> n, wait |-> w] \in Calls
BY DEF Calls

\* A thread inside a call about an event has a record that names it.
LEMMA EventCall ==
    ASSUME CallsOK, NEW t \in Threads, call[t].at \in EventCalls
    PROVE  \E e \in Events : call[t] = [at |-> call[t].at, ev |-> e]
<1>1. call[t] \in Calls
  BY DEF CallsOK
<1>2. call[t] \in [at : EventCalls, ev : Events]
  BY <1>1 DEF Calls, Idle, EventCalls
<1> QED BY <1>2

\* A waiter's record keeps its arguments.
LEMMA WaitCall ==
    ASSUME CallsOK, NEW t \in Threads, call[t].at \in {"Scan", "Rescan", "Asleep"}
    PROVE  \E n \in Nums, w \in Waits : call[t] = [at |-> call[t].at, num |-> n, wait |-> w]
<1>1. call[t] \in Calls
  BY DEF CallsOK
<1>2. call[t] \in [at : {"Scan", "Rescan", "Asleep"}, num : Nums, wait : Waits]
  BY <1>1 DEF Calls, Idle, EventCalls
<1> QED BY <1>2

\* A call pins the queue, deletes it, or passes from one step to the next,
\* without touching m_events.
LEMMA PassIInv ==
    ASSUME IInv, NEW t \in Threads, NEW c \in Calls, Goto(t, c),
           registry' \in BOOLEAN, eopList' \subseteq Events,
           ret' \in [Threads -> {"None", "Events", "TimedOut", "Closed"}],
           UNCHANGED <<kind, closed, eventVars, gpu, stamp>>
    PROVE  IInv'
<1>0. closed \in BOOLEAN /\ stamp \in 0..MaxStamp /\ MaxStamp \in Nat /\ CallsOK /\ EInv
  BY EventAssumption DEF IInv, TypeOK
<1>1. EInv'
  BY <1>0, SameEvents
<1>2. stamp \in Int /\ stamp' = stamp /\ stamp >= stamp
  BY <1>0
<1>3. CallsOK'
  BY <1>0, <1>2, GotoOK
<1> QED BY <1>0, <1>1, <1>3, Rebuild

LEMMA BeginIInv ==
    ASSUME IInv, NEW t \in Threads, Begin(t)
    PROVE  IInv'
<1>0. /\ registry \in BOOLEAN /\ eopList \subseteq Events
      /\ ret \in [Threads -> {"None", "Events", "TimedOut", "Closed"}]
  BY DEF IInv, TypeOK
<1>1. PICK c \in Calls : Pin(t, c)
  BY CallRecords DEF Begin, EventCalls
<1> QED BY <1>0, <1>1, PassIInv DEF Pin

LEMMA DeleteEqueueIInv ==
    ASSUME IInv, NEW t \in Threads, DeleteEqueue(t)
    PROVE  IInv'
<1>0. /\ eopList \subseteq Events
      /\ ret \in [Threads -> {"None", "Events", "TimedOut", "Closed"}]
  BY DEF IInv, TypeOK
<1> QED BY <1>0, CallRecords, PassIInv DEF DeleteEqueue

\* The steps of Add that follow AddEvent, and those of a wait that do not
\* deliver, pass a record on with a new place in the code.
LEMMA RecordIInv ==
    ASSUME IInv, NEW t \in Threads,
           \/ AddEopPin(t) \/ AddEopPush(t) \/ FdReady(t)
           \/ ScanClosed(t) \/ ScanTimedOut(t) \/ Sleep(t) \/ Wake(t)
    PROVE  IInv'
<1>0. /\ registry \in BOOLEAN /\ eopList \subseteq Events /\ CallsOK
      /\ ret \in [Threads -> {"None", "Events", "TimedOut", "Closed"}]
  BY DEF IInv, TypeOK
<1>1. ASSUME AddEopPin(t) \/ FdReady(t) PROVE IInv'
  <2>1. call[t].at \in EventCalls
    BY <1>1 DEF AddEopPin, FdReady, EventCalls
  <2>2. PICK e \in Events : call[t] = [at |-> call[t].at, ev |-> e]
    BY <1>0, <2>1, EventCall
  <2>3. \A a \in EventCalls : [call[t] EXCEPT !.at = a] = [at |-> a, ev |-> e]
    BY <2>2
  <2>4. /\ [call[t] EXCEPT !.at = "Push"] \in Calls
        /\ [call[t] EXCEPT !.at = "Trigger"] \in Calls /\ Idle \in Calls
    BY <2>3, CallRecords DEF EventCalls
  <2>5. PICK c \in Calls : Goto(t, c)
    BY <1>1, <2>4 DEF AddEopPin, FdReady
  <2> QED BY <1>0, <1>1, <2>5, PassIInv DEF AddEopPin, FdReady
<1>2. ASSUME AddEopPush(t) PROVE IInv'
  <2>1. call[t].at \in EventCalls
    BY <1>2 DEF AddEopPush, EventCalls
  <2>2. PICK e \in Events : call[t] = [at |-> call[t].at, ev |-> e]
    BY <1>0, <2>1, EventCall
  <2>3. call[t].ev = e
    BY <2>2
  <2>4. eopList' \subseteq Events
    BY <1>0, <1>2, <2>3 DEF AddEopPush
  <2> QED BY <1>0, <1>2, <2>4, CallRecords, PassIInv DEF AddEopPush
<1>3. ASSUME ScanClosed(t) \/ ScanTimedOut(t) PROVE IInv'
  <2>1. ret' \in [Threads -> {"None", "Events", "TimedOut", "Closed"}]
    BY <1>0, <1>3 DEF ScanClosed, ScanTimedOut
  <2> QED BY <1>0, <1>3, <2>1, CallRecords, PassIInv DEF ScanClosed, ScanTimedOut
<1>4. ASSUME Sleep(t) \/ Wake(t) PROVE IInv'
  <2>1. call[t].at \in {"Scan", "Rescan", "Asleep"}
    BY <1>4 DEF Sleep, Wake
  <2>2. PICK n \in Nums, w \in Waits : call[t] = [at |-> call[t].at, num |-> n, wait |-> w]
    BY <1>0, <2>1, WaitCall
  <2>3. /\ [call[t] EXCEPT !.at = "Asleep"] = [at |-> "Asleep", num |-> n, wait |-> w]
        /\ [call[t] EXCEPT !.at = "Rescan"] = [at |-> "Rescan", num |-> n, wait |-> w]
    BY <2>2
  <2>4. PICK c \in Calls : Goto(t, c)
    BY <1>4, <2>3, CallRecords DEF Sleep, Wake
  <2> QED BY <1>0, <1>4, <2>4, PassIInv DEF Sleep, Wake
<1> QED BY <1>1, <1>2, <1>3, <1>4

\* A method that changes m_events.
LEMMA MethodIInv ==
    ASSUME IInv, NEW t \in Threads, NEW c \in Calls, Goto(t, c), EInv',
           closed' \in BOOLEAN, eopList' \subseteq Events,
           ret' \in [Threads -> {"None", "Events", "TimedOut", "Closed"}],
           stamp' \in 0..MaxStamp, stamp' >= stamp,
           UNCHANGED <<kind, registry, gpu>>
    PROVE  IInv'
<1>0. registry \in BOOLEAN /\ stamp \in 0..MaxStamp /\ MaxStamp \in Nat /\ CallsOK
  BY EventAssumption DEF IInv, TypeOK
<1>1. stamp \in Int /\ stamp' \in Int
  BY <1>0
<1>2. CallsOK'
  BY <1>0, <1>1, GotoOK
<1> QED BY <1>0, <1>2, Rebuild

LEMMA AddEventIInv ==
    ASSUME IInv, NEW t \in Threads, AddEvent(t)
    PROVE  IInv'
<1>0. /\ registry \in BOOLEAN /\ closed \in BOOLEAN /\ eopList \subseteq Events
      /\ ret \in [Threads -> {"None", "Events", "TimedOut", "Closed"}]
      /\ stamp \in 0..MaxStamp /\ stamp >= stamp /\ CallsOK /\ EInv
  BY EventAssumption DEF IInv, TypeOK
<1>1. call[t].at \in EventCalls
  BY DEF AddEvent, EventCalls
<1>2. PICK e \in Events : call[t] = [at |-> call[t].at, ev |-> e]
  BY <1>0, <1>1, EventCall
<1>3. call[t].ev = e
  BY <1>2
<1>4. UNCHANGED <<kind, registry, closed, eopList, gpu, ret, stamp>>
  BY DEF AddEvent
<1>5. CASE closed
  <2>1. Goto(t, Idle) /\ UNCHANGED eventVars
    BY <1>5 DEF AddEvent
  <2> QED BY <1>0, <1>4, <2>1, CallRecords, PassIInv
<1>6. CASE ~closed
  <2>1. /\ Goto(t, AfterAdd(e))
        /\ deadline' = [deadline EXCEPT ![e] =
                            IF kind[e] = "Timer" THEN "Running" ELSE "None"]
        /\ order' = IF Registered(e) THEN order ELSE Append(order, e)
        /\ UNCHANGED <<triggered, current, pending, sent, got>>
    BY <1>3, <1>6 DEF AddEvent
  <2>2. EInv'
    BY <1>0, <1>4, <2>1, AddEInv
  <2>3. AfterAdd(e) \in Calls
    <3>1. AfterAdd(e) \in {[at |-> "AddEop", ev |-> e], [at |-> "FdReady", ev |-> e], Idle}
      BY DEF AfterAdd
    <3> QED BY <3>1, CallRecords DEF EventCalls
  <2> QED BY <1>0, <1>4, <2>1, <2>2, <2>3, MethodIInv
<1> QED BY <1>5, <1>6

LEMMA TriggerEventIInv ==
    ASSUME IInv, NEW t \in Threads, TriggerEvent(t)
    PROVE  IInv'
<1>0. /\ registry \in BOOLEAN /\ closed \in BOOLEAN /\ eopList \subseteq Events
      /\ ret \in [Threads -> {"None", "Events", "TimedOut", "Closed"}]
      /\ stamp \in 0..MaxStamp /\ CallsOK /\ EInv /\ MaxStamp \in Nat
  BY EventAssumption DEF IInv, TypeOK
<1>1. /\ Goto(t, Idle) /\ stamp < MaxStamp /\ stamp' = stamp + 1
      /\ UNCHANGED <<kind, registry, closed, eopList, gpu, ret>>
  BY DEF TriggerEvent
<1>2. stamp' \in 1..MaxStamp /\ stamp' \in 0..MaxStamp /\ stamp' >= stamp
  BY <1>0, <1>1
<1>3. EInv'
  <2>1. CASE ~closed /\ Registered(call[t].ev)
    <3>1. Trigger(call[t].ev, stamp')
      BY <2>1 DEF TriggerEvent
    <3> PICK e, s : e = call[t].ev /\ s = stamp'
      OBVIOUS
    <3>2. Trigger(e, s) /\ Registered(e) /\ s \in 1..MaxStamp
      BY <1>2, <2>1, <3>1 DEF Trigger
    <3> QED BY <1>0, <1>1, <3>2, TriggerEInv
  <2>2. CASE ~(~closed /\ Registered(call[t].ev))
    <3>1. UNCHANGED eventVars
      BY <2>2 DEF TriggerEvent
    <3> QED BY <1>0, <1>1, <3>1, SameEvents
  <2> QED BY <2>1, <2>2
<1> QED BY <1>0, <1>1, <1>2, <1>3, CallRecords, MethodIInv

LEMMA EraseIInv ==
    ASSUME IInv, NEW t \in Threads, DeleteEvent(t) \/ Close(t)
    PROVE  IInv'
<1>0. /\ registry \in BOOLEAN /\ closed \in BOOLEAN /\ eopList \subseteq Events
      /\ ret \in [Threads -> {"None", "Events", "TimedOut", "Closed"}]
      /\ stamp \in 0..MaxStamp /\ stamp >= stamp /\ EInv
  BY EventAssumption DEF IInv, TypeOK
<1>1. /\ Goto(t, Idle) /\ UNCHANGED <<kind, registry, gpu, ret, stamp>>
      /\ closed' \in BOOLEAN /\ eopList' \subseteq Events
  BY <1>0 DEF DeleteEvent, Close
<1>2. PICK S : Erase(S)
  BY DEF DeleteEvent, Close
<1>3. EInv'
  BY <1>0, <1>1, <1>2, EraseEInv
<1> QED BY <1>0, <1>1, <1>3, CallRecords, MethodIInv

LEMMA ScanIInv ==
    ASSUME IInv, NEW t \in Threads, Scan(t)
    PROVE  IInv'
<1>0. /\ registry \in BOOLEAN /\ closed \in BOOLEAN /\ eopList \subseteq Events
      /\ ret \in [Threads -> {"None", "Events", "TimedOut", "Closed"}]
      /\ stamp \in 0..MaxStamp /\ stamp >= stamp /\ EInv
  BY EventAssumption DEF IInv, TypeOK
<1>1. /\ Goto(t, Idle) /\ UNCHANGED <<kind, registry, closed, eopList, gpu, stamp>>
      /\ ret' = [ret EXCEPT ![t] = "Events"]
  BY DEF Scan
<1>2. ret' \in [Threads -> {"None", "Events", "TimedOut", "Closed"}]
  BY <1>0, <1>1
<1>3. EInv'
  BY <1>0, ScanEInv
<1> QED BY <1>0, <1>1, <1>2, <1>3, CallRecords, MethodIInv

LEMMA TimerPassesIInv ==
    ASSUME IInv, NEW e \in Events, TimerPasses(e)
    PROVE  IInv'
<1> USE DEF TimerPasses
<1>0. EInv /\ CallsOK /\ deadline \in [Events -> {"None", "Running", "Passed"}]
  BY DEF IInv, TypeOK
<1>1. EventTypes'
  BY DEF EInv, EventTypes, IInv
<1>2. ASSUME NEW x \in Events PROVE Clean(x)' /\ Accounted(x)'
  <2>1. Clean(x) /\ Accounted(x)
    BY <1>0 DEF EInv
  <2>2. deadline'[x] # "None" => deadline[x] # "None"
    BY <1>0
  <2> QED BY <2>1, <2>2 DEF Clean, Accounted, Held, Queues, Registered
<1>3. EInv'
  BY <1>1, <1>2 DEF EInv
<1>4. CallsOK'
  BY <1>0 DEF CallsOK
<1> QED BY <1>3, <1>4, Rebuild DEF IInv, TypeOK

\* A step of the GPU thread.
LEMMA GpuStepIInv ==
    ASSUME IInv, EInv', eopList' \subseteq Events,
           stamp' \in 0..MaxStamp, gpu'.at # "Idle" => stamp' >= 1,
           gpu' \in [at : {"Idle", "Next", "All"}, todo : SUBSET Events]
                    \cup [at : {"Next", "Trigger", "Prune"}, todo : SUBSET Events,
                          ev : Events, stamp : 1..MaxStamp],
           UNCHANGED <<kind, registry, closed, call, ret>>
    PROVE  IInv'
<1>1. CallsOK'
  BY DEF IInv, CallsOK
<1> QED BY <1>1, Rebuild DEF IInv, TypeOK

\* While it goes through its list, the GPU thread is about one event of it.
LEMMA GpuRecord ==
    ASSUME CallsOK, gpu.at \in {"Trigger", "Prune"}
    PROVE  \E td \in SUBSET Events, e \in Events, s \in 1..MaxStamp :
              gpu = [at |-> gpu.at, todo |-> td, ev |-> e, stamp |-> s]
<1>1. gpu \in [at : {"Next", "Trigger", "Prune"}, todo : SUBSET Events,
               ev : Events, stamp : 1..MaxStamp]
  BY DEF CallsOK
<1> QED BY <1>1

LEMMA GpuIInv ==
    ASSUME IInv, Gpu
    PROVE  IInv'
<1>0. /\ eopList \subseteq Events /\ stamp \in 0..MaxStamp /\ CallsOK /\ EInv
      /\ MaxStamp \in Nat /\ (gpu.at # "Idle" => stamp >= 1)
  BY EventAssumption DEF IInv, TypeOK, CallsOK
<1>1. CASE GpuBegin
  <2>1. EInv'
    BY <1>0, <1>1, SameEvents DEF GpuBegin
  <2>2. stamp' \in 0..MaxStamp /\ stamp' >= 1
    BY <1>0, <1>1 DEF GpuBegin
  <2>3. gpu' \in [at : {"Idle", "Next", "All"}, todo : SUBSET Events]
    BY <1>0, <1>1 DEF GpuBegin
  <2> QED BY <1>0, <1>1, <2>1, <2>2, <2>3, GpuStepIInv DEF GpuBegin
<1>2. ASSUME NEW e \in Events, GpuPin(e) PROVE IInv'
  <2>1. EInv'
    BY <1>0, <1>2, SameEvents DEF GpuPin
  <2>2. stamp' = stamp /\ stamp \in 1..MaxStamp
    BY <1>0, <1>2 DEF GpuPin
  <2>3. gpu.todo \subseteq Events
    BY <1>0 DEF CallsOK
  <2>4. gpu' \in [at : {"Next", "Trigger", "Prune"}, todo : SUBSET Events,
                  ev : Events, stamp : 1..MaxStamp]
    BY <1>2, <2>2, <2>3 DEF GpuPin
  <2> QED BY <1>0, <1>2, <2>1, <2>2, <2>4, GpuStepIInv DEF GpuPin
<1>3. CASE GpuTrigger
  <2>1. PICK td \in SUBSET Events, e \in Events, s \in 1..MaxStamp :
           gpu = [at |-> gpu.at, todo |-> td, ev |-> e, stamp |-> s]
    BY <1>0, <1>3, GpuRecord DEF GpuTrigger
  <2>2. gpu.ev = e /\ gpu.stamp = s /\ gpu.at = "Trigger"
    BY <1>3, <2>1 DEF GpuTrigger
  <2>3. gpu' \in [at : {"Next", "Trigger", "Prune"}, todo : SUBSET Events,
                  ev : Events, stamp : 1..MaxStamp]
    <3>1. gpu' = [gpu EXCEPT !.at = "Next"] \/ gpu' = [gpu EXCEPT !.at = "Prune"]
      BY <1>3 DEF GpuTrigger
    <3>2. /\ [gpu EXCEPT !.at = "Next"] = [at |-> "Next", todo |-> td, ev |-> e, stamp |-> s]
          /\ [gpu EXCEPT !.at = "Prune"] = [at |-> "Prune", todo |-> td, ev |-> e, stamp |-> s]
      BY <2>1
    <3> QED BY <3>1, <3>2
  <2>4. UNCHANGED <<kind, registry, closed, eopList, call, ret, stamp>>
    BY <1>3 DEF GpuTrigger
  <2>5. EInv'
    <3>1. CASE ~closed /\ Registered(gpu.ev)
      <4>1. Trigger(e, s) /\ Registered(e)
        BY <1>3, <2>2, <3>1 DEF GpuTrigger
      <4> QED BY <1>0, <2>4, <4>1, TriggerEInv
    <3>2. CASE ~(~closed /\ Registered(gpu.ev))
      <4>1. UNCHANGED eventVars
        BY <1>3, <3>2 DEF GpuTrigger
      <4> QED BY <1>0, <2>4, <4>1, SameEvents
    <3> QED BY <3>1, <3>2
  <2> QED BY <1>0, <2>2, <2>3, <2>4, <2>5, GpuStepIInv
<1>4. CASE GpuPrune
  <2>1. PICK td \in SUBSET Events, e \in Events, s \in 1..MaxStamp :
           gpu = [at |-> gpu.at, todo |-> td, ev |-> e, stamp |-> s]
    BY <1>0, <1>4, GpuRecord DEF GpuPrune
  <2>2. gpu' = [at |-> "Next", todo |-> td, ev |-> e, stamp |-> s]
    BY <1>4, <2>1 DEF GpuPrune
  <2>3. gpu' \in [at : {"Next", "Trigger", "Prune"}, todo : SUBSET Events,
                  ev : Events, stamp : 1..MaxStamp]
    BY <2>2
  <2>4. EInv'
    BY <1>0, <1>4, SameEvents DEF GpuPrune
  <2>5. gpu.at # "Idle" /\ eopList' \subseteq Events
    BY <1>0, <1>4 DEF GpuPrune
  <2> QED BY <1>0, <1>4, <2>3, <2>4, <2>5, GpuStepIInv DEF GpuPrune
<1>5. CASE GpuPinAll
  <2>1. EInv'
    BY <1>0, <1>5, SameEvents DEF GpuPinAll
  <2>2. gpu.at # "Idle" /\ gpu' \in [at : {"Idle", "Next", "All"}, todo : SUBSET Events]
    BY <1>5 DEF GpuPinAll
  <2> QED BY <1>0, <1>5, <2>1, <2>2, GpuStepIInv DEF GpuPinAll
<1>6. CASE GpuTriggerAll
  <2>1. /\ gpu.at = "All" /\ gpu' = [gpu EXCEPT !.at = "Idle"]
        /\ UNCHANGED <<kind, registry, closed, eopList, call, ret, stamp>>
    BY <1>6 DEF GpuTriggerAll
  <2>2. gpu' \in [at : {"Idle", "Next", "All"}, todo : SUBSET Events] /\ gpu'.at = "Idle"
    BY <1>0, <2>1 DEF CallsOK
  <2>3. stamp \in 1..MaxStamp
    BY <1>0, <2>1
  <2>4. EInv'
    <3>1. (Trigger(AgcEvent, stamp) /\ Registered(AgcEvent)) \/ UNCHANGED eventVars
      BY <1>6 DEF GpuTriggerAll
    <3> QED BY <1>0, <2>1, <2>3, <3>1, SameEvents, TriggerEInv
  <2> QED BY <1>0, <2>1, <2>2, <2>4, GpuStepIInv
<1> QED BY <1>1, <1>2, <1>3, <1>4, <1>5, <1>6 DEF Gpu

\* Every step of the queue, its callers and the GPU thread preserves the invariant.
LEMMA NextIInv == IInv /\ [Next]_vars => IInv'
<1> SUFFICES ASSUME IInv, [Next]_vars PROVE IInv'
  OBVIOUS
<1>1. ASSUME NEW t \in Threads, Method(t) \/ Waiting(t) PROVE IInv'
  BY <1>1, AddEventIInv, RecordIInv, TriggerEventIInv, EraseIInv, ScanIInv DEF Method, Waiting
<1>2. CASE UNCHANGED vars
  <2>1. EInv'
    BY <1>2, SameEvents DEF vars, IInv
  <2>2. CallsOK'
    BY <1>2 DEF vars, IInv, CallsOK
  <2> QED BY <1>2, <2>1, <2>2, Rebuild DEF vars, IInv, TypeOK
<1> QED BY <1>1, <1>2, BeginIInv, DeleteEqueueIInv, TimerPassesIInv, GpuIInv DEF Next

\* The inductive invariant holds in every reachable state of the queue.
THEOREM IInvHolds == Spec => []IInv
BY InitIInv, NextIInv, PTL DEF Spec

\* The variables keep their types and m_events never lists an event twice,
\* however adding, deleting, delivering and closing interleave.
THEOREM QueueTypeCorrect == Spec => []TypeOK
<1>1. IInv => TypeOK
  BY DEF IInv
<1> QED BY IInvHolds, <1>1, PTL

\* Every trigger of a queueing event is delivered exactly once and in order,
\* for any number of waiters, events and pending triggers, and whatever
\* number of results each waiter asks for.
THEOREM DeliveredExactlyOnce == Spec => []ExactlyOnce
<1>1. IInv => ExactlyOnce
  <2> SUFFICES ASSUME IInv, NEW e \in Events, Queues(e), Registered(e)
               PROVE  sent[e] = got[e] \o Available(e)
    BY DEF ExactlyOnce
  <2>1. EInv /\ Accounted(e)
    BY DEF IInv, EInv
  <2>2. Available(e) = Held(e)
    BY <2>1, AvailableHeld
  <2> QED BY <2>1, <2>2 DEF Accounted
<1> QED BY IInvHolds, <1>1, PTL
=============================================================================
