----------------------------- MODULE ReportsProofs -----------------------------
(***************************************************************************)
(* Proofs about a request on the engine's thread (Reports), of every model,*)
(* every request and every length of a run.  A run is a sequence that the  *)
(* pipelines put together out of parts (Pipelines), so what is left of it  *)
(* is nothing an invariant can list: instead each part is shown to lead    *)
(* from one count to another (Leads), by what every entry of it does to    *)
(* the count (Takes); parts one after the other lead from the first to the *)
(* last (Joined, PartsLead), and the invariant says that what is left of   *)
(* the run leads from what has been counted to what the whole was to come  *)
(* to.  There are four counts: of the work since a look, the steps and the *)
(* draws; and, of the bar, of what a picture or layers have shown, of what *)
(* a reading has said, and of what a conversion has drawn and sounded.     *)
(***************************************************************************)
EXTENDS Reports, Sums, SequenceTheorems

\* What an entry of a run does to what is counted of it: its work since a look at the stop, at most;
\* the steps it walked; and of each generator the numbers drawn since it was seeded, or Unseeded.
Unseeded == -1
Place(gen) == IF gen = "host" THEN 3 ELSE 4
Near(r) == 2 + Unreported(r)
CountGoes(r, op, a, b) ==
  op.do # "fail" =>
    /\ b = <<b[1], b[2], b[3], b[4]>> /\ b[1] \in 0..Near(r)
    /\ op.do \notin {"look", "hand"} => b[1] >= (IF op.do = "work" THEN a[1] + 1 ELSE a[1])
    /\ b[2] = IF op.do = "work" /\ op.what = "step" THEN a[2] + 1 ELSE a[2]
    /\ \A p \in {3, 4} :
         b[p] = CASE op.do = "seed" /\ Place(op.gen) = p -> 0
                  [] op.do = "draw" /\ Place(op.gen) = p -> a[p] + 1
                  [] OTHER -> a[p]
    /\ op.do \in {"seed", "draw"} => op.gen \in {"host", "device"}
    /\ op.do = "draw" => a[Place(op.gen)] \in Nat /\ a[Place(op.gen)] = DrawPlace(r, op.on)

\* And what it does to the bar. Of a picture, and of layers: as far along as that may be, which no
\* report is behind; but for the decode of a release that walks more steps than it was asked for.
Part == Nat \X (Nat \ {0})
Shown(r, step) == IF r.kind = "draw" THEN Drawn(step, r.steps) ELSE Layered(step, r.steps, r.dsteps)
WalksMore(r) == r.kind = "draw" /\ Schedule(r.steps, r.fixed) > Larger(r.steps, 1)
Reports(op) == op.do \in {"tell", "look"}
ShownTakes(r, op, a, b) ==
  op.do # "fail" =>
    /\ a \in Part /\ b \in Part
    /\ ~Reports(op) => AtMost(a, b)
    /\ Reports(op) =>
         /\ Shown(r, op.step) \in Part /\ AtMost(Shown(r, op.step), b)
         /\ AtMost(a, Shown(r, op.step)) \/ (WalksMore(r) /\ op.step.at = "Decoding")

\* Of a reading: how many tokens have been said, and whether the vocoder has begun.
Expected(r) == IF r.model = "tones" THEN Total(Says(r.pieces)) ELSE Expects(r.pieces)
SaidTakes(r, op, a, b) ==
  op.do # "fail" =>
    /\ ~Reports(op) => b = a
    /\ Reports(op) =>
         \/ op.step = Reading /\ a = <<0, FALSE>> /\ b = a
         \/ /\ a[1] \in Nat /\ b = <<a[1] + 1, a[2]>> /\ (r.streaming \/ ~a[2])
            /\ op.step = [at |-> "Saying", done |-> b[1], expected |-> Larger(Expected(r), b[1])]
         \/ op.step = Sounding /\ b = <<a[1], TRUE>>

\* Of a conversion: the steps drawn, and the windows sounded at most, and at least.
HeardTakes(r, op, a, b) ==
  op.do # "fail" =>
    /\ ~Reports(op) => b = a
    /\ Reports(op) =>
         \/ op.step.at = "Listening" /\ b = a
         \/ /\ op.step = [at |-> "Drawing", done |-> b[1], total |-> Len(r.windows) * r.steps]
            /\ a[1] <= b[1] /\ a[2] <= b[2] /\ b = <<b[1], b[2], a[3]>>
            /\ b[1] \in 0..(Len(r.windows) * r.steps) /\ b[2] \in Nat
         \/ \E done \in a[2]..Len(r.windows) :
              /\ op.step = [at |-> "Sounding", done |-> done, total |-> Len(r.windows)]
              /\ b = <<a[1], b[2], b[3]>> /\ b[2] \in Nat /\ b[3] \in Nat /\ b[3] <= done /\ done <= b[2]

Counts(r) == [of |-> "counts", request |-> r]
Shows(r)  == [of |-> "shown", request |-> r]
SaysOf(r) == [of |-> "said", request |-> r]
Hears(r)  == [of |-> "heard", request |-> r]
Takes(m, op, a, b) ==
  CASE m.of = "counts" -> CountGoes(m.request, op, a, b)
    [] m.of = "shown"  -> ShownTakes(m.request, op, a, b)
    [] m.of = "said"   -> SaidTakes(m.request, op, a, b)
    [] m.of = "heard"  -> HeardTakes(m.request, op, a, b)

\* A run leads from one state to another where every entry of it takes the state before it to the
\* one after it.
IsRun(s) == \E S : s \in Seq(S)
Leads(m, s, a, b) ==
  /\ IsRun(s)
  /\ \E c : /\ c[0] = a /\ c[Len(s)] = b
            /\ \A i \in 1..Len(s) : Takes(m, s[i], c[i - 1], c[i])

\* Two runs, one after the other, are a run.
LEMMA RunsJoin ==
  ASSUME NEW s, IsRun(s), NEW t, IsRun(t)
  PROVE  /\ IsRun(s \o t) /\ Len(s) \in Nat /\ Len(t) \in Nat /\ Len(s \o t) = Len(s) + Len(t)
         /\ \A i \in 1..Len(s) : (s \o t)[i] = s[i]
         /\ \A i \in 1..Len(t) : (s \o t)[Len(s) + i] = t[i]
<1>1. PICK S, T : s \in Seq(S) /\ t \in Seq(T)
  BY DEF IsRun
<1>2. s \in Seq(S \cup T) /\ t \in Seq(S \cup T)
  BY <1>1, SeqMonotonic
<1> QED
  BY <1>2, ConcatProperties, LenProperties DEF IsRun

\* The run of nothing leads nowhere else.
LEMMA NothingLeads ==
  ASSUME NEW m, NEW a
  PROVE  Leads(m, <<>>, a, a)
<1> PICK c : c = [i \in {0} |-> a]
  OBVIOUS
<1>1. <<>> \in Seq({}) /\ Len(<<>>) = 0
  BY EmptySeq
<1>2. c[0] = a
  OBVIOUS
<1> QED
  BY <1>1, <1>2 DEF Leads, IsRun

\* An entry by itself leads where it takes.
LEMMA OneLeads ==
  ASSUME NEW m, NEW op, NEW a, NEW b, Takes(m, op, a, b)
  PROVE  Leads(m, <<op>>, a, b)
<1> PICK c : c = [i \in {0, 1} |-> IF i = 0 THEN a ELSE b]
  OBVIOUS
<1>1. <<op>> \in Seq({op}) /\ Len(<<op>>) = 1 /\ <<op>>[1] = op
  OBVIOUS
<1>2. c[0] = a /\ c[1] = b
  OBVIOUS
<1>3. \A i \in 1..Len(<<op>>) : Takes(m, <<op>>[i], c[i - 1], c[i])
  BY <1>1, <1>2
<1> QED
  BY <1>1, <1>2, <1>3 DEF Leads, IsRun

\* What leads on from where another led leads on from where that began.
LEMMA Joined ==
  ASSUME NEW m, NEW s, NEW t, NEW a, NEW b, NEW z, Leads(m, s, a, b), Leads(m, t, b, z)
  PROVE  Leads(m, s \o t, a, z)
<1>1. PICK c : /\ c[0] = a /\ c[Len(s)] = b
               /\ \A i \in 1..Len(s) : Takes(m, s[i], c[i - 1], c[i])
  BY DEF Leads
<1>2. PICK d : /\ d[0] = b /\ d[Len(t)] = z
               /\ \A i \in 1..Len(t) : Takes(m, t[i], d[i - 1], d[i])
  BY DEF Leads
<1>3. /\ IsRun(s \o t) /\ Len(s) \in Nat /\ Len(t) \in Nat /\ Len(s \o t) = Len(s) + Len(t)
      /\ \A i \in 1..Len(s) : (s \o t)[i] = s[i]
      /\ \A i \in 1..Len(t) : (s \o t)[Len(s) + i] = t[i]
  BY RunsJoin DEF Leads
<1> DEFINE e == [i \in 0..(Len(s) + Len(t)) |-> IF i <= Len(s) THEN c[i] ELSE d[i - Len(s)]]
<1>4. e[0] = a /\ e[Len(s \o t)] = z
  BY <1>1, <1>2, <1>3
<1>5. ASSUME NEW i \in 1..Len(s \o t) PROVE Takes(m, (s \o t)[i], e[i - 1], e[i])
  <2>1. CASE i <= Len(s)
    <3>1. e[i - 1] = c[i - 1] /\ e[i] = c[i] /\ i \in 1..Len(s)
      BY <1>3, <2>1
    <3> QED
      BY <1>1, <1>3, <3>1
  <2>2. CASE i > Len(s)
    <3>0. Len(s) \in Nat /\ Len(t) \in Nat /\ i \in 1..(Len(s) + Len(t))
      BY <1>3
    <3>1. PICK j \in 1..Len(t) : j = i - Len(s)
      <4>1. i - Len(s) \in 1..Len(t)
        BY <2>2, <3>0
      <4> QED
        BY <4>1
    <3>2. e[i - 1] = d[j - 1] /\ e[i] = d[j] /\ i = Len(s) + j
      <4>1. i = Len(s) + j /\ i - 1 = Len(s) + (j - 1)
        BY <3>0, <3>1
      <4>2. e[i] = d[j]
        BY <3>0, <3>1, <4>1
      <4>3. CASE j = 1
        BY <1>1, <1>2, <3>0, <4>1, <4>2, <4>3
      <4>4. CASE j # 1
        BY <3>0, <3>1, <4>1, <4>2, <4>4
      <4> QED
        BY <4>3, <4>4
    <3> QED
      BY <1>2, <1>3, <3>1, <3>2
  <2> QED
    BY <1>3, <2>1, <2>2
<1> QED
  BY <1>3, <1>4, <1>5 DEF Leads

\* What a run leads to, its first entry takes it towards.
LEMMA FirstTakes ==
  ASSUME NEW m, NEW s, NEW a, NEW z, Leads(m, s, a, z), s # <<>>
  PROVE  \E b : Takes(m, Head(s), a, b) /\ Leads(m, Tail(s), b, z)
<1>1. PICK S : s \in Seq(S)
  BY DEF Leads, IsRun
<1>2. PICK c : /\ c[0] = a /\ c[Len(s)] = z
               /\ \A i \in 1..Len(s) : Takes(m, s[i], c[i - 1], c[i])
  BY DEF Leads
<1>3. /\ Len(s) \in Nat \ {0} /\ Tail(s) \in Seq(S) /\ Len(Tail(s)) = Len(s) - 1
      /\ Head(s) = s[1] /\ \A i \in 1..Len(Tail(s)) : Tail(s)[i] = s[i + 1]
  BY <1>1, HeadTailProperties, EmptySeq
<1> DEFINE d == [i \in 0..Len(Tail(s)) |-> c[i + 1]]
<1>4. d[0] = c[1] /\ d[Len(Tail(s))] = z
  BY <1>2, <1>3
<1>5. ASSUME NEW i \in 1..Len(Tail(s)) PROVE Takes(m, Tail(s)[i], d[i - 1], d[i])
  <2>1. d[i - 1] = c[i] /\ d[i] = c[i + 1] /\ i + 1 \in 1..Len(s) /\ (i + 1) - 1 = i
    BY <1>3
  <2> QED
    BY <1>2, <1>3, <2>1
<1>6. Leads(m, Tail(s), c[1], z)
  BY <1>3, <1>4, <1>5 DEF Leads, IsRun
<1>7. Takes(m, Head(s), a, c[1])
  <2>1. Takes(m, s[1], c[1 - 1], c[1]) /\ 1 - 1 = 0
    BY <1>2, <1>3
  <2> QED
    BY <1>2, <1>3, <2>1
<1> QED
  BY <1>6, <1>7

\* And a run with nothing left of it has got there.
LEMMA NothingLed ==
  ASSUME NEW m, NEW a, NEW z, Leads(m, <<>>, a, z)
  PROVE  a = z
<1>1. Len(<<>>) = 0
  BY EmptySeq
<1> QED
  BY <1>1 DEF Leads

-----------------------------------------------------------------------------
(* A run flattened from its parts. *)

IsFlat(f, s) == f = [i \in 1..Len(s) |-> IF i = 1 THEN s[i] ELSE f[i - 1] \o s[i]]

\* The function FlattenSeq defines exists.
LEMMA FlatExists ==
  ASSUME NEW s, Len(s) \in Nat
  PROVE  \E f : IsFlat(f, s)
<1> DEFINE Next(f) == [i \in 1..Len(s) |-> IF i = 1 THEN s[i] ELSE f[i - 1] \o s[i]]
           Upto(f, n) == \A i \in 1..Len(s) : i <= n => f[i] = Next(f)[i]
           Q == {n \in Nat : \E f : Upto(f, n)}
<1>1. 0 \in Q
  OBVIOUS
<1>2. ASSUME NEW n \in Nat, n \in Q PROVE n + 1 \in Q
  <2>1. PICK f : Upto(f, n)
    BY <1>2
  <2>2. ASSUME NEW i \in 1..Len(s), i <= n + 1 PROVE Next(f)[i] = Next(Next(f))[i]
    <3>1. CASE i = 1
      BY <3>1
    <3>2. CASE i # 1
      <4>1. i - 1 \in 1..Len(s) /\ i - 1 <= n
        BY <2>2, <3>2
      <4>2. Next(f)[i - 1] = f[i - 1]
        BY <2>1, <4>1
      <4>3. Next(Next(f))[i] = Next(f)[i - 1] \o s[i] /\ Next(f)[i] = f[i - 1] \o s[i]
        BY <3>2
      <4> QED
        BY <4>2, <4>3
    <3> QED
      BY <3>1, <3>2
  <2>3. PICK g : g = Next(f)
    OBVIOUS
  <2>4. Upto(g, n + 1)
    BY <2>2, <2>3
  <2> QED
    BY <2>4
<1>3. Len(s) \in Q
  <2> HIDE DEF Q
  <2> QED
    BY <1>1, <1>2, Counting
<1>4. PICK f : Upto(f, Len(s))
  BY <1>3
<1>5. Next(f) = Next(Next(f))
  <2>1. ASSUME NEW i \in 1..Len(s) PROVE Next(f)[i] = Next(Next(f))[i]
    <3>1. CASE i = 1
      BY <3>1
    <3>2. CASE i # 1
      <4>1. i - 1 \in 1..Len(s) /\ i - 1 <= Len(s)
        BY <3>2
      <4>2. Next(f)[i - 1] = f[i - 1]
        BY <1>4, <4>1
      <4>3. Next(Next(f))[i] = Next(f)[i - 1] \o s[i] /\ Next(f)[i] = f[i - 1] \o s[i]
        BY <3>2
      <4> QED
        BY <4>2, <4>3
    <3> QED
      BY <3>1, <3>2
  <2> QED
    BY <2>1
<1>6. IsFlat(Next(f), s)
  BY <1>5, Zenon DEF IsFlat
<1> QED
  BY <1>6

\* A function of the first numbers is a run of so many.
LEMMA FunctionIsRun ==
  ASSUME NEW n \in Nat, NEW s, s = [i \in 1..n |-> s[i]]
  PROVE  IsRun(s) /\ Len(s) = n
<1> DEFINE S == {s[i] : i \in 1..n}
<1>1. s \in [1..n -> S]
  OBVIOUS
<1>2. s \in Seq(S)
  BY <1>1, SeqDef
<1>3. Len(s) \in Nat /\ DOMAIN s = 1..Len(s) /\ DOMAIN s = 1..n
  BY <1>2, LenProperties
<1>4. Len(s) = n
  BY <1>3
<1> QED
  BY <1>2, <1>4 DEF IsRun

\* Parts that lead on from each other lead, flattened, from the first of the places they pass to the
\* last.
LEMMA PartsLead ==
  ASSUME NEW m, NEW n \in Nat, NEW s, s = [i \in 1..n |-> s[i]], NEW A,
         \A i \in 1..n : Leads(m, s[i], A[i - 1], A[i])
  PROVE  Leads(m, FlattenSeq(s), A[0], A[n])
<1>0. IsRun(s) /\ Len(s) = n
  BY FunctionIsRun
<1>1. CASE n = 0
  <2>1. PICK S : s \in Seq(S)
    BY <1>0 DEF IsRun
  <2>2. s = <<>>
    BY <1>0, <1>1, <2>1, EmptySeq
  <2>3. FlattenSeq(s) = <<>>
    BY <1>0, <1>1, <2>2, EmptySeq DEF FlattenSeq
  <2> QED
    BY <1>1, <2>3, NothingLeads
<1>2. CASE n # 0
  <2> DEFINE flatten == CHOOSE f : IsFlat(f, s)
  <2>1. IsFlat(flatten, s)
    BY <1>0, FlatExists, Zenon
  <2>2. FlattenSeq(s) = flatten[Len(s)]
    BY <1>0, <1>2, Zenon DEF FlattenSeq, IsFlat
  <2> HIDE DEF flatten
  <2>3. \A i \in 1..n : IF i = 1 THEN flatten[i] = s[i] ELSE flatten[i] = flatten[i - 1] \o s[i]
    BY <1>0, <2>1 DEF IsFlat
  <2> DEFINE Q == {k \in Nat : k + 1 <= n => Leads(m, flatten[k + 1], A[0], A[k + 1])}
  <2>4. 0 \in Q
    <3>1. 1 \in 1..n
      BY <1>2
    <3>2. flatten[1] = s[1]
      BY <2>3, <3>1
    <3>3. Leads(m, s[1], A[1 - 1], A[1]) /\ 1 - 1 = 0
      BY <3>1
    <3> QED
      BY <3>2, <3>3
  <2>5. ASSUME NEW k \in Nat, k \in Q PROVE k + 1 \in Q
    <3>1. SUFFICES ASSUME k + 2 <= n PROVE Leads(m, flatten[k + 2], A[0], A[k + 2])
      OBVIOUS
    <3>2. Leads(m, flatten[k + 1], A[0], A[k + 1])
      BY <2>5, <3>1
    <3>3. PICK j \in 1..n : j = k + 2
      BY <3>1
    <3>4. flatten[j] = flatten[j - 1] \o s[j] /\ Leads(m, s[j], A[j - 1], A[j]) /\ j - 1 = k + 1
      <4>1. j # 1 /\ j - 1 = k + 1
        BY <3>3
      <4> QED
        BY <2>3, <4>1
    <3>5. Leads(m, flatten[j - 1] \o s[j], A[0], A[j])
      BY <3>2, <3>4, Joined
    <3> QED
      BY <3>3, <3>4, <3>5
  <2>6. n - 1 \in Q
    <3> HIDE DEF Q
    <3>1. n - 1 \in Nat
      BY <1>2
    <3> QED
      BY <2>4, <2>5, <3>1, Counting
  <2>7. Leads(m, flatten[n], A[0], A[n])
    BY <1>2, <2>6
  <2> QED
    BY <1>0, <2>2, <2>7
<1> QED
  BY <1>1, <1>2
-----------------------------------------------------------------------------
(* What is counted of each entry. *)

\* What may be counted, the work since a look no more than is near.
CountOf(r, g, w, h, d) == g \in 0..Near(r) /\ w \in Nat /\ h \in Int /\ d \in Int

\* A look, after which nothing is late.
LEMMA LookCounts ==
  ASSUME NEW r, NEW g, NEW w, NEW h, NEW d, NEW e, CountOf(r, e, w, h, d), NEW step
  PROVE  Leads(Counts(r), Look(step), <<g, w, h, d>>, <<e, w, h, d>>)
<1> DEFINE op == [do |-> "look", step |-> step]
           a == <<g, w, h, d>>
           b == <<e, w, h, d>>
<1>1. op.do = "look" /\ a[1] = g /\ a[2] = w /\ a[3] = h /\ a[4] = d
                    /\ b[1] = e /\ b[2] = w /\ b[3] = h /\ b[4] = d
      /\ b = <<b[1], b[2], b[3], b[4]>>
  OBVIOUS
<1> HIDE DEF op, a, b
<1>2. CountGoes(r, op, a, b)
  BY <1>1 DEF CountGoes, CountOf
<1>3. Takes(Counts(r), op, a, b)
  BY <1>2 DEF Takes, Counts
<1>4. Leads(Counts(r), <<op>>, a, b)
  BY <1>3, OneLeads
<1> QED
  BY <1>4 DEF op, a, b, Look

\* Work that is no step of a walk.
LEMMA WorkCounts ==
  ASSUME NEW r, NEW g \in Nat, NEW w, NEW h, NEW d, NEW e, CountOf(r, e, w, h, d), g + 1 <= e,
         NEW what, what # "step"
  PROVE  Leads(Counts(r), Work(what), <<g, w, h, d>>, <<e, w, h, d>>)
<1> DEFINE op == [do |-> "work", what |-> what]
           a == <<g, w, h, d>>
           b == <<e, w, h, d>>
<1>1. op.do = "work" /\ op.what = what /\ a[1] = g /\ a[2] = w /\ a[3] = h /\ a[4] = d
                    /\ b[1] = e /\ b[2] = w /\ b[3] = h /\ b[4] = d
      /\ b = <<b[1], b[2], b[3], b[4]>>
  OBVIOUS
<1> HIDE DEF op, a, b
<1>2. CountGoes(r, op, a, b)
  BY <1>1 DEF CountGoes, CountOf
<1>3. Takes(Counts(r), op, a, b)
  BY <1>2 DEF Takes, Counts
<1>4. Leads(Counts(r), <<op>>, a, b)
  BY <1>3, OneLeads
<1> QED
  BY <1>4 DEF op, a, b, Work

\* A step of a walk, which is work too.
LEMMA StepCounts ==
  ASSUME NEW r, NEW g \in Nat, NEW w \in Nat, NEW h, NEW d, NEW e, NEW v,
         v = w + 1, CountOf(r, e, v, h, d), g + 1 <= e
  PROVE  Leads(Counts(r), Work("step"), <<g, w, h, d>>, <<e, v, h, d>>)
<1> DEFINE op == [do |-> "work", what |-> "step"]
           a == <<g, w, h, d>>
           b == <<e, v, h, d>>
<1>1. op.do = "work" /\ op.what = "step" /\ a[1] = g /\ a[2] = w /\ a[3] = h /\ a[4] = d
                    /\ b[1] = e /\ b[2] = v /\ b[3] = h /\ b[4] = d
      /\ b = <<b[1], b[2], b[3], b[4]>>
  OBVIOUS
<1> HIDE DEF op, a, b
<1>2. CountGoes(r, op, a, b)
  BY <1>1 DEF CountGoes, CountOf
<1>3. Takes(Counts(r), op, a, b)
  BY <1>2 DEF Takes, Counts
<1>4. Leads(Counts(r), <<op>>, a, b)
  BY <1>3, OneLeads
<1> QED
  BY <1>4 DEF op, a, b, Work

\* A report nobody looks at the stop with.
LEMMA TellCounts ==
  ASSUME NEW r, NEW g \in Nat, NEW w, NEW h, NEW d, NEW e, CountOf(r, e, w, h, d), g <= e, NEW step
  PROVE  Leads(Counts(r), Tell(step), <<g, w, h, d>>, <<e, w, h, d>>)
<1> DEFINE op == [do |-> "tell", step |-> step]
           a == <<g, w, h, d>>
           b == <<e, w, h, d>>
<1>1. op.do = "tell" /\ op.step = step /\ a[1] = g /\ a[2] = w /\ a[3] = h /\ a[4] = d
      /\ b[1] = e /\ b[2] = w /\ b[3] = h /\ b[4] = d
      /\ b = <<b[1], b[2], b[3], b[4]>>
  OBVIOUS
<1> HIDE DEF op, a, b
<1>2. CountGoes(r, op, a, b)
  BY <1>1 DEF CountGoes, CountOf
<1>3. Takes(Counts(r), op, a, b)
  BY <1>2 DEF Takes, Counts
<1>4. Leads(Counts(r), <<op>>, a, b)
  BY <1>3, OneLeads
<1> QED
  BY <1>4 DEF op, a, b, Tell

\* A part of the sound handed over, with a look.
LEMMA HandCounts ==
  ASSUME NEW r, NEW g, NEW w, NEW h, NEW d, NEW e, CountOf(r, e, w, h, d)
  PROVE  Leads(Counts(r), Hand, <<g, w, h, d>>, <<e, w, h, d>>)
<1> DEFINE op == [do |-> "hand"]
           a == <<g, w, h, d>>
           b == <<e, w, h, d>>
<1>1. op.do = "hand" /\ a[1] = g /\ a[2] = w /\ a[3] = h /\ a[4] = d
      /\ b[1] = e /\ b[2] = w /\ b[3] = h /\ b[4] = d
      /\ b = <<b[1], b[2], b[3], b[4]>>
  OBVIOUS
<1> HIDE DEF op, a, b
<1>2. CountGoes(r, op, a, b)
  BY <1>1 DEF CountGoes, CountOf
<1>3. Takes(Counts(r), op, a, b)
  BY <1>2 DEF Takes, Counts
<1>4. Leads(Counts(r), <<op>>, a, b)
  BY <1>3, OneLeads
<1> QED
  BY <1>4 DEF op, a, b, Hand

\* The host's generator seeded.
LEMMA SeedHostCounts ==
  ASSUME NEW r, NEW g \in Nat, NEW w, NEW h, NEW d, NEW e, CountOf(r, e, w, h, d), g <= e
  PROVE  Leads(Counts(r), Seed("host"), <<g, w, h, d>>, <<e, w, 0, d>>)
<1> DEFINE op == [do |-> "seed", gen |-> "host"]
           a == <<g, w, h, d>>
           b == <<e, w, 0, d>>
<1>1. op.do = "seed" /\ op.gen = "host" /\ a[1] = g /\ a[2] = w /\ a[3] = h /\ a[4] = d
      /\ b[1] = e /\ b[2] = w /\ b[3] = 0 /\ b[4] = d
      /\ b = <<b[1], b[2], b[3], b[4]>>
  OBVIOUS
<1> HIDE DEF op, a, b
<1>2. CountGoes(r, op, a, b)
  BY <1>1 DEF CountGoes, CountOf, Place
<1>3. Takes(Counts(r), op, a, b)
  BY <1>2 DEF Takes, Counts
<1>4. Leads(Counts(r), <<op>>, a, b)
  BY <1>3, OneLeads
<1> QED
  BY <1>4 DEF op, a, b, Seed

\* The device's generator seeded.
LEMMA SeedDeviceCounts ==
  ASSUME NEW r, NEW g \in Nat, NEW w, NEW h, NEW d, NEW e, CountOf(r, e, w, h, d), g <= e
  PROVE  Leads(Counts(r), Seed("device"), <<g, w, h, d>>, <<e, w, h, 0>>)
<1> DEFINE op == [do |-> "seed", gen |-> "device"]
           a == <<g, w, h, d>>
           b == <<e, w, h, 0>>
<1>1. op.do = "seed" /\ op.gen = "device" /\ a[1] = g /\ a[2] = w /\ a[3] = h /\ a[4] = d
      /\ b[1] = e /\ b[2] = w /\ b[3] = h /\ b[4] = 0
      /\ b = <<b[1], b[2], b[3], b[4]>>
  OBVIOUS
<1> HIDE DEF op, a, b
<1>2. CountGoes(r, op, a, b)
  BY <1>1 DEF CountGoes, CountOf, Place
<1>3. Takes(Counts(r), op, a, b)
  BY <1>2 DEF Takes, Counts
<1>4. Leads(Counts(r), <<op>>, a, b)
  BY <1>3, OneLeads
<1> QED
  BY <1>4 DEF op, a, b, Seed

\* A draw of the host's generator, at the place that is its own.
LEMMA DrawHostCounts ==
  ASSUME NEW r, NEW g \in Nat, NEW w, NEW h, NEW d, NEW e, CountOf(r, e, w, h, d), g <= e,
         NEW on, h \in Nat, h = DrawPlace(r, on)
  PROVE  Leads(Counts(r), DrawOn("host", on), <<g, w, h, d>>, <<e, w, h + 1, d>>)
<1> DEFINE op == [do |-> "draw", gen |-> "host", on |-> on]
           a == <<g, w, h, d>>
           b == <<e, w, h + 1, d>>
<1>1. op.do = "draw" /\ op.gen = "host" /\ op.on = on /\ a[1] = g /\ a[2] = w /\ a[3] = h /\ a[4] = d
      /\ b[1] = e /\ b[2] = w /\ b[3] = h + 1 /\ b[4] = d
      /\ b = <<b[1], b[2], b[3], b[4]>>
  OBVIOUS
<1> HIDE DEF op, a, b
<1>2. CountGoes(r, op, a, b)
  BY <1>1 DEF CountGoes, CountOf, Place
<1>3. Takes(Counts(r), op, a, b)
  BY <1>2 DEF Takes, Counts
<1>4. Leads(Counts(r), <<op>>, a, b)
  BY <1>3, OneLeads
<1> QED
  BY <1>4 DEF op, a, b, DrawOn

\* A draw of the device's generator, at the place that is its own.
LEMMA DrawDeviceCounts ==
  ASSUME NEW r, NEW g \in Nat, NEW w, NEW h, NEW d, NEW e, CountOf(r, e, w, h, d), g <= e,
         NEW on, d \in Nat, d = DrawPlace(r, on)
  PROVE  Leads(Counts(r), DrawOn("device", on), <<g, w, h, d>>, <<e, w, h, d + 1>>)
<1> DEFINE op == [do |-> "draw", gen |-> "device", on |-> on]
           a == <<g, w, h, d>>
           b == <<e, w, h, d + 1>>
<1>1. op.do = "draw" /\ op.gen = "device" /\ op.on = on /\ a[1] = g /\ a[2] = w /\ a[3] = h /\ a[4] = d
      /\ b[1] = e /\ b[2] = w /\ b[3] = h /\ b[4] = d + 1
      /\ b = <<b[1], b[2], b[3], b[4]>>
  OBVIOUS
<1> HIDE DEF op, a, b
<1>2. CountGoes(r, op, a, b)
  BY <1>1 DEF CountGoes, CountOf, Place
<1>3. Takes(Counts(r), op, a, b)
  BY <1>2 DEF Takes, Counts
<1>4. Leads(Counts(r), <<op>>, a, b)
  BY <1>3, OneLeads
<1> QED
  BY <1>4 DEF op, a, b, DrawOn

\* A run that fails is never over, and leads to anywhere.
LEMMA FailCounts ==
  ASSUME NEW r, NEW a, NEW b
  PROVE  Leads(Counts(r), Fail, a, b)
<1>1. Takes(Counts(r), [do |-> "fail"], a, b)
  BY DEF Takes, CountGoes, Counts
<1> QED
  BY <1>1, OneLeads DEF Fail

-----------------------------------------------------------------------------
(* Pictures. *)

\* How much work there may be without a look, of a prompt with pictures.
LEMMA NearOfPictures ==
  ASSUME NEW r, AsksToDraw(r)
  PROVE  /\ Near(r) \in Nat /\ Near(r) >= 2 + r.pictures /\ r.pictures \in Nat
         /\ r.from => Near(r) >= 3
BY DEF Near, Unreported, AsksToDraw

\* The smallest bound there is.
NearEnough(r) == Near(r) \in Nat /\ Near(r) >= 2

\* A walk of so many steps, a look after each.
LEMMA WalkCounts ==
  ASSUME NEW r, NearEnough(r), NEW n \in Nat, NEW g \in Nat, NEW w \in Nat, NEW h \in Int, NEW d \in Int,
         g + 1 <= Near(r)
  PROVE  Leads(Counts(r), Walk(n), <<g, w, h, d>>, <<g, w + n, h, d>>)
<1> DEFINE s == [i \in 1..n |-> Work("step") \o Look([at |-> "Step", done |-> i, total |-> n])]
<1> PICK A : A = [i \in 0..n |-> <<g, w + i, h, d>>]
  OBVIOUS
<1>1. ASSUME NEW i \in 1..n PROVE Leads(Counts(r), s[i], A[i - 1], A[i])
  <2> DEFINE look == [at |-> "Step", done |-> i, total |-> n]
             x == w + (i - 1)
  <2>1. x \in Nat /\ x + 1 = w + i /\ x + 1 \in Nat
    OBVIOUS
  <2>2. A[i - 1] = <<g, w + (i - 1), h, d>> /\ A[i] = <<g, w + i, h, d>>
    OBVIOUS
  <2>3. s[i] = Work("step") \o Look(look)
    OBVIOUS
  <2> HIDE DEF x, look, s
  <2>4. CountOf(r, g + 1, x + 1, h, d) /\ CountOf(r, g, x + 1, h, d) /\ g + 1 <= g + 1
    BY <2>1 DEF CountOf, NearEnough
  <2>5. Leads(Counts(r), Work("step"), <<g, x, h, d>>, <<g + 1, x + 1, h, d>>)
    BY <2>1, <2>4, StepCounts
  <2>6. Leads(Counts(r), Look(look), <<g + 1, x + 1, h, d>>, <<g, x + 1, h, d>>)
    BY <2>4, LookCounts
  <2>7. Leads(Counts(r), Work("step") \o Look(look), <<g, x, h, d>>, <<g, x + 1, h, d>>)
    BY <2>5, <2>6, Joined
  <2>8. A[i - 1] = <<g, x, h, d>> /\ A[i] = <<g, x + 1, h, d>>
    BY <2>1, <2>2 DEF x
  <2> QED
    BY <2>3, <2>7, <2>8
<1>2. s = [i \in 1..n |-> s[i]] /\ A[0] = <<g, w, h, d>> /\ A[n] = <<g, w + n, h, d>>
  OBVIOUS
<1>3. Walk(n) = FlattenSeq(s)
  BY DEF Walk, Each
<1> HIDE DEF s
<1>4. Leads(Counts(r), FlattenSeq(s), A[0], A[n])
  BY <1>1, <1>2, PartsLead
<1> QED
  BY <1>2, <1>3, <1>4

\* The decoding, with a look before it.
LEMMA DecodeCounts ==
  ASSUME NEW r, NearEnough(r), NEW g \in Nat, NEW w \in Nat, NEW h \in Int, NEW d \in Int
  PROVE  Leads(Counts(r), Decode, <<g, w, h, d>>, <<1, w, h, d>>)
<1>1. CountOf(r, 0, w, h, d) /\ CountOf(r, 1, w, h, d)
  BY DEF CountOf, NearEnough
<1>2. Leads(Counts(r), Look([at |-> "Decoding"]), <<g, w, h, d>>, <<0, w, h, d>>)
  BY <1>1, LookCounts
<1>3. Leads(Counts(r), Work("decode"), <<0, w, h, d>>, <<1, w, h, d>>)
  BY <1>1, WorkCounts
<1> QED
  BY <1>2, <1>3, Joined DEF Decode

\* The prompts, with a look before them.
LEMMA ReadPromptsCounts ==
  ASSUME NEW r, NearEnough(r), NEW g \in Nat, NEW w \in Nat, NEW h \in Int, NEW d \in Int
  PROVE  Leads(Counts(r), ReadPrompts, <<g, w, h, d>>, <<1, w, h, d>>)
<1>1. CountOf(r, 0, w, h, d) /\ CountOf(r, 1, w, h, d)
  BY DEF CountOf, NearEnough
<1>2. Leads(Counts(r), Look(Encoding), <<g, w, h, d>>, <<0, w, h, d>>)
  BY <1>1, LookCounts
<1>3. Leads(Counts(r), Work("prompt"), <<0, w, h, d>>, <<1, w, h, d>>)
  BY <1>1, WorkCounts
<1> QED
  BY <1>2, <1>3, Joined DEF ReadPrompts

\* A picture's one draw, the first since the seed.
LEMMA LatentCounts ==
  ASSUME NEW r, NearEnough(r), NEW g \in 0..Near(r), NEW w \in Nat, NEW h \in Int
  PROVE  Leads(Counts(r), Latent, <<g, w, h, 0>>, <<g, w, h, 1>>)
<1>1. DrawPlace(r, <<"latent">>) = 0
  BY DEF DrawPlace
<1>2. CountOf(r, g, w, h, 0) /\ g \in Nat /\ 0 \in Nat /\ 0 + 1 = 1
  BY DEF CountOf, NearEnough
<1>3. Leads(Counts(r), DrawOn("device", <<"latent">>), <<g, w, h, 0>>, <<g, w, h, 0 + 1>>)
  BY <1>1, <1>2, DrawDeviceCounts
<1> QED
  BY <1>2, <1>3 DEF Latent

\* The device's generator seeded, however much work there has been since a look.
LEMMA DeviceSeeded ==
  ASSUME NEW r, NearEnough(r), NEW g \in 0..Near(r), NEW w \in Nat, NEW h \in Int, NEW d \in Int
  PROVE  Leads(Counts(r), Seed("device"), <<g, w, h, d>>, <<g, w, h, 0>>)
<1>1. CountOf(r, g, w, h, d) /\ g \in Nat /\ g <= g
  BY DEF CountOf, NearEnough
<1> QED
  BY <1>1, SeedDeviceCounts

\* SDXL from noise: either its schedule is refused, or it walks all of it.
LEMMA SdxlCounts ==
  ASSUME NEW r, NearEnough(r), NEW n \in Nat
  PROVE  Leads(Counts(r), Sdxl(n), <<0, 0, Unseeded, Unseeded>>, <<1, n, Unseeded, 1>>)
<1> DEFINE u == Unseeded
<1>0. u \in Int /\ 0 \in 0..Near(r) /\ 1 \in 0..Near(r) /\ 1 + 1 <= Near(r) /\ n + 0 = n /\ 0 + n = n
  BY DEF Unseeded, NearEnough
<1> HIDE DEF u
<1>1. Leads(Counts(r), Seed("device"), <<0, 0, u, u>>, <<0, 0, u, 0>>)
  BY <1>0, DeviceSeeded
<1>2. Leads(Counts(r), Latent, <<0, 0, u, 0>>, <<0, 0, u, 1>>)
  BY <1>0, LatentCounts
<1>3. Leads(Counts(r), ReadPrompts, <<0, 0, u, 1>>, <<1, 0, u, 1>>)
  BY <1>0, ReadPromptsCounts
<1>4. Leads(Counts(r), Seed("device") \o Latent \o ReadPrompts, <<0, 0, u, u>>, <<1, 0, u, 1>>)
  BY <1>1, <1>2, <1>3, Joined
<1>5. Leads(Counts(r), WalkTail(Euler(n)), <<1, 0, u, 1>>, <<1, n, u, 1>>)
  <2>1. WalkTail(Euler(n)) = Walk(n)
    BY DEF WalkTail, Euler
  <2>2. Leads(Counts(r), Walk(n), <<1, 0, u, 1>>, <<1, 0 + n, u, 1>>)
    BY <1>0, WalkCounts
  <2> QED
    BY <1>0, <2>1, <2>2
<1>6. Leads(Counts(r), Decode, <<1, n, u, 1>>, <<1, n, u, 1>>)
  BY <1>0, DecodeCounts
<1>7. Leads(Counts(r), Where(Euler(n).ok, WalkTail(Euler(n)) \o Decode), <<1, 0, u, 1>>, <<1, n, u, 1>>)
  <2>1. Euler(n).ok \in BOOLEAN
    BY DEF Euler
  <2>2. Leads(Counts(r), WalkTail(Euler(n)) \o Decode, <<1, 0, u, 1>>, <<1, n, u, 1>>)
    BY <1>5, <1>6, Joined
  <2> QED
    BY <2>2, FailCounts DEF Where
<1> QED
  BY <1>4, <1>7, Joined DEF Sdxl, u
\* Krea 2.
LEMMA Krea2Counts ==
  ASSUME NEW r, NearEnough(r), NEW n \in Nat
  PROVE  Leads(Counts(r), Krea2(n), <<0, 0, Unseeded, Unseeded>>, <<1, n, Unseeded, 1>>)
<1> DEFINE u == Unseeded
<1>0. u \in Int /\ 0 \in 0..Near(r) /\ 1 \in 0..Near(r) /\ 1 + 1 <= Near(r) /\ 0 + n = n
  BY DEF Unseeded, NearEnough
<1> HIDE DEF u
<1>1. Leads(Counts(r), Seed("device"), <<0, 0, u, u>>, <<0, 0, u, 0>>)
  BY <1>0, DeviceSeeded
<1>2. Leads(Counts(r), Latent, <<0, 0, u, 0>>, <<0, 0, u, 1>>)
  BY <1>0, LatentCounts
<1>3. Leads(Counts(r), ReadPrompts, <<0, 0, u, 1>>, <<1, 0, u, 1>>)
  BY <1>0, ReadPromptsCounts
<1>4. Leads(Counts(r), Walk(n), <<1, 0, u, 1>>, <<1, n, u, 1>>)
  <2>1. Leads(Counts(r), Walk(n), <<1, 0, u, 1>>, <<1, 0 + n, u, 1>>)
    BY <1>0, WalkCounts
  <2> QED
    BY <1>0, <2>1
<1>5. Leads(Counts(r), Decode, <<1, n, u, 1>>, <<1, n, u, 1>>)
  BY <1>0, DecodeCounts
<1>6. Leads(Counts(r), Latent \o ReadPrompts \o Walk(n) \o Decode, <<0, 0, u, 0>>, <<1, n, u, 1>>)
  BY <1>2, <1>3, <1>4, <1>5, Joined
<1>7. Leads(Counts(r), Where(n >= 1, Latent \o ReadPrompts \o Walk(n) \o Decode),
            <<0, 0, u, 0>>, <<1, n, u, 1>>)
  BY <1>6, FailCounts DEF Where
<1> QED
  BY <1>1, <1>7, Joined DEF Krea2, u

\* Anima.
LEMMA AnimaCounts ==
  ASSUME NEW r, NearEnough(r), NEW n \in Nat
  PROVE  Leads(Counts(r), Anima(n), <<0, 0, Unseeded, Unseeded>>, <<1, n, Unseeded, 1>>)
<1> DEFINE u == Unseeded
<1>0. u \in Int /\ 0 \in 0..Near(r) /\ 1 \in 0..Near(r) /\ 1 + 1 <= Near(r) /\ 0 + n = n
  BY DEF Unseeded, NearEnough
<1> HIDE DEF u
<1>1. Leads(Counts(r), Seed("device"), <<0, 0, u, u>>, <<0, 0, u, 0>>)
  BY <1>0, DeviceSeeded
<1>2. Leads(Counts(r), Latent, <<0, 0, u, 0>>, <<0, 0, u, 1>>)
  BY <1>0, LatentCounts
<1>3. Leads(Counts(r), ReadPrompts, <<0, 0, u, 1>>, <<1, 0, u, 1>>)
  BY <1>0, ReadPromptsCounts
<1>4. Leads(Counts(r), Walk(n), <<1, 0, u, 1>>, <<1, n, u, 1>>)
  <2>1. Leads(Counts(r), Walk(n), <<1, 0, u, 1>>, <<1, 0 + n, u, 1>>)
    BY <1>0, WalkCounts
  <2> QED
    BY <1>0, <2>1
<1>5. Leads(Counts(r), Decode, <<1, n, u, 1>>, <<1, n, u, 1>>)
  BY <1>0, DecodeCounts
<1>6. Leads(Counts(r), Latent \o ReadPrompts \o Walk(n) \o Decode, <<0, 0, u, 0>>, <<1, n, u, 1>>)
  BY <1>2, <1>3, <1>4, <1>5, Joined
<1>7. Leads(Counts(r), Where(n >= 1, Latent \o ReadPrompts \o Walk(n) \o Decode),
            <<0, 0, u, 0>>, <<1, n, u, 1>>)
  BY <1>6, FailCounts DEF Where
<1> QED
  BY <1>1, <1>7, Joined DEF Anima, u

\* The seed and the latent of Qwen-Image.
LEMMA NoiseCounts ==
  ASSUME NEW r, NearEnough(r)
  PROVE  Leads(Counts(r), Noise, <<0, 0, Unseeded, Unseeded>>, <<0, 0, Unseeded, 1>>)
<1> DEFINE u == Unseeded
<1>0. u \in Int /\ 0 \in 0..Near(r)
  BY DEF Unseeded, NearEnough
<1> HIDE DEF u
<1>1. Leads(Counts(r), Seed("device"), <<0, 0, u, u>>, <<0, 0, u, 0>>)
  BY <1>0, DeviceSeeded
<1>2. Leads(Counts(r), Latent, <<0, 0, u, 0>>, <<0, 0, u, 1>>)
  BY <1>0, LatentCounts
<1> QED
  BY <1>1, <1>2, Joined DEF Noise, u

\* Qwen-Image, by its own schedule where its release has one.
LEMMA QwenImageCounts ==
  ASSUME NEW r, NearEnough(r), NEW n \in Nat, NEW fixed \in Nat
  PROVE  Leads(Counts(r), QwenImage(n, fixed),
               <<0, 0, Unseeded, Unseeded>>, <<1, Schedule(n, fixed), Unseeded, 1>>)
<1> DEFINE u == Unseeded
           whole == Schedule(n, fixed)
<1>0. /\ u \in Int /\ 0 \in 0..Near(r) /\ 1 \in 0..Near(r) /\ 1 + 1 <= Near(r)
      /\ whole \in Nat /\ 0 + whole = whole
  BY DEF Unseeded, NearEnough, Schedule
<1> HIDE DEF u, whole
<1>1. Leads(Counts(r), Noise, <<0, 0, u, u>>, <<0, 0, u, 1>>)
  BY NoiseCounts DEF u
<1>2. Leads(Counts(r), ReadPrompts, <<0, 0, u, 1>>, <<1, 0, u, 1>>)
  BY <1>0, ReadPromptsCounts
<1>3. Leads(Counts(r), Walk(whole), <<1, 0, u, 1>>, <<1, whole, u, 1>>)
  <2>1. Leads(Counts(r), Walk(whole), <<1, 0, u, 1>>, <<1, 0 + whole, u, 1>>)
    BY <1>0, WalkCounts
  <2> QED
    BY <1>0, <2>1
<1>4. Leads(Counts(r), Decode, <<1, whole, u, 1>>, <<1, whole, u, 1>>)
  BY <1>0, DecodeCounts
<1>5. Leads(Counts(r), ReadPrompts \o Walk(whole) \o Decode, <<0, 0, u, 1>>, <<1, whole, u, 1>>)
  BY <1>2, <1>3, <1>4, Joined
<1>6. Leads(Counts(r), Where(whole >= 1, ReadPrompts \o Walk(whole) \o Decode),
            <<0, 0, u, 1>>, <<1, whole, u, 1>>)
  BY <1>5, FailCounts DEF Where
<1> QED
  BY <1>1, <1>6, Joined DEF QwenImage, u, whole

\* Nothing is reported between the pictures a prompt is shown.
LEMMA PicturesCounts ==
  ASSUME NEW r, NEW n \in Nat, Near(r) \in Nat, n <= Near(r), NEW w \in Nat, NEW h \in Int,
         NEW d \in Int
  PROVE  Leads(Counts(r), FlattenSeq([i \in 1..n |-> Work("picture")]), <<0, w, h, d>>, <<n, w, h, d>>)
<1> DEFINE s == [i \in 1..n |-> Work("picture")]
<1> PICK A : A = [i \in 0..n |-> <<i, w, h, d>>]
  OBVIOUS
<1>1. ASSUME NEW i \in 1..n PROVE Leads(Counts(r), s[i], A[i - 1], A[i])
  <2> DEFINE k == i - 1
  <2>1. k \in Nat /\ k + 1 <= i /\ i \in Nat /\ A[i - 1] = <<k, w, h, d>> /\ A[i] = <<i, w, h, d>>
    OBVIOUS
  <2>2. CountOf(r, i, w, h, d)
    BY DEF CountOf
  <2> HIDE DEF k
  <2>3. Leads(Counts(r), Work("picture"), <<k, w, h, d>>, <<i, w, h, d>>)
    BY <2>1, <2>2, WorkCounts
  <2> QED
    BY <2>1, <2>3
<1>2. s = [i \in 1..n |-> s[i]] /\ A[0] = <<0, w, h, d>> /\ A[n] = <<n, w, h, d>>
  OBVIOUS
<1>3. Leads(Counts(r), FlattenSeq(s), A[0], A[n])
  <2> HIDE DEF s
  <2> QED
    BY <1>1, <1>2, PartsLead
<1> QED
  BY <1>2, <1>3

\* The same with pictures in the prompt, between which nothing is reported.
LEMMA QwenWithPicturesCounts ==
  ASSUME NEW r, NEW n \in Nat, NEW fixed \in Nat, NEW pictures \in Nat, Near(r) \in Nat,
         2 + pictures <= Near(r)
  PROVE  Leads(Counts(r), QwenWithPictures(n, fixed, pictures),
               <<0, 0, Unseeded, Unseeded>>, <<1, Schedule(n, fixed), Unseeded, 1>>)
<1> DEFINE u == Unseeded
           whole == Schedule(n, fixed)
           p == pictures + 1
           Seen == FlattenSeq([i \in 1..pictures |-> Work("picture")])
           Rest == Look(Encoding) \o Seen \o Work("prompt") \o Walk(whole) \o Decode
<1>0. /\ u \in Int /\ 0 \in 0..Near(r) /\ p \in Nat /\ p + 1 <= Near(r) /\ pictures + 1 <= p
      /\ whole \in Nat /\ 0 + whole = whole /\ NearEnough(r) /\ pictures <= Near(r)
      /\ CountOf(r, 0, 0, u, 1) /\ CountOf(r, p, 0, u, 1)
  BY DEF Unseeded, NearEnough, Schedule, CountOf
<1> HIDE DEF u, whole, p
<1>1. Leads(Counts(r), Noise, <<0, 0, u, u>>, <<0, 0, u, 1>>)
  BY <1>0, NoiseCounts DEF u
<1>2. Leads(Counts(r), Look(Encoding), <<0, 0, u, 1>>, <<0, 0, u, 1>>)
  BY <1>0, LookCounts
<1>3. Leads(Counts(r), Seen, <<0, 0, u, 1>>, <<pictures, 0, u, 1>>)
  BY <1>0, PicturesCounts
<1> HIDE DEF Seen
<1>4. Leads(Counts(r), Work("prompt"), <<pictures, 0, u, 1>>, <<p, 0, u, 1>>)
  BY <1>0, WorkCounts
<1>5. Leads(Counts(r), Walk(whole), <<p, 0, u, 1>>, <<p, whole, u, 1>>)
  <2>1. Leads(Counts(r), Walk(whole), <<p, 0, u, 1>>, <<p, 0 + whole, u, 1>>)
    BY <1>0, WalkCounts
  <2> QED
    BY <1>0, <2>1
<1>6. Leads(Counts(r), Decode, <<p, whole, u, 1>>, <<1, whole, u, 1>>)
  BY <1>0, DecodeCounts
<1>7. Leads(Counts(r), Rest, <<0, 0, u, 1>>, <<1, whole, u, 1>>)
  BY <1>2, <1>3, <1>4, <1>5, <1>6, Joined
<1>8. Leads(Counts(r), Where(whole >= 1, Rest), <<0, 0, u, 1>>, <<1, whole, u, 1>>)
  <2> HIDE DEF Rest
  <2> QED
    BY <1>7, FailCounts DEF Where
<1>9. Leads(Counts(r), Noise \o Where(whole >= 1, Rest), <<0, 0, u, u>>, <<1, whole, u, 1>>)
  BY <1>1, <1>8, Joined
<1>10. QwenWithPictures(n, fixed, pictures) = Noise \o Where(whole >= 1, Rest)
  BY DEF QwenWithPictures, Each, whole, Seen
<1> QED
  BY <1>9, <1>10 DEF u, whole

\* The tail of the longer schedule is as long as the walk that was asked for.
LEMMA TailIsTheSteps ==
  ASSUME NEW n \in Nat, NEW s \in Nat \X (Nat \ {0}), s[1] <= s[2]
  PROVE  LET schedule == FromImage(n, s)
         IN  /\ schedule.ok \in BOOLEAN
             /\ schedule.whole - schedule.start = IF s[1] = 0 THEN 0 ELSE n
<1>1. CASE s[1] = 0
  <2>1. FromImage(n, s) = [ok |-> n \in 1..Trained, whole |-> n, start |-> n]
    BY <1>1 DEF FromImage, Euler
  <2> QED
    BY <1>1, <2>1
<1>2. CASE s[1] # 0
  <2> DEFINE p == s[1]
             q == s[2]
             whole == (n * q) \div p
  <2>1. p \in Nat \ {0} /\ q \in Nat /\ p <= q
    BY <1>2
  <2>2. FromImage(n, s) = [ok |-> whole \in 1..Trained, whole |-> whole,
                           start |-> Larger(whole - n, 0)]
    BY <1>2 DEF FromImage
  <2> HIDE DEF p, q
  <2>3. n * p <= n * q /\ n * q \in Nat /\ n * p \in Nat
    BY <2>1
  <2>4. whole \in Nat /\ p * whole + ((n * q) % p) = n * q /\ (n * q) % p \in 0..(p - 1)
    BY <2>1, <2>3
  <2>5. n <= whole
    <3> DEFINE x == n * q
    <3> HIDE DEF whole
    <3>1. SUFFICES ASSUME whole + 1 <= n PROVE FALSE
      BY <2>4
    <3>2. p * (whole + 1) <= p * n
      BY <2>1, <2>4, <3>1
    <3>3. p * (whole + 1) = p * whole + p /\ p * n = n * p
      BY <2>1, <2>4
    <3> QED
      BY <2>1, <2>3, <2>4, <3>2, <3>3
  <2> HIDE DEF whole
  <2>6. Larger(whole - n, 0) = whole - n
    BY <2>4, <2>5 DEF Larger
  <2> QED
    BY <1>2, <2>2, <2>4, <2>5, <2>6
<1> QED
  BY <1>1, <1>2

\* SDXL from a picture: of a longer schedule, the steps that were asked for.
LEMMA SdxlFromImageCounts ==
  ASSUME NEW r, NEW n \in Nat, NEW s \in Nat \X (Nat \ {0}), s[1] <= s[2], Near(r) \in Nat,
         Near(r) >= 3
  PROVE  Leads(Counts(r), SdxlFromImage(n, s), <<0, 0, Unseeded, Unseeded>>,
               <<1, IF s[1] = 0 THEN 0 ELSE n, Unseeded, 1>>)
<1> DEFINE u == Unseeded
           schedule == FromImage(n, s)
           run == IF s[1] = 0 THEN 0 ELSE n
           Rest == Latent \o WalkTail(schedule) \o Decode
<1>0. /\ u \in Int /\ 1 \in 0..Near(r) /\ 2 \in 0..Near(r) /\ NearEnough(r) /\ 2 + 1 <= Near(r)
      /\ run \in Nat /\ 0 + run = run /\ CountOf(r, 2, 0, u, 0)
  BY DEF Unseeded, NearEnough, CountOf
<1>1. schedule.ok \in BOOLEAN /\ schedule.whole - schedule.start = run
  BY TailIsTheSteps
<1> HIDE DEF u, schedule, run
<1>2. Leads(Counts(r), ReadPrompts, <<0, 0, u, u>>, <<1, 0, u, u>>)
  BY <1>0, ReadPromptsCounts
<1>3. Leads(Counts(r), Seed("device"), <<1, 0, u, u>>, <<1, 0, u, 0>>)
  BY <1>0, DeviceSeeded
<1>4. Leads(Counts(r), Work("picture"), <<1, 0, u, 0>>, <<2, 0, u, 0>>)
  BY <1>0, WorkCounts
<1>5. Leads(Counts(r), Latent, <<2, 0, u, 0>>, <<2, 0, u, 1>>)
  BY <1>0, LatentCounts
<1>6. Leads(Counts(r), WalkTail(schedule), <<2, 0, u, 1>>, <<2, run, u, 1>>)
  <2>1. Leads(Counts(r), Walk(run), <<2, 0, u, 1>>, <<2, 0 + run, u, 1>>)
    BY <1>0, WalkCounts
  <2> QED
    BY <1>0, <1>1, <2>1 DEF WalkTail
<1>7. Leads(Counts(r), Decode, <<2, run, u, 1>>, <<1, run, u, 1>>)
  BY <1>0, DecodeCounts
<1>8. Leads(Counts(r), Rest, <<2, 0, u, 0>>, <<1, run, u, 1>>)
  BY <1>5, <1>6, <1>7, Joined
<1>9. Leads(Counts(r), Where(schedule.ok, Rest), <<2, 0, u, 0>>, <<1, run, u, 1>>)
  <2> HIDE DEF Rest
  <2> QED
    BY <1>8, FailCounts DEF Where
<1>10. Leads(Counts(r), ReadPrompts \o Seed("device") \o Work("picture") \o Where(schedule.ok, Rest),
             <<0, 0, u, u>>, <<1, run, u, 1>>)
  BY <1>2, <1>3, <1>4, <1>9, Joined
<1>11. SdxlFromImage(n, s)
         = ReadPrompts \o Seed("device") \o Work("picture") \o Where(schedule.ok, Rest)
  BY DEF SdxlFromImage, schedule
<1> QED
  BY <1>10, <1>11 DEF u, run

\* Where every run starts from: nothing drawn, and no generator of its own seed.
Unbegun == <<0, 0, Unseeded, Unseeded>>
Walks(r) == IF r.from /\ r.strength[1] = 0 THEN 0 ELSE Schedule(r.steps, r.fixed)

\* Two steps of work may be counted of any request.
LEMMA FitsNear ==
  ASSUME NEW r, NearEnough(r), NEW g \in 0..2, NEW w \in Nat, NEW h \in Int, NEW d \in Int
  PROVE  CountOf(r, g, w, h, d) /\ g \in 0..Near(r) /\ g \in Nat
BY DEF CountOf, NearEnough

\* A picture, whichever model draws it.
LEMMA PictureCounts ==
  ASSUME NEW r, AsksToDraw(r), ~Refused(r)
  PROVE  Leads(Counts(r), Picture(r), Unbegun, <<1, Walks(r), Unseeded, 1>>)
<1>1. /\ Near(r) \in Nat /\ Near(r) >= 2 + r.pictures /\ r.pictures \in Nat /\ NearEnough(r)
      /\ r.from => Near(r) >= 3
  BY NearOfPictures DEF NearEnough
<1>2. /\ r.kind = "draw" /\ r.steps \in Nat /\ r.fixed \in Nat /\ r.from \in BOOLEAN
      /\ r.strength \in Nat \X (Nat \ {0}) /\ r.strength[1] <= r.strength[2]
      /\ r.model # "qwen" => Schedule(r.steps, r.fixed) = r.steps
      /\ r.model \in {"sdxl", "krea2", "anima", "qwen"}
  BY DEF AsksToDraw, Schedule
<1>3. r.from => r.model = "sdxl"
  BY <1>2 DEF Refused
<1>4. CASE r.model = "sdxl" /\ r.from
  <2>1. Picture(r) = SdxlFromImage(r.steps, r.strength)
    BY <1>4 DEF Picture
  <2>2. Walks(r) = IF r.strength[1] = 0 THEN 0 ELSE r.steps
    BY <1>2, <1>4 DEF Walks
  <2> QED
    BY <1>1, <1>2, <1>4, <2>1, <2>2, SdxlFromImageCounts DEF Unbegun
<1>5. CASE r.model = "sdxl" /\ ~r.from
  <2>1. Picture(r) = Sdxl(r.steps) /\ Walks(r) = r.steps
    BY <1>2, <1>5 DEF Picture, Walks
  <2> QED
    BY <1>1, <1>2, <2>1, SdxlCounts DEF Unbegun
<1>6. CASE r.model = "krea2"
  <2>1. Picture(r) = Krea2(r.steps) /\ Walks(r) = r.steps
    BY <1>2, <1>3, <1>6 DEF Picture, Walks
  <2> QED
    BY <1>1, <1>2, <2>1, Krea2Counts DEF Unbegun
<1>7. CASE r.model = "anima"
  <2>1. Picture(r) = Anima(r.steps) /\ Walks(r) = r.steps
    BY <1>2, <1>3, <1>7 DEF Picture, Walks
  <2> QED
    BY <1>1, <1>2, <2>1, AnimaCounts DEF Unbegun
<1>8. CASE r.model = "qwen" /\ r.pictures > 0
  <2>1. Picture(r) = QwenWithPictures(r.steps, r.fixed, r.pictures)
    BY <1>8 DEF Picture
  <2>2. Walks(r) = Schedule(r.steps, r.fixed)
    BY <1>3, <1>8 DEF Walks
  <2> QED
    BY <1>1, <1>2, <2>1, <2>2, QwenWithPicturesCounts DEF Unbegun
<1>9. CASE r.model = "qwen" /\ r.pictures = 0
  <2>1. Picture(r) = QwenImage(r.steps, r.fixed)
    BY <1>9 DEF Picture
  <2>2. Walks(r) = Schedule(r.steps, r.fixed)
    BY <1>3, <1>9 DEF Walks
  <2> QED
    BY <1>1, <1>2, <2>1, <2>2, QwenImageCounts DEF Unbegun
<1> QED
  BY <1>1, <1>2, <1>4, <1>5, <1>6, <1>7, <1>8, <1>9

-----------------------------------------------------------------------------
(* The layers of a picture. *)

\* Parts that lead back to where they began can be as many as they are.
LEMMA AgainAndAgain ==
  ASSUME NEW m, NEW n \in Int, NEW s, s = [i \in 1..n |-> s[i]], NEW a,
         \A i \in 1..n : Leads(m, s[i], a, a)
  PROVE  Leads(m, FlattenSeq(s), a, a)
<1>1. PICK k \in Nat : 1..k = 1..n
  <2>1. CASE n \in Nat
    BY <2>1
  <2>2. CASE n \notin Nat
    <3>1. 1..n = 1..0
      BY <2>2
    <3> QED
      BY <3>1
  <2> QED
    BY <2>1, <2>2
<1>2. PICK A : A = [i \in 0..k |-> a]
  OBVIOUS
<1>3. s = [i \in 1..k |-> s[i]]
  BY <1>1
<1>4. \A i \in 1..k : Leads(m, s[i], A[i - 1], A[i])
  <2> SUFFICES ASSUME NEW i \in 1..k PROVE Leads(m, s[i], A[i - 1], A[i])
    OBVIOUS
  <2>1. A[i - 1] = a /\ A[i] = a /\ i \in 1..n
    BY <1>1, <1>2
  <2> QED
    BY <2>1
<1>5. Leads(m, FlattenSeq(s), A[0], A[k])
  BY <1>3, <1>4, PartsLead
<1>6. A[0] = a /\ A[k] = a
  BY <1>2
<1> QED
  BY <1>5, <1>6

\* A look and then some work, as many times.
LEMMA LookAndWork ==
  ASSUME NEW r, NearEnough(r), NEW w \in Nat, NEW h \in Int, NEW d \in Int, NEW step, NEW what,
         what # "step"
  PROVE  Leads(Counts(r), Look(step) \o Work(what), <<1, w, h, d>>, <<1, w, h, d>>)
<1>1. CountOf(r, 0, w, h, d) /\ CountOf(r, 1, w, h, d)
  BY DEF CountOf, NearEnough
<1>2. Leads(Counts(r), Look(step), <<1, w, h, d>>, <<0, w, h, d>>)
  BY <1>1, LookCounts
<1>3. Leads(Counts(r), Work(what), <<0, w, h, d>>, <<1, w, h, d>>)
  BY <1>1, WorkCounts
<1> QED
  BY <1>2, <1>3, Joined

\* One step of a pass, with a draw of its own.
LEMMA LayerCounts ==
  ASSUME NEW r, NearEnough(r), NEW x \in Nat, NEW h \in Int, NEW y \in Nat, NEW on, NEW look,
         y = DrawPlace(r, on)
  PROVE  Leads(Counts(r), Work("step") \o DrawOn("device", on) \o Look(look),
               <<1, x, h, y>>, <<1, x + 1, h, y + 1>>)
<1>1. x + 1 \in Nat /\ y + 1 \in Nat /\ y \in Int /\ y + 1 \in Int /\ 1 \in 0..2 /\ 2 \in 0..2
  OBVIOUS
<1>2. /\ CountOf(r, 2, x + 1, h, y) /\ CountOf(r, 2, x + 1, h, y + 1) /\ CountOf(r, 1, x + 1, h, y + 1)
      /\ 1 \in Nat /\ 2 \in Nat /\ 1 + 1 <= 2 /\ 2 <= 2
  BY <1>1, FitsNear
<1>3. Leads(Counts(r), Work("step"), <<1, x, h, y>>, <<2, x + 1, h, y>>)
  BY <1>2, StepCounts
<1>4. Leads(Counts(r), DrawOn("device", on), <<2, x + 1, h, y>>, <<2, x + 1, h, y + 1>>)
  BY <1>2, DrawDeviceCounts
<1>5. Leads(Counts(r), Look(look), <<2, x + 1, h, y + 1>>, <<1, x + 1, h, y + 1>>)
  BY <1>2, LookCounts
<1> QED
  BY <1>3, <1>4, <1>5, Joined

\* The places of the draws of a pass's steps.
FreshFrom(r, n, pass, p) == \A k \in 1..n : DrawPlace(r, <<"fresh", pass, k>>) = p + k
LayersOf(n, pass) ==
  [k \in 1..n |-> Work("step") \o DrawOn("device", <<"fresh", pass, k>>)
                    \o Look([at |-> "Layers", pass |-> pass, done |-> k, total |-> n])]

\* The steps of one pass over the layers, a fresh draw in each.
LEMMA LayersCounts ==
  ASSUME NEW r, NearEnough(r), NEW n \in Nat, NEW pass, NEW w \in Nat, NEW h \in Int, NEW p \in Nat,
         FreshFrom(r, n, pass, p)
  PROVE  Leads(Counts(r), FlattenSeq(LayersOf(n, pass)), <<1, w, h, p + 1>>, <<1, w + n, h, p + 1 + n>>)
<1> PICK A : A = [i \in 0..n |-> <<1, w + i, h, p + 1 + i>>]
  OBVIOUS
<1> DEFINE s == LayersOf(n, pass)
<1>1. ASSUME NEW i \in 1..n PROVE Leads(Counts(r), s[i], A[i - 1], A[i])
  <2> DEFINE x == w + (i - 1)
             y == p + i
             on == <<"fresh", pass, i>>
             look == [at |-> "Layers", pass |-> pass, done |-> i, total |-> n]
  <2>1. x \in Nat /\ y \in Nat /\ x + 1 = w + i /\ y = p + 1 + (i - 1) /\ y + 1 = p + 1 + i
    OBVIOUS
  <2>2. A[i - 1] = <<1, w + (i - 1), h, p + 1 + (i - 1)>> /\ A[i] = <<1, w + i, h, p + 1 + i>>
    OBVIOUS
  <2>3. y = DrawPlace(r, on)
    BY DEF FreshFrom
  <2>4. s[i] = Work("step") \o DrawOn("device", on) \o Look(look)
    BY DEF LayersOf
  <2> HIDE DEF x, y, on, look, s
  <2>5. Leads(Counts(r), Work("step") \o DrawOn("device", on) \o Look(look),
              <<1, x, h, y>>, <<1, x + 1, h, y + 1>>)
    BY <2>1, <2>3, LayerCounts
  <2>6. A[i - 1] = <<1, x, h, y>> /\ A[i] = <<1, x + 1, h, y + 1>>
    BY <2>1, <2>2 DEF x
  <2> QED
    BY <2>4, <2>5, <2>6
<1>2. s = [i \in 1..n |-> s[i]]
  BY DEF LayersOf
<1>3. A[0] = <<1, w, h, p + 1>> /\ A[n] = <<1, w + n, h, p + 1 + n>>
  OBVIOUS
<1> HIDE DEF s
<1>4. Leads(Counts(r), FlattenSeq(s), A[0], A[n])
  BY <1>1, <1>2, PartsLead
<1> QED
  BY <1>3, <1>4 DEF s

\* What may be refused.
LEMMA WhereCounts ==
  ASSUME NEW r, NEW rest, NEW a, NEW b, Leads(Counts(r), rest, a, b), NEW ok
  PROVE  Leads(Counts(r), Where(ok, rest), a, b)
BY FailCounts DEF Where

\* One pass: the picture, the steps and the layers decoded.
LEMMA PassCounts ==
  ASSUME NEW r, NearEnough(r), NEW n \in Nat, NEW o \in Nat, NEW pass, NEW g \in Nat, NEW w \in Nat,
         NEW h \in Int, NEW p \in Nat, p = DrawPlace(r, <<"initial", pass>>), FreshFrom(r, n, pass, p)
  PROVE  Leads(Counts(r), Pass(pass, n, o), <<g, w, h, p>>, <<1, w + n, h, p + 1 + n>>)
<1> DEFINE look == [at |-> "Encoding", pass |-> pass]
           on == <<"initial", pass>>
           s == LayersOf(n, pass)
           t == [f \in 1..o |-> Look([at |-> "Decoding", pass |-> pass, done |-> f - 1,
                                     total |-> o]) \o Work("layer")]
           a == <<1, w + n, h, p + 1 + n>>
<1>1. Pass(pass, n, o)
        = Look(look) \o Work("picture")
            \o Where(n \in 1..(Trained - 1), DrawOn("device", on) \o FlattenSeq(s) \o FlattenSeq(t))
  BY DEF Pass, Each, LayersOf
<1>2. w + n \in Nat /\ p + 1 + n \in Int /\ p + 1 \in Nat /\ p \in Int /\ o \in Int
  OBVIOUS
<1>3. Leads(Counts(r), FlattenSeq(s), <<1, w, h, p + 1>>, a)
  BY LayersCounts
<1>4. Leads(Counts(r), FlattenSeq(t), a, a)
  <2>1. ASSUME NEW f \in 1..o PROVE Leads(Counts(r), t[f], a, a)
    BY <1>2, LookAndWork
  <2>2. t = [f \in 1..o |-> t[f]]
    OBVIOUS
  <2> HIDE DEF t, a
  <2> QED
    BY <1>2, <2>1, <2>2, AgainAndAgain, Zenon
<1>5. p = DrawPlace(r, on)
  OBVIOUS
<1> HIDE DEF look, on, s, t, a
<1>6. Leads(Counts(r), Look(look), <<g, w, h, p>>, <<0, w, h, p>>)
  BY <1>2, LookCounts, FitsNear
<1>7. Leads(Counts(r), Work("picture"), <<0, w, h, p>>, <<1, w, h, p>>)
  BY <1>2, WorkCounts, FitsNear
<1>8. Leads(Counts(r), DrawOn("device", on), <<1, w, h, p>>, <<1, w, h, p + 1>>)
  BY <1>2, <1>5, DrawDeviceCounts, FitsNear
<1>9. Leads(Counts(r), DrawOn("device", on) \o FlattenSeq(s) \o FlattenSeq(t), <<1, w, h, p>>, a)
  BY <1>3, <1>4, <1>8, Joined
<1>10. Leads(Counts(r), Where(n \in 1..(Trained - 1), DrawOn("device", on) \o FlattenSeq(s) \o FlattenSeq(t)),
             <<1, w, h, p>>, a)
  BY <1>9, WhereCounts
<1>11. Leads(Counts(r), Pass(pass, n, o), <<g, w, h, p>>, a)
  BY <1>1, <1>6, <1>7, <1>10, Joined
<1> QED
  BY <1>11 DEF a

\* A look after every step, whatever is said of it.
LEMMA StepsCounts ==
  ASSUME NEW r, NearEnough(r), NEW n \in Nat, NEW w \in Nat, NEW h \in Int, NEW d \in Int, NEW looks,
         NEW s, s = [k \in 1..n |-> Work("step") \o Look(looks[k])]
  PROVE  Leads(Counts(r), FlattenSeq(s), <<1, w, h, d>>, <<1, w + n, h, d>>)
<1> PICK A : A = [i \in 0..n |-> <<1, w + i, h, d>>]
  OBVIOUS
<1>1. ASSUME NEW i \in 1..n PROVE Leads(Counts(r), s[i], A[i - 1], A[i])
  <2> DEFINE x == w + (i - 1)
  <2>1. x \in Nat /\ x + 1 = w + i /\ x + 1 \in Nat
    OBVIOUS
  <2>2. A[i - 1] = <<1, w + (i - 1), h, d>> /\ A[i] = <<1, w + i, h, d>>
    OBVIOUS
  <2>3. s[i] = Work("step") \o Look(looks[i])
    OBVIOUS
  <2> HIDE DEF x
  <2>4. CountOf(r, 2, x + 1, h, d) /\ CountOf(r, 1, x + 1, h, d) /\ 1 \in Nat /\ 1 + 1 <= 2
    BY <2>1 DEF CountOf, NearEnough
  <2>5. Leads(Counts(r), Work("step"), <<1, x, h, d>>, <<2, x + 1, h, d>>)
    BY <2>1, <2>4, StepCounts
  <2>6. Leads(Counts(r), Look(looks[i]), <<2, x + 1, h, d>>, <<1, x + 1, h, d>>)
    BY <2>4, LookCounts
  <2>7. Leads(Counts(r), Work("step") \o Look(looks[i]), <<1, x, h, d>>, <<1, x + 1, h, d>>)
    BY <2>5, <2>6, Joined
  <2>8. A[i - 1] = <<1, x, h, d>> /\ A[i] = <<1, x + 1, h, d>>
    BY <2>1, <2>2 DEF x
  <2> QED
    BY <2>3, <2>7, <2>8
<1>2. s = [i \in 1..n |-> s[i]]
  OBVIOUS
<1>3. A[0] = <<1, w, h, d>> /\ A[n] = <<1, w + n, h, d>>
  OBVIOUS
<1>4. Leads(Counts(r), FlattenSeq(s), A[0], A[n])
  BY <1>1, <1>2, PartsLead
<1> QED
  BY <1>3, <1>4

\* The depth.
LEMMA DepthCounts ==
  ASSUME NEW r, NearEnough(r), NEW n \in Nat, NEW q \in Nat, NEW w \in Nat, NEW h \in Int,
         NEW d \in Nat, d = DrawPlace(r, <<"depth">>)
  PROVE  Leads(Counts(r), Depth(n, q), <<1, w, h, d>>, <<1, w + n, h, d + 1>>)
<1> DEFINE s == [i \in 1..q |-> Look([at |-> "DepthEncoding", done |-> i - 1, total |-> q])
                                  \o Work("slot")]
           t == [k \in 1..n |-> Work("step") \o Look([at |-> "Depth", done |-> k, total |-> n])]
           v == [i \in 1..(q - 1) |-> Look([at |-> "DepthDecoding", done |-> i - 1, total |-> q - 1])
                                        \o Work("slot")]
           on == <<"depth">>
           a == <<1, w, h, d>>
           b == <<1, w + n, h, d + 1>>
<1>0. d + 1 \in Int /\ w + n \in Nat /\ q - 1 \in Int /\ q \in Int /\ d \in Int
  OBVIOUS
<1>1. Leads(Counts(r), FlattenSeq(s), a, a)
  <2>1. ASSUME NEW i \in 1..q PROVE Leads(Counts(r), s[i], a, a)
    BY <1>0, LookAndWork
  <2>2. s = [i \in 1..q |-> s[i]]
    OBVIOUS
  <2> HIDE DEF s, a
  <2> QED
    BY <1>0, <2>1, <2>2, AgainAndAgain, Zenon
<1>2. Leads(Counts(r), FlattenSeq(t), <<1, w, h, d + 1>>, b)
  <2> DEFINE looks == [k \in 1..n |-> [at |-> "Depth", done |-> k, total |-> n]]
  <2>1. t = [k \in 1..n |-> Work("step") \o Look(looks[k])]
    OBVIOUS
  <2> HIDE DEF t, looks
  <2> QED
    BY <1>0, <2>1, StepsCounts
<1>3. Leads(Counts(r), FlattenSeq(v), b, b)
  <2>1. ASSUME NEW i \in 1..(q - 1) PROVE Leads(Counts(r), v[i], b, b)
    BY <1>0, LookAndWork
  <2>2. v = [i \in 1..(q - 1) |-> v[i]]
    OBVIOUS
  <2> HIDE DEF v, b
  <2> QED
    BY <1>0, <2>1, <2>2, AgainAndAgain, Zenon
<1>4. Leads(Counts(r), DrawOn("device", on), <<1, w, h, d>>, <<1, w, h, d + 1>>)
  BY <1>0, DrawDeviceCounts, FitsNear
<1>5. Depth(n, q) = FlattenSeq(s)
                      \o Where(n \in 1..Trained, DrawOn("device", on) \o FlattenSeq(t) \o FlattenSeq(v))
  BY DEF Depth, Each
<1> HIDE DEF s, t, v, on, b
<1>6. Leads(Counts(r), DrawOn("device", on) \o FlattenSeq(t) \o FlattenSeq(v), a, b)
  BY <1>2, <1>3, <1>4, Joined
<1>7. Leads(Counts(r), Where(n \in 1..Trained, DrawOn("device", on) \o FlattenSeq(t) \o FlattenSeq(v)), a, b)
  BY <1>6, WhereCounts
<1> QED
  BY <1>1, <1>5, <1>7, Joined DEF b

\* Where the draws of a document are.
LEMMA LayerPlaces ==
  ASSUME NEW r, AsksForLayers(r)
  PROVE  /\ DrawPlace(r, <<"initial", 0>>) = 0 /\ FreshFrom(r, r.steps, 0, 0)
         /\ DrawPlace(r, <<"initial", 1>>) = r.steps + 1 /\ FreshFrom(r, r.steps, 1, r.steps + 1)
         /\ DrawPlace(r, <<"depth">>) = (IF r.head THEN (r.steps + 1) + 1 + r.steps ELSE 0 + 1 + r.steps)
<1>1. r.steps \in Nat /\ r.head \in BOOLEAN
  BY DEF AsksForLayers
<1>2. DrawPlace(r, <<"initial", 0>>) = 0 * (r.steps + 1)
  BY DEF DrawPlace
<1>3. DrawPlace(r, <<"initial", 1>>) = 1 * (r.steps + 1)
  BY DEF DrawPlace
<1>4. ASSUME NEW k \in 1..r.steps PROVE DrawPlace(r, <<"fresh", 0, k>>) = 0 * (r.steps + 1) + k
  BY DEF DrawPlace
<1>5. ASSUME NEW k \in 1..r.steps PROVE DrawPlace(r, <<"fresh", 1, k>>) = 1 * (r.steps + 1) + k
  BY DEF DrawPlace
<1>6. DrawPlace(r, <<"depth">>) = (IF r.head THEN 2 ELSE 1) * (r.steps + 1)
  BY DEF DrawPlace
<1>7. 0 * (r.steps + 1) = 0 /\ 1 * (r.steps + 1) = r.steps + 1
  BY <1>1
<1>8. FreshFrom(r, r.steps, 0, 0)
  BY <1>1, <1>4, <1>7 DEF FreshFrom
<1>9. FreshFrom(r, r.steps, 1, r.steps + 1)
  BY <1>1, <1>5, <1>7 DEF FreshFrom
<1>10. DrawPlace(r, <<"depth">>) = (IF r.head THEN (r.steps + 1) + 1 + r.steps ELSE 0 + 1 + r.steps)
  BY <1>1, <1>6
<1> QED
  BY <1>2, <1>3, <1>7, <1>8, <1>9, <1>10

\* All of the layers of a picture, one pass or two.
LEMMA DecomposeCounts ==
  ASSUME NEW r, AsksForLayers(r)
  PROVE  \E z : Leads(Counts(r), Decompose(r), Unbegun, z)
<1> DEFINE n == r.steps
           o == r.frames
           q == n + 1
           head == Pass(1, n, o)
           u == Unseeded
           look == [at |-> "Assembling"]
<1>1. n \in Nat /\ o \in Nat /\ r.dsteps \in Nat /\ r.slots \in Nat /\ r.head \in BOOLEAN /\ NearEnough(r)
  BY DEF AsksForLayers, NearEnough, Near, Unreported
<1>2. /\ DrawPlace(r, <<"initial", 0>>) = 0 /\ FreshFrom(r, n, 0, 0)
      /\ DrawPlace(r, <<"initial", 1>>) = q /\ FreshFrom(r, n, 1, q)
      /\ DrawPlace(r, <<"depth">>) = (IF r.head THEN q + 1 + n ELSE 0 + 1 + n)
  BY LayerPlaces
<1>3. q \in Nat /\ q = 0 + 1 + n /\ 0 + n = n /\ u \in Int /\ q + 1 + n \in Nat /\ n + n \in Nat
  BY <1>1 DEF Unseeded
<1>4. Decompose(r) = Where(r.given # "empty", Seed("device") \o Where(r.given # "odd",
                       Pass(0, n, o) \o (IF r.head THEN head ELSE <<>>)
                         \o Depth(r.dsteps, r.slots) \o Look(look) \o Work("assemble")))
  BY DEF Decompose
<1>5. Unbegun = <<0, 0, u, u>>
  BY DEF Unbegun
<1> HIDE DEF n, o, q, head, u, look
<1>6. Leads(Counts(r), Seed("device"), Unbegun, <<0, 0, u, 0>>)
  <2>1. 0 \in 0..Near(r)
    BY <1>1 DEF NearEnough
  <2> QED
    BY <1>1, <1>3, <1>5, <2>1, DeviceSeeded
<1>7. Leads(Counts(r), Pass(0, n, o), <<0, 0, u, 0>>, <<1, n, u, q>>)
  <2>1. Leads(Counts(r), Pass(0, n, o), <<0, 0, u, 0>>, <<1, 0 + n, u, 0 + 1 + n>>)
    BY <1>1, <1>2, <1>3, PassCounts
  <2> QED
    BY <1>3, <2>1
<1>8. PICK w \in Nat, p \in Nat :
        /\ Leads(Counts(r), IF r.head THEN head ELSE <<>>, <<1, n, u, q>>, <<1, w, u, p>>)
        /\ p = DrawPlace(r, <<"depth">>)
  <2>1. CASE r.head
    <3>1. Leads(Counts(r), head, <<1, n, u, q>>, <<1, n + n, u, q + 1 + n>>)
      BY <1>1, <1>2, <1>3, PassCounts DEF head
    <3> QED
      BY <1>2, <1>3, <2>1, <3>1
  <2>2. CASE ~r.head
    <3>1. Leads(Counts(r), <<>>, <<1, n, u, q>>, <<1, n, u, q>>)
      BY NothingLeads
    <3> QED
      BY <1>1, <1>2, <1>3, <2>2, <3>1
  <2> QED
    BY <2>1, <2>2
<1> DEFINE v == w + r.dsteps
           d == p + 1
<1>9. v \in Nat /\ d \in Int
  BY <1>1
<1>10. Leads(Counts(r), Depth(r.dsteps, r.slots), <<1, w, u, p>>, <<1, v, u, d>>)
  BY <1>1, <1>3, <1>8, DepthCounts
<1> HIDE DEF v, d
<1>11. /\ Leads(Counts(r), Look(look), <<1, v, u, d>>, <<0, v, u, d>>)
       /\ Leads(Counts(r), Work("assemble"), <<0, v, u, d>>, <<1, v, u, d>>)
  BY <1>1, <1>3, <1>9, LookCounts, WorkCounts, FitsNear
<1> DEFINE maybe == IF r.head THEN head ELSE <<>>
           a == Seed("device")
           b == Pass(0, n, o)
           c == Depth(r.dsteps, r.slots)
           all == b \o maybe \o c \o Look(look) \o Work("assemble")
<1>12. Leads(Counts(r), Where(r.given # "empty", a \o Where(r.given # "odd", all)), Unbegun, <<1, v, u, d>>)
  <2> HIDE DEF maybe, a, b, c
  <2>1. Leads(Counts(r), b, <<0, 0, u, 0>>, <<1, n, u, q>>) /\ Leads(Counts(r), a, Unbegun, <<0, 0, u, 0>>)
    BY <1>6, <1>7 DEF a, b
  <2>2. Leads(Counts(r), b \o maybe, <<0, 0, u, 0>>, <<1, w, u, p>>)
    BY <1>8, <2>1, Joined DEF maybe
  <2>3. Leads(Counts(r), b \o maybe \o c, <<0, 0, u, 0>>, <<1, v, u, d>>)
    BY <1>10, <2>2, Joined DEF c
  <2>4. Leads(Counts(r), all, <<0, 0, u, 0>>, <<1, v, u, d>>)
    BY <1>11, <2>3, Joined
  <2> HIDE DEF all
  <2>5. Leads(Counts(r), a \o Where(r.given # "odd", all), Unbegun, <<1, v, u, d>>)
    BY <2>1, <2>4, WhereCounts, Joined
  <2> QED
    BY <2>5, WhereCounts
<1>13. Decompose(r) = Where(r.given # "empty", a \o Where(r.given # "odd", all))
  BY <1>4
<1> HIDE DEF maybe, a, b, c, all
<1> QED
  BY <1>12, <1>13

-----------------------------------------------------------------------------
(* Voices. Nothing a voice does is a step, and each of its draws is of one of the two generators. *)

\* So much drawn of one generator, and so much of the other.
AtPlaces(gen, g, o, p) == IF gen = "host" THEN <<g, 0, p, o>> ELSE <<g, 0, o, p>>
FitsIn(r, g) == g \in 0..Near(r)

\* A look, the generators named by the one that is drawn from.
LEMMA AtLook ==
  ASSUME NEW r, NEW gen, NEW o \in Int, NEW p \in Int, NEW g, NEW e, FitsIn(r, e), NEW step
  PROVE  Leads(Counts(r), Look(step), AtPlaces(gen, g, o, p), AtPlaces(gen, e, o, p))
<1>1. CountOf(r, e, 0, o, p) /\ CountOf(r, e, 0, p, o)
  BY DEF CountOf, FitsIn
<1>2. CASE gen = "host"
  <2>1. AtPlaces(gen, g, o, p) = <<g, 0, p, o>> /\ AtPlaces(gen, e, o, p) = <<e, 0, p, o>>
    BY <1>2 DEF AtPlaces
  <2> QED
    BY <1>1, <2>1, LookCounts
<1>3. CASE gen # "host"
  <2>1. AtPlaces(gen, g, o, p) = <<g, 0, o, p>> /\ AtPlaces(gen, e, o, p) = <<e, 0, o, p>>
    BY <1>3 DEF AtPlaces
  <2> QED
    BY <1>1, <2>1, LookCounts
<1> QED
  BY <1>2, <1>3

\* A part handed over, so named.
LEMMA AtHand ==
  ASSUME NEW r, NEW gen, NEW o \in Int, NEW p \in Int, NEW g, NEW e, FitsIn(r, e)
  PROVE  Leads(Counts(r), Hand, AtPlaces(gen, g, o, p), AtPlaces(gen, e, o, p))
<1>1. CountOf(r, e, 0, o, p) /\ CountOf(r, e, 0, p, o)
  BY DEF CountOf, FitsIn
<1>2. CASE gen = "host"
  <2>1. AtPlaces(gen, g, o, p) = <<g, 0, p, o>> /\ AtPlaces(gen, e, o, p) = <<e, 0, p, o>>
    BY <1>2 DEF AtPlaces
  <2> QED
    BY <1>1, <2>1, HandCounts
<1>3. CASE gen # "host"
  <2>1. AtPlaces(gen, g, o, p) = <<g, 0, o, p>> /\ AtPlaces(gen, e, o, p) = <<e, 0, o, p>>
    BY <1>3 DEF AtPlaces
  <2> QED
    BY <1>1, <2>1, HandCounts
<1> QED
  BY <1>2, <1>3

\* Work, so named.
LEMMA AtWork ==
  ASSUME NEW r, NEW gen, NEW o \in Int, NEW p \in Int, NEW g \in Nat, NEW e, FitsIn(r, e), g + 1 <= e,
         NEW what, what # "step"
  PROVE  Leads(Counts(r), Work(what), AtPlaces(gen, g, o, p), AtPlaces(gen, e, o, p))
<1>1. CountOf(r, e, 0, o, p) /\ CountOf(r, e, 0, p, o)
  BY DEF CountOf, FitsIn
<1>2. CASE gen = "host"
  <2>1. AtPlaces(gen, g, o, p) = <<g, 0, p, o>> /\ AtPlaces(gen, e, o, p) = <<e, 0, p, o>>
    BY <1>2 DEF AtPlaces
  <2> QED
    BY <1>1, <2>1, WorkCounts
<1>3. CASE gen # "host"
  <2>1. AtPlaces(gen, g, o, p) = <<g, 0, o, p>> /\ AtPlaces(gen, e, o, p) = <<e, 0, o, p>>
    BY <1>3 DEF AtPlaces
  <2> QED
    BY <1>1, <2>1, WorkCounts
<1> QED
  BY <1>2, <1>3

\* A draw, so named.
LEMMA AtDraw ==
  ASSUME NEW r, NEW gen \in {"host", "device"}, NEW o \in Int, NEW p \in Nat, NEW g \in Nat, NEW e,
         FitsIn(r, e), g <= e, NEW on, p = DrawPlace(r, on), NEW q, q = p + 1
  PROVE  Leads(Counts(r), DrawOn(gen, on), AtPlaces(gen, g, o, p), AtPlaces(gen, e, o, q))
<1>1. CountOf(r, e, 0, o, p) /\ CountOf(r, e, 0, p, o)
  BY DEF CountOf, FitsIn
<1>2. CASE gen = "host"
  <2>1. AtPlaces(gen, g, o, p) = <<g, 0, p, o>> /\ AtPlaces(gen, e, o, q) = <<e, 0, p + 1, o>>
    BY <1>2 DEF AtPlaces
  <2>2. Leads(Counts(r), DrawOn("host", on), <<g, 0, p, o>>, <<e, 0, p + 1, o>>)
    BY <1>1, DrawHostCounts
  <2> QED
    BY <1>2, <2>1, <2>2
<1>3. CASE gen = "device"
  <2>1. AtPlaces(gen, g, o, p) = <<g, 0, o, p>> /\ AtPlaces(gen, e, o, q) = <<e, 0, o, p + 1>>
    BY <1>3 DEF AtPlaces
  <2>2. Leads(Counts(r), DrawOn("device", on), <<g, 0, o, p>>, <<e, 0, o, p + 1>>)
    BY <1>1, DrawDeviceCounts
  <2> QED
    BY <1>3, <2>1, <2>2
<1> QED
  BY <1>2, <1>3

\* A seed, so named.
LEMMA AtSeed ==
  ASSUME NEW r, NEW gen \in {"host", "device"}, NEW o \in Int, NEW p \in Int, NEW g \in Nat, NEW e,
         FitsIn(r, e), g <= e
  PROVE  Leads(Counts(r), Seed(gen), AtPlaces(gen, g, o, p), AtPlaces(gen, e, o, 0))
<1>1. CountOf(r, e, 0, o, p) /\ CountOf(r, e, 0, p, o)
  BY DEF CountOf, FitsIn
<1>2. CASE gen = "host"
  <2>1. AtPlaces(gen, g, o, p) = <<g, 0, p, o>> /\ AtPlaces(gen, e, o, 0) = <<e, 0, 0, o>>
    BY <1>2 DEF AtPlaces
  <2>2. Leads(Counts(r), Seed("host"), <<g, 0, p, o>>, <<e, 0, 0, o>>)
    BY <1>1, SeedHostCounts
  <2> QED
    BY <1>2, <2>1, <2>2
<1>3. CASE gen = "device"
  <2>1. AtPlaces(gen, g, o, p) = <<g, 0, o, p>> /\ AtPlaces(gen, e, o, 0) = <<e, 0, o, 0>>
    BY <1>3 DEF AtPlaces
  <2>2. Leads(Counts(r), Seed("device"), <<g, 0, o, p>>, <<e, 0, o, 0>>)
    BY <1>1, SeedDeviceCounts
  <2> QED
    BY <1>3, <2>1, <2>2
<1> QED
  BY <1>2, <1>3

\* Where the tokens of a piece are drawn from.
TokensFrom(r, i, n, base) == \A j \in 1..(n + 1) : DrawPlace(r, <<"token", i, j>>) = base + (j - 1)

SaidOf(gen, pieces, i, n) ==
  [j \in 1..n |-> DrawOn(gen, <<"token", i, j>>) \o SayingOf(pieces, i, j) \o Work("token")]

\* One token of a piece.
LEMMA TokenCounts ==
  ASSUME NEW r, NearEnough(r), NEW gen \in {"host", "device"}, NEW pieces, NEW i, NEW j,
         NEW g \in Nat, FitsIn(r, g), NEW o \in Int, NEW p \in Nat, NEW q, q = p + 1,
         p = DrawPlace(r, <<"token", i, j>>), NEW e \in Nat, FitsIn(r, e), 1 <= e
  PROVE  Leads(Counts(r), DrawOn(gen, <<"token", i, j>>) \o SayingOf(pieces, i, j) \o Work("token"),
               AtPlaces(gen, g, o, p), AtPlaces(gen, e, o, q))
<1>1. q \in Int /\ FitsIn(r, 0) /\ g <= g /\ 0 + 1 <= e /\ 0 \in Nat
  BY DEF FitsIn, NearEnough
<1>2. PICK step : SayingOf(pieces, i, j) = Look(step)
  BY DEF SayingOf
<1>3. Leads(Counts(r), DrawOn(gen, <<"token", i, j>>), AtPlaces(gen, g, o, p), AtPlaces(gen, g, o, q))
  BY <1>1, AtDraw
<1>4. Leads(Counts(r), SayingOf(pieces, i, j), AtPlaces(gen, g, o, q), AtPlaces(gen, 0, o, q))
  BY <1>1, <1>2, AtLook
<1>5. Leads(Counts(r), Work("token"), AtPlaces(gen, 0, o, q), AtPlaces(gen, e, o, q))
  BY <1>1, AtWork
<1> QED
  BY <1>3, <1>4, <1>5, Joined

\* All of them, and nothing done where there are none.
LEMMA SaidCounts ==
  ASSUME NEW r, NearEnough(r), NEW gen \in {"host", "device"}, NEW pieces, NEW i, NEW n \in Nat,
         NEW g \in Nat, FitsIn(r, g), NEW o \in Int, NEW base \in Nat, TokensFrom(r, i, n, base),
         NEW z \in Nat, FitsIn(r, z), 1 <= z
  PROVE  Leads(Counts(r), FlattenSeq(SaidOf(gen, pieces, i, n)), AtPlaces(gen, g, o, base),
               AtPlaces(gen, IF n = 0 THEN g ELSE z, o, base + n))
<1> PICK A : A = [j \in 0..n |-> AtPlaces(gen, IF j = 0 THEN g ELSE z, o, base + j)]
  OBVIOUS
<1> DEFINE s == SaidOf(gen, pieces, i, n)
<1>1. ASSUME NEW j \in 1..n PROVE Leads(Counts(r), s[j], A[j - 1], A[j])
  <2> DEFINE p == base + (j - 1)
             q == base + j
             e == IF j - 1 = 0 THEN g ELSE z
  <2>1. p \in Nat /\ q = p + 1 /\ e \in Nat /\ FitsIn(r, e)
    BY DEF FitsIn, NearEnough
  <2>2. p = DrawPlace(r, <<"token", i, j>>)
    BY DEF TokensFrom
  <2>3. A[j - 1] = AtPlaces(gen, e, o, p) /\ A[j] = AtPlaces(gen, z, o, q)
    OBVIOUS
  <2>4. s[j] = DrawOn(gen, <<"token", i, j>>) \o SayingOf(pieces, i, j) \o Work("token")
    BY DEF SaidOf
  <2> HIDE DEF p, q, e, s
  <2>5. Leads(Counts(r), DrawOn(gen, <<"token", i, j>>) \o SayingOf(pieces, i, j) \o Work("token"),
              AtPlaces(gen, e, o, p), AtPlaces(gen, z, o, q))
    BY <2>1, <2>2, TokenCounts
  <2> QED
    BY <2>3, <2>4, <2>5
<1>2. s = [j \in 1..n |-> s[j]]
  BY DEF SaidOf
<1>3. A[0] = AtPlaces(gen, g, o, base) /\ A[n] = AtPlaces(gen, IF n = 0 THEN g ELSE z, o, base + n)
  OBVIOUS
<1> HIDE DEF s
<1>4. Leads(Counts(r), FlattenSeq(s), A[0], A[n])
  BY <1>1, <1>2, PartsLead
<1> QED
  BY <1>3, <1>4 DEF s

\* The tokens of a piece, a draw for each, and one for the token that stops it where it was not cut.
LEMMA TokensCounts ==
  ASSUME NEW r, NearEnough(r), NEW gen \in {"host", "device"}, NEW pieces, NEW i,
         NEW n \in Nat, n = pieces[i].says, NEW g \in Nat, g + 1 <= Near(r), NEW o \in Int,
         NEW base \in Nat, TokensFrom(r, i, n, base),
         NEW last, last = base + n + (IF pieces[i].cut THEN 0 ELSE 1),
         NEW e \in Nat, FitsIn(r, e), 1 <= e, n = 0 => g + 1 = e
  PROVE  Leads(Counts(r), Tokens(gen, pieces, i), AtPlaces(gen, g, o, base), AtPlaces(gen, e, o, last))
<1> DEFINE f == g + 1
           p == base + n
           s == SaidOf(gen, pieces, i, n)
           stopping == IF pieces[i].cut THEN <<>> ELSE DrawOn(gen, <<"token", i, n + 1>>)
<1>1. f \in Nat /\ FitsIn(r, f) /\ g + 1 <= f /\ e <= e /\ p \in Nat
      /\ p = base + ((n + 1) - 1) /\ base \in Int /\ n + 1 \in 1..(n + 1)
      /\ (IF n = 0 THEN f ELSE e) = e
  BY DEF FitsIn, NearEnough
<1>2. Tokens(gen, pieces, i) = Work("prefill") \o FlattenSeq(s) \o stopping
  BY DEF Tokens, Each, SaidOf
<1>3. p = DrawPlace(r, <<"token", i, n + 1>>)
  BY <1>1 DEF TokensFrom
<1>4. Leads(Counts(r), Work("prefill"), AtPlaces(gen, g, o, base), AtPlaces(gen, f, o, base))
  <2> HIDE DEF f
  <2> QED
    BY <1>1, AtWork
<1>5. Leads(Counts(r), FlattenSeq(s), AtPlaces(gen, f, o, base), AtPlaces(gen, e, o, p))
  <2> HIDE DEF f
  <2>1. Leads(Counts(r), FlattenSeq(s), AtPlaces(gen, f, o, base),
              AtPlaces(gen, IF n = 0 THEN f ELSE e, o, base + n))
    BY <1>1, SaidCounts
  <2> QED
    BY <1>1, <2>1
<1>6. Leads(Counts(r), stopping, AtPlaces(gen, e, o, p), AtPlaces(gen, e, o, last))
  <2>1. CASE pieces[i].cut
    <3>1. last = p /\ stopping = <<>>
      BY <2>1
    <3> HIDE DEF p, stopping
    <3> QED
      BY <3>1, NothingLeads
  <2>2. CASE ~pieces[i].cut
    <3> DEFINE on == <<"token", i, n + 1>>
    <3>1. last = p + 1 /\ stopping = DrawOn(gen, on) /\ p = DrawPlace(r, on)
      BY <1>3, <2>2
    <3> HIDE DEF p, stopping, on
    <3> QED
      BY <1>1, <3>1, AtDraw
  <2> QED
    BY <2>1, <2>2
<1> HIDE DEF f, p, s, stopping
<1> QED
  BY <1>2, <1>4, <1>5, <1>6, Joined

\* Counting one more of the first numbers that are in a set.
LEMMA CountsUp ==
  ASSUME NEW S, NEW n \in Nat, NEW m, m = n + 1
  PROVE  /\ Cardinality({k \in 1..n : k \in S}) \in Nat
         /\ Cardinality({k \in 1..m : k \in S})
              = Cardinality({k \in 1..n : k \in S}) + (IF m \in S THEN 1 ELSE 0)
<1> DEFINE A == {k \in 1..n : k \in S}
           B == {k \in 1..m : k \in S}
<1>1. IsFiniteSet(A) /\ Cardinality(A) \in Nat
  <2>1. IsFiniteSet(1..n)
    BY FS_Interval
  <2> QED
    BY <2>1, FS_Subset, FS_CardinalityType
<1>2. m \notin A
  OBVIOUS
<1>3. CASE m \in S
  <2>1. B = A \cup {m}
    BY <1>3
  <2> QED
    BY <1>1, <1>2, <1>3, <2>1, FS_AddElement
<1>4. CASE m \notin S
  <2>1. B = A
    BY <1>4
  <2> QED
    BY <1>1, <1>4, <2>1
<1> QED
  BY <1>1, <1>3, <1>4

\* What is sounded of a reading, or of a conversion.
IsSounded(r, i) == IF r.kind = "convert" THEN r.windows[i] # "silent" ELSE r.pieces[i].says > 0

\* What is sounded before a piece, piece by piece.
LEMMA SoundsAdd ==
  ASSUME NEW r, NEW i \in Nat \ {0}
  PROVE  /\ SoundedBefore(r, 1) = 0 /\ SoundedBefore(r, i) \in Nat
         /\ SoundedBefore(r, i + 1) = SoundedBefore(r, i) + (IF IsSounded(r, i) THEN 1 ELSE 0)
<1> DEFINE S == {k \in Nat : IsSounded(r, k)}
<1>1. ASSUME NEW j \in Nat PROVE SoundedBefore(r, j) = Cardinality({k \in 1..(j - 1) : k \in S})
  <2>1. CASE r.kind = "convert"
    <3>1. {k \in 1..(j - 1) : k \in S} = {k \in 1..(j - 1) : r.windows[k] # "silent"}
      BY <2>1 DEF IsSounded
    <3> QED
      BY <2>1, <3>1 DEF SoundedBefore
  <2>2. CASE r.kind # "convert"
    <3>1. {k \in 1..(j - 1) : k \in S} = {k \in 1..(j - 1) : r.pieces[k].says > 0}
      BY <2>2 DEF IsSounded
    <3> QED
      BY <2>2, <3>1 DEF SoundedBefore
  <2> QED
    BY <2>1, <2>2
<1>2. i \in S <=> IsSounded(r, i)
  OBVIOUS
<1> HIDE DEF S
<1> DEFINE n == i - 1
<1>3. n \in Nat /\ i = n + 1 /\ (i + 1) - 1 = i
  OBVIOUS
<1> HIDE DEF n
<1>4. /\ Cardinality({k \in 1..n : k \in S}) \in Nat
      /\ Cardinality({k \in 1..i : k \in S})
           = Cardinality({k \in 1..n : k \in S}) + (IF i \in S THEN 1 ELSE 0)
  BY <1>3, CountsUp
<1>5. SoundedBefore(r, i) = Cardinality({k \in 1..n : k \in S})
  BY <1>1 DEF n
<1>6. SoundedBefore(r, i + 1) = Cardinality({k \in 1..i : k \in S})
  BY <1>1, <1>3
<1>7. SoundedBefore(r, 1) = 0
  <2>1. SoundedBefore(r, 1) = Cardinality({k \in 1..(1 - 1) : k \in S})
    BY <1>1
  <2>2. {k \in 1..(1 - 1) : k \in S} = {}
    OBVIOUS
  <2> QED
    BY <2>1, <2>2, FS_EmptySet
<1> QED
  BY <1>2, <1>4, <1>5, <1>6, <1>7

\* A total is a sum.
LEMMA TotalIsSum ==
  ASSUME NEW c
  PROVE  Total(c) = SumOf(c, DOMAIN c)
BY DEF Total, FoldSeq, FoldFunction, FoldFunctionOnSet, SumOf, MapThenSumSet, MapThenFoldSet

\* The draws made for tokens, piece by piece.
LEMMA DrawsAdd ==
  ASSUME NEW r, NEW i \in Nat \ {0}, \A k \in 1..i : PieceDraws(r, k) \in Nat
  PROVE  /\ TokenDraws(r, i - 1) \in Nat
         /\ TokenDraws(r, i) = TokenDraws(r, i - 1) + PieceDraws(r, i)
<1> DEFINE F == [k \in 1..i |-> PieceDraws(r, k)]
           H == [k \in 1..(i - 1) |-> PieceDraws(r, k)]
<1>1. /\ TokenDraws(r, i) = Total(F) /\ TokenDraws(r, i - 1) = Total(H)
      /\ DOMAIN F = 1..i /\ DOMAIN H = 1..(i - 1)
  BY DEF TokenDraws
<1>2. /\ \A k \in 1..i : F[k] \in Nat /\ F[k] = PieceDraws(r, k)
      /\ \A k \in 1..(i - 1) : F[k] \in Nat /\ H[k] = F[k]
  OBVIOUS
<1> HIDE DEF F, H
<1>4. IsFiniteSet(1..(i - 1)) /\ (1..(i - 1)) \cup {i} = 1..i /\ i \notin 1..(i - 1)
  <2>1. 1 \in Int /\ i - 1 \in Int
    OBVIOUS
  <2>2. IsFiniteSet(1..(i - 1))
    BY <2>1, FS_Interval, Zenon
  <2> QED
    BY <2>2
<1>5. SumOf(H, 1..(i - 1)) = SumOf(F, 1..(i - 1)) /\ SumOf(F, 1..(i - 1)) \in Nat
  BY <1>2, <1>4, SumSame, SumTakes
<1>6. SumOf(F, 1..i) = SumOf(F, 1..(i - 1)) + F[i]
  BY <1>2, <1>4, SumAdds
<1>7. Total(F) = SumOf(F, 1..i) /\ Total(H) = SumOf(H, 1..(i - 1))
  BY <1>1, TotalIsSum
<1>8. F[i] = PieceDraws(r, i)
  BY <1>2
<1> QED
  BY <1>1, <1>5, <1>6, <1>7, <1>8

\* What a reading is asked for.
LEMMA PiecesSay ==
  ASSUME NEW r, AsksToSpeak(r)
  PROVE  /\ Len(r.pieces) \in Nat /\ DOMAIN r.pieces = 1..Len(r.pieces) /\ r.kind = "speak"
         /\ \A i \in 1..Len(r.pieces) : r.pieces[i].says \in Nat /\ PieceDraws(r, i) \in Nat
         /\ Near(r) \in Nat /\ NearEnough(r)
<1>1. r.pieces \in Seq([expects : Nat, says : Nat, cut : BOOLEAN]) /\ r.kind = "speak"
  BY DEF AsksToSpeak
<1>2. Len(r.pieces) \in Nat /\ DOMAIN r.pieces = 1..Len(r.pieces)
  BY <1>1, LenProperties
<1>3. \A i \in 1..Len(r.pieces) : r.pieces[i].says \in Nat
  <2>1. \A i \in 1..Len(r.pieces) : r.pieces[i] \in [expects : Nat, says : Nat, cut : BOOLEAN]
    BY <1>1, ElementOfSeq
  <2> QED
    BY <2>1
<1>4. \A i \in 1..Len(r.pieces) : PieceDraws(r, i) \in Nat
  BY <1>3 DEF PieceDraws
<1>5. Unreported(r) \in Nat
  <2>1. IsFiniteSet(1..Len(r.pieces))
    BY <1>2, FS_Interval
  <2>2. Cardinality({i \in DOMAIN r.pieces : r.pieces[i].says = 0}) \in Nat
    BY <1>2, <2>1, FS_Subset, FS_CardinalityType
  <2> QED
    BY <1>1, <2>2 DEF Unreported
<1> QED
  BY <1>1, <1>2, <1>3, <1>4, <1>5 DEF Near, NearEnough

\* What the whole of a reading draws, and what nothing of it does.
LEMMA DrawsInAll ==
  ASSUME NEW r, AsksToSpeak(r)
  PROVE  TokenDraws(r, 0) = 0 /\ TokenDraws(r, Len(r.pieces)) \in Nat
<1>1. TokenDraws(r, 0) = 0
  <2>1. DOMAIN [k \in 1..0 |-> PieceDraws(r, k)] = {}
    OBVIOUS
  <2> QED
    BY <2>1, TotalIsSum, SumEmpty DEF TokenDraws
<1>2. PICK m \in Nat : m = Len(r.pieces) /\ \A k \in 1..m : PieceDraws(r, k) \in Nat
  BY PiecesSay
<1>3. CASE m # 0
  <2>1. TokenDraws(r, m - 1) \in Nat /\ TokenDraws(r, m) = TokenDraws(r, m - 1) + PieceDraws(r, m)
    BY <1>2, <1>3, DrawsAdd
  <2> QED
    BY <1>1, <1>2, <1>3, <2>1
<1> QED
  BY <1>1, <1>2, <1>3

NoiseFrom(r, base) == \A i \in 1..Len(r.pieces) : DrawPlace(r, <<"noise", i>>) = base + SoundedBefore(r, i)
SoundsOf(pieces) ==
  [i \in 1..Len(pieces) |-> IF pieces[i].says = 0 THEN <<>> ELSE Sound(i) \o Look(Sounding)]

\* One piece sounded.
LEMMA SoundCounts ==
  ASSUME NEW r, NearEnough(r), NEW i, NEW o \in Int, NEW p \in Nat, NEW q, q = p + 1,
         p = DrawPlace(r, <<"noise", i>>)
  PROVE  Leads(Counts(r), Sound(i), AtPlaces("device", 0, o, p), AtPlaces("device", 1, o, q))
<1>1. FitsIn(r, 1) /\ 0 + 1 <= 1 /\ 0 \in Nat /\ 1 \in Nat /\ 1 <= 1 /\ p \in Int
  BY DEF FitsIn, NearEnough
<1>2. Leads(Counts(r), Work("sound"), AtPlaces("device", 0, o, p), AtPlaces("device", 1, o, p))
  BY <1>1, AtWork
<1> DEFINE on == <<"noise", i>>
<1>3. Leads(Counts(r), DrawOn("device", on), AtPlaces("device", 1, o, p), AtPlaces("device", 1, o, q))
  <2> HIDE DEF on
  <2> QED
    BY <1>1, AtDraw DEF on
<1> QED
  BY <1>2, <1>3, Joined DEF Sound

\* The sounding of every piece of a whole reading.
LEMMA SoundsCounts ==
  ASSUME NEW r, AsksToSpeak(r), NEW o \in Int, NEW base \in Nat, NoiseFrom(r, base)
  PROVE  \E p \in Nat : Leads(Counts(r), FlattenSeq(SoundsOf(r.pieces)), AtPlaces("device", 0, o, base),
                              AtPlaces("device", 0, o, p))
<1> DEFINE n == Len(r.pieces)
           s == SoundsOf(r.pieces)
<1>0. /\ n \in Nat /\ r.kind = "speak" /\ NearEnough(r) /\ FitsIn(r, 0)
      /\ \A i \in 1..n : r.pieces[i].says \in Nat
  BY PiecesSay DEF FitsIn, NearEnough
<1> PICK A : A = [i \in 0..n |-> AtPlaces("device", 0, o, base + SoundedBefore(r, i + 1))]
  OBVIOUS
<1>1. ASSUME NEW i \in 1..n PROVE Leads(Counts(r), s[i], A[i - 1], A[i])
  <2> DEFINE p == base + SoundedBefore(r, i)
             q == base + SoundedBefore(r, i + 1)
  <2>1. SoundedBefore(r, i) \in Nat
        /\ SoundedBefore(r, i + 1) = SoundedBefore(r, i) + (IF IsSounded(r, i) THEN 1 ELSE 0)
    BY SoundsAdd
  <2>2. p \in Nat /\ p \in Int /\ p = DrawPlace(r, <<"noise", i>>)
    BY <2>1 DEF NoiseFrom
  <2>3. A[i - 1] = AtPlaces("device", 0, o, p) /\ A[i] = AtPlaces("device", 0, o, q)
    <3>1. i - 1 \in 0..n /\ (i - 1) + 1 = i /\ i \in 0..n
      BY <1>0
    <3> QED
      BY <3>1
  <2>4. IsSounded(r, i) <=> r.pieces[i].says # 0
    BY <1>0 DEF IsSounded
  <2>5. CASE r.pieces[i].says = 0
    <3>1. q = p /\ s[i] = <<>>
      BY <2>1, <2>4, <2>5 DEF SoundsOf
    <3> HIDE DEF p, q, s
    <3> QED
      BY <2>3, <3>1, NothingLeads
  <2>6. CASE r.pieces[i].says # 0
    <3>1. q = p + 1 /\ s[i] = Sound(i) \o Look(Sounding) /\ q \in Int
      BY <2>1, <2>4, <2>6 DEF SoundsOf
    <3> HIDE DEF p, q, s
    <3>2. Leads(Counts(r), Sound(i), AtPlaces("device", 0, o, p), AtPlaces("device", 1, o, q))
      BY <1>0, <2>2, <3>1, SoundCounts
    <3>3. Leads(Counts(r), Look(Sounding), AtPlaces("device", 1, o, q), AtPlaces("device", 0, o, q))
      BY <1>0, <3>1, AtLook
    <3>4. Leads(Counts(r), Sound(i) \o Look(Sounding), AtPlaces("device", 0, o, p), AtPlaces("device", 0, o, q))
      BY <3>2, <3>3, Joined
    <3> QED
      BY <2>3, <3>1, <3>4
  <2> QED
    BY <2>5, <2>6
<1>2. s = [i \in 1..n |-> s[i]]
  BY DEF SoundsOf
<1>3. A[0] = AtPlaces("device", 0, o, base) /\ A[n] = AtPlaces("device", 0, o, base + SoundedBefore(r, n + 1))
  <2>1. SoundedBefore(r, 1) = 0
    BY SoundsAdd
  <2> QED
    BY <1>0, <2>1
<1>4. base + SoundedBefore(r, n + 1) \in Nat
  <2>1. n + 1 \in Nat \ {0}
    BY <1>0
  <2>2. SoundedBefore(r, n + 1) \in Nat
    BY <2>1, SoundsAdd
  <2> QED
    BY <2>2
<1> HIDE DEF s, n
<1>5. Leads(Counts(r), FlattenSeq(s), A[0], A[n])
  BY <1>0, <1>1, <1>2, PartsLead
<1> QED
  BY <1>3, <1>4, <1>5 DEF s

-----------------------------------------------------------------------------
(* Both voices, piece by piece. *)

\* The pieces of so many that turn out to have no tokens.
Wordless(r, i) == Cardinality({k \in 1..i : r.pieces[k].says = 0})

\* The pieces without tokens, piece by piece, of which all are near.
LEMMA WordlessAdd ==
  ASSUME NEW r, AsksToSpeak(r), r.model # "tones", NEW i \in 1..Len(r.pieces)
  PROVE  /\ Wordless(r, i - 1) \in Nat
         /\ Wordless(r, i) = Wordless(r, i - 1) + (IF r.pieces[i].says = 0 THEN 1 ELSE 0)
         /\ Wordless(r, i) + 2 <= Near(r) /\ Wordless(r, i - 1) + 2 <= Near(r)
<1> DEFINE S == {k \in Nat : r.pieces[k].says = 0}
           n == i - 1
           all == {k \in 1..Len(r.pieces) : r.pieces[k].says = 0}
<1>0. Len(r.pieces) \in Nat /\ DOMAIN r.pieces = 1..Len(r.pieces) /\ r.kind = "speak"
  BY PiecesSay
<1>1. n \in Nat /\ i = n + 1 /\ i \in Nat
  BY <1>0
<1>2. /\ Wordless(r, i) = Cardinality({k \in 1..i : k \in S})
      /\ Wordless(r, n) = Cardinality({k \in 1..n : k \in S})
  <2>1. {k \in 1..i : r.pieces[k].says = 0} = {k \in 1..i : k \in S}
    BY <1>1
  <2>2. {k \in 1..n : r.pieces[k].says = 0} = {k \in 1..n : k \in S}
    BY <1>1
  <2> QED
    BY <2>1, <2>2 DEF Wordless
<1>3. i \in S <=> r.pieces[i].says = 0
  BY <1>1
<1>5. Near(r) = 2 + Cardinality(all)
  BY <1>0 DEF Near, Unreported
<1>6. Wordless(r, i) <= Cardinality(all) /\ Wordless(r, i) \in Nat /\ Cardinality(all) \in Nat
  <2>1. IsFiniteSet(all)
    <3>1. IsFiniteSet(1..Len(r.pieces))
      BY <1>0, FS_Interval
    <3> QED
      BY <3>1, FS_Subset
  <2>2. {k \in 1..i : r.pieces[k].says = 0} \subseteq all
    BY <1>0
  <2> HIDE DEF all
  <2> QED
    BY <2>1, <2>2, FS_Subset, FS_CardinalityType DEF Wordless
<1> HIDE DEF S, n, all
<1>7. /\ Cardinality({k \in 1..n : k \in S}) \in Nat
      /\ Cardinality({k \in 1..i : k \in S})
           = Cardinality({k \in 1..n : k \in S}) + (IF i \in S THEN 1 ELSE 0)
  BY <1>1, CountsUp
<1>8. /\ Wordless(r, n) \in Nat
      /\ Wordless(r, i) = Wordless(r, n) + (IF r.pieces[i].says = 0 THEN 1 ELSE 0)
  BY <1>2, <1>3, <1>7
<1>9. Wordless(r, i) + 2 <= Near(r) /\ Wordless(r, n) + 2 <= Near(r)
  BY <1>5, <1>6, <1>8
<1> QED
  BY <1>8, <1>9 DEF n

\* Before the first piece there is none of them, and nothing is drawn.
LEMMA NoneWordless ==
  ASSUME NEW r, AsksToSpeak(r)
  PROVE  1 + Wordless(r, 0) = 1 /\ TokenDraws(r, 0) = 0 /\ TokenDraws(r, Len(r.pieces)) \in Nat
<1>1. {k \in 1..0 : r.pieces[k].says = 0} = {}
  OBVIOUS
<1>2. Wordless(r, 0) = 0
  BY <1>1, FS_EmptySet DEF Wordless
<1> QED
  BY <1>2, DrawsInAll

\* A piece said, of either generator: work gathers over those that turn out to be empty.
LEMMA PieceCounts ==
  ASSUME NEW r, AsksToSpeak(r), r.model # "tones", NEW gen \in {"host", "device"},
         NEW i \in 1..Len(r.pieces), NEW o \in Int
  PROVE  /\ FitsIn(r, 1 + Wordless(r, i))
         /\ Leads(Counts(r), Tokens(gen, r.pieces, i),
                  AtPlaces(gen, 1 + Wordless(r, i - 1), o, TokenDraws(r, i - 1)),
                  AtPlaces(gen, 1 + Wordless(r, i), o, TokenDraws(r, i)))
<1> DEFINE base == TokenDraws(r, i - 1)
           last == TokenDraws(r, i)
           m == r.pieces[i].says
           x == Wordless(r, i - 1)
           y == Wordless(r, i)
           g == 1 + x
           e == 1 + y
<1>0. /\ Len(r.pieces) \in Nat /\ r.kind = "speak" /\ NearEnough(r)
      /\ \A k \in 1..Len(r.pieces) : r.pieces[k].says \in Nat /\ PieceDraws(r, k) \in Nat
  BY PiecesSay
<1>1. /\ x \in Nat /\ y = x + (IF m = 0 THEN 1 ELSE 0)
      /\ y + 2 <= Near(r) /\ x + 2 <= Near(r)
  BY WordlessAdd
<1>2. base \in Nat /\ last = base + PieceDraws(r, i)
  <2>1. i \in Nat \ {0} /\ \A k \in 1..i : PieceDraws(r, k) \in Nat
    BY <1>0
  <2> QED
    BY <2>1, DrawsAdd, Zenon
<1>3. m \in Nat /\ PieceDraws(r, i) = m + (IF r.pieces[i].cut THEN 0 ELSE 1)
  BY <1>0 DEF PieceDraws
<1>4. last = base + m + (IF r.pieces[i].cut THEN 0 ELSE 1)
  BY <1>2, <1>3
<1>5. TokensFrom(r, i, m, base)
  <2>1. ASSUME NEW j \in 1..(m + 1) PROVE DrawPlace(r, <<"token", i, j>>) = base + (j - 1)
    <3>1. DrawPlace(r, <<"token", i, j>>) = TokenDraws(r, i - 1) + j - 1
      BY DEF DrawPlace
    <3> QED
      BY <1>2, <1>3, <3>1
  <2> QED
    BY <2>1 DEF TokensFrom
<1> HIDE DEF base, last, x, y, m
<1>6. g \in Nat /\ g + 1 <= Near(r) /\ e \in Nat /\ FitsIn(r, e) /\ 1 <= e /\ (m = 0 => g + 1 = e)
  BY <1>0, <1>1, <1>3 DEF FitsIn, NearEnough
<1> HIDE DEF g, e
<1>7. Leads(Counts(r), Tokens(gen, r.pieces, i), AtPlaces(gen, g, o, base), AtPlaces(gen, e, o, last))
  BY <1>0, <1>2, <1>3, <1>4, <1>5, <1>6, TokensCounts DEF m
<1> QED
  BY <1>6, <1>7 DEF g, e, x, y, base, last

\* All of them, one after the other.
LEMMA PiecesCount ==
  ASSUME NEW r, AsksToSpeak(r), r.model # "tones", NEW gen \in {"host", "device"}, NEW o \in Int,
         NEW s, s = [i \in 1..Len(r.pieces) |-> Tokens(gen, r.pieces, i)]
  PROVE  \E g : Leads(Counts(r), FlattenSeq(s), AtPlaces(gen, 1, o, 0),
                      AtPlaces(gen, g, o, TokenDraws(r, Len(r.pieces))))
<1> DEFINE n == Len(r.pieces)
<1>0. n \in Nat
  BY PiecesSay
<1> PICK A : A = [i \in 0..n |-> AtPlaces(gen, 1 + Wordless(r, i), o, TokenDraws(r, i))]
  OBVIOUS
<1>1. ASSUME NEW i \in 1..n PROVE Leads(Counts(r), s[i], A[i - 1], A[i])
  <2>1. /\ A[i - 1] = AtPlaces(gen, 1 + Wordless(r, i - 1), o, TokenDraws(r, i - 1))
        /\ A[i] = AtPlaces(gen, 1 + Wordless(r, i), o, TokenDraws(r, i))
    BY <1>0
  <2>2. s[i] = Tokens(gen, r.pieces, i)
    OBVIOUS
  <2> QED
    BY <2>1, <2>2, PieceCounts
<1>2. s = [i \in 1..n |-> s[i]]
  OBVIOUS
<1>3. A[0] = AtPlaces(gen, 1, o, 0) /\ A[n] = AtPlaces(gen, 1 + Wordless(r, n), o, TokenDraws(r, n))
  <2>1. A[0] = AtPlaces(gen, 1 + Wordless(r, 0), o, TokenDraws(r, 0))
        /\ A[n] = AtPlaces(gen, 1 + Wordless(r, n), o, TokenDraws(r, n))
    BY <1>0
  <2> QED
    BY <2>1, NoneWordless
<1> HIDE DEF n
<1>4. Leads(Counts(r), FlattenSeq(s), A[0], A[n])
  BY <1>0, <1>1, <1>2, PartsLead
<1> QED
  BY <1>3, <1>4 DEF n

-----------------------------------------------------------------------------
(* IndexTTS. *)

SegmentsOf(r) == [i \in 1..Len(r.pieces) |-> Tokens("device", r.pieces, i)]

\* The segments of IndexTTS said one after another.
LEMMA SegmentsCount ==
  ASSUME NEW r, AsksToSpeak(r), r.model = "indextts", NEW o \in Int
  PROVE  \E g : Leads(Counts(r), FlattenSeq(SegmentsOf(r)), AtPlaces("device", 1, o, 0),
                      AtPlaces("device", g, o, TokenDraws(r, Len(r.pieces))))
BY PiecesCount DEF SegmentsOf

\* Where a reading's run starts from, with nothing drawn of either generator.
LEMMA StartAt == Unbegun = AtPlaces("device", 0, Unseeded, Unseeded) /\ Unbegun = AtPlaces("host", 0, Unseeded, Unseeded)
BY DEF Unbegun, AtPlaces

\* Of the two, either may be the one.
LEMMA AtOther ==
  ASSUME NEW g, NEW o, NEW p
  PROVE  AtPlaces("host", g, o, p) = AtPlaces("device", g, p, o)
BY DEF AtPlaces

\* A reading of IndexTTS.
LEMMA IndexTtsCounts ==
  ASSUME NEW r, AsksToSpeak(r), r.model = "indextts"
  PROVE  \E z : Leads(Counts(r), IndexTts(r.pieces), Unbegun, z)
<1> DEFINE u == Unseeded
           n == Len(r.pieces)
           t == TokenDraws(r, n)
           said == FlattenSeq(SegmentsOf(r))
           sounds == FlattenSeq(SoundsOf(r.pieces))
           first == Look(Reading) \o Work("hear") \o Seed("device") \o Look(Reading)
<1>0. /\ n \in Nat /\ r.kind = "speak" /\ NearEnough(r) /\ u \in Int
      /\ \A i \in 1..n : PieceDraws(r, i) \in Nat
  BY PiecesSay DEF Unseeded
<1>1. t \in Nat
  BY DrawsInAll
<1>2. IndexTts(r.pieces) = first \o Where(r.pieces # <<>>, said \o Look(Sounding) \o sounds)
  BY DEF IndexTts, Each, SegmentsOf, SoundsOf
<1>3. NoiseFrom(r, t)
  <2>1. ASSUME NEW i \in 1..n PROVE DrawPlace(r, <<"noise", i>>) = t + SoundedBefore(r, i)
    BY <1>0 DEF DrawPlace
  <2> QED
    BY <2>1 DEF NoiseFrom
<1>4. PICK g : Leads(Counts(r), said, AtPlaces("device", 1, u, 0), AtPlaces("device", g, u, t))
  BY <1>0, SegmentsCount
<1>5. PICK p \in Nat : Leads(Counts(r), sounds, AtPlaces("device", 0, u, t), AtPlaces("device", 0, u, p))
  BY <1>0, <1>1, <1>3, SoundsCounts
<1> HIDE DEF u, t, said, sounds
<1>6. FitsIn(r, 0) /\ FitsIn(r, 1) /\ 0 + 1 <= 1 /\ 1 <= 1 /\ 0 \in Nat /\ 1 \in Nat /\ t \in Int
  BY <1>0, <1>1 DEF FitsIn, NearEnough
<1>7. Leads(Counts(r), first, Unbegun, AtPlaces("device", 1, u, 0))
  <2>1. Leads(Counts(r), Look(Reading), Unbegun, AtPlaces("device", 0, u, u))
    BY <1>0, <1>6, StartAt, AtLook DEF u
  <2>2. Leads(Counts(r), Work("hear"), AtPlaces("device", 0, u, u), AtPlaces("device", 1, u, u))
    BY <1>0, <1>6, AtWork
  <2>3. Leads(Counts(r), Seed("device"), AtPlaces("device", 1, u, u), AtPlaces("device", 1, u, 0))
    BY <1>0, <1>6, AtSeed
  <2>4. Leads(Counts(r), Look(Reading), AtPlaces("device", 1, u, 0), AtPlaces("device", 1, u, 0))
    BY <1>0, <1>6, AtLook
  <2> QED
    BY <2>1, <2>2, <2>3, <2>4, Joined
<1>8. Leads(Counts(r), Look(Sounding), AtPlaces("device", g, u, t), AtPlaces("device", 0, u, t))
  BY <1>0, <1>6, AtLook
<1>9. Leads(Counts(r), said \o Look(Sounding) \o sounds, AtPlaces("device", 1, u, 0), AtPlaces("device", 0, u, p))
  BY <1>4, <1>5, <1>8, Joined
<1>10. Leads(Counts(r), Where(r.pieces # <<>>, said \o Look(Sounding) \o sounds),
             AtPlaces("device", 1, u, 0), AtPlaces("device", 0, u, p))
  BY <1>9, FailCounts DEF Where
<1> HIDE DEF first
<1> QED
  BY <1>2, <1>7, <1>10, Joined

-----------------------------------------------------------------------------
(* CosyVoice: the tokens are of the host's generator, the noise of the device's. *)

\* Where the noise of CosyVoice is drawn.
LEMMA VoicePlaces ==
  ASSUME NEW r, AsksToSpeak(r), r.model = "cosyvoice", NEW i
  PROVE  DrawPlace(r, <<"noise", i>>) = SoundedBefore(r, i)
<1>1. r.kind = "speak"
  BY PiecesSay
<1> QED
  BY <1>1 DEF DrawPlace

SayAllOf(pieces) == [i \in 1..Len(pieces) |-> Say(pieces, i)]
SayAndSoundOf(pieces) ==
  [i \in 1..Len(pieces) |->
     Say(pieces, i) \o IF pieces[i].says = 0 THEN <<>> ELSE Look(Sounding) \o Sound(i) \o Hand]

\* All pieces of CosyVoice said before any is sounded.
LEMMA SayAllCounts ==
  ASSUME NEW r, AsksToSpeak(r), r.model = "cosyvoice"
  PROVE  \E g : \E p \in Nat : Leads(Counts(r), FlattenSeq(SayAllOf(r.pieces)), AtPlaces("host", 1, 0, 0),
                                 AtPlaces("host", g, 0, p))
<1>1. SayAllOf(r.pieces) = [i \in 1..Len(r.pieces) |-> Tokens("host", r.pieces, i)]
  BY DEF SayAllOf, Say
<1>2. PICK g : Leads(Counts(r), FlattenSeq(SayAllOf(r.pieces)), AtPlaces("host", 1, 0, 0),
                     AtPlaces("host", g, 0, TokenDraws(r, Len(r.pieces))))
  BY <1>1, PiecesCount
<1> QED
  BY <1>2, DrawsInAll

\* A piece said and handed over.
LEMMA SayAndSoundCounts ==
  ASSUME NEW r, AsksToSpeak(r), r.model = "cosyvoice", NEW i \in 1..Len(r.pieces)
  PROVE  Leads(Counts(r), SayAndSoundOf(r.pieces)[i],
               AtPlaces("host", 1 + Wordless(r, i - 1), SoundedBefore(r, i), TokenDraws(r, i - 1)),
               AtPlaces("host", 1 + Wordless(r, i), SoundedBefore(r, i + 1), TokenDraws(r, i)))
<1> DEFINE o == SoundedBefore(r, i)
           q == SoundedBefore(r, i + 1)
           base == TokenDraws(r, i - 1)
           last == TokenDraws(r, i)
           rest == IF r.pieces[i].says = 0 THEN <<>> ELSE Look(Sounding) \o Sound(i) \o Hand
           e == 1 + Wordless(r, i)
           a == AtPlaces("host", 1 + Wordless(r, i - 1), o, base)
           b == AtPlaces("host", e, o, last)
           c == AtPlaces("host", e, q, last)
<1>1. /\ o \in Nat /\ q = o + (IF IsSounded(r, i) THEN 1 ELSE 0)
      /\ r.kind = "speak" /\ NearEnough(r) /\ r.pieces[i].says \in Nat
  BY SoundsAdd, PiecesSay
<1>2. last \in Nat /\ o = DrawPlace(r, <<"noise", i>>)
  <2>1. i \in Nat \ {0} /\ \A k \in 1..i : PieceDraws(r, k) \in Nat
    BY PiecesSay
  <2>2. i \in 1..i
    BY <2>1
  <2>3. last \in Nat
    BY <2>1, <2>2, DrawsAdd
  <2> QED
    BY <2>3, VoicePlaces
<1>3. IsSounded(r, i) <=> r.pieces[i].says # 0
  BY <1>1 DEF IsSounded
<1>4. SayAndSoundOf(r.pieces)[i] = Say(r.pieces, i) \o rest
  BY DEF SayAndSoundOf
<1>5. Leads(Counts(r), Say(r.pieces, i), a, b) /\ FitsIn(r, e)
  <2>1. o \in Int
    BY <1>1
  <2> HIDE DEF o
  <2> QED
    BY <2>1, PieceCounts DEF Say
<1>6. Leads(Counts(r), rest, b, c)
  <2>1. CASE r.pieces[i].says = 0
    <3>1. b = c /\ rest = <<>>
      BY <1>1, <1>3, <2>1
    <3> HIDE DEF b, c, rest
    <3> QED
      BY <3>1, NothingLeads
  <2>2. CASE r.pieces[i].says # 0
    <3>1. q = o + 1 /\ q \in Int /\ last \in Int /\ o \in Int /\ FitsIn(r, 0) /\ FitsIn(r, 1)
      BY <1>1, <1>2, <1>3, <2>2 DEF FitsIn, NearEnough
    <3>2. rest = Look(Sounding) \o Sound(i) \o Hand
      BY <2>2
    <3> HIDE DEF o, q, last, rest, e
    <3>3. b = AtPlaces("device", e, last, o) /\ c = AtPlaces("device", e, last, q)
      BY AtOther
    <3>4. Leads(Counts(r), Look(Sounding), b, AtPlaces("device", 0, last, o))
      BY <3>1, <3>3, AtLook
    <3>5. Leads(Counts(r), Sound(i), AtPlaces("device", 0, last, o), AtPlaces("device", 1, last, q))
      BY <1>1, <1>2, <3>1, SoundCounts
    <3>6. Leads(Counts(r), Hand, AtPlaces("device", 1, last, q), c)
      BY <1>5, <3>1, <3>3, AtHand
    <3> HIDE DEF b, c
    <3> QED
      BY <3>2, <3>4, <3>5, <3>6, Joined
  <2> QED
    BY <2>1, <2>2
<1> HIDE DEF rest, b
<1> QED
  BY <1>4, <1>5, <1>6, Joined

\* Each piece of it sounded once it is said: the draws are at the same places.
LEMMA SayAndSoundAllCounts ==
  ASSUME NEW r, AsksToSpeak(r), r.model = "cosyvoice"
  PROVE  \E z : Leads(Counts(r), FlattenSeq(SayAndSoundOf(r.pieces)), AtPlaces("host", 1, 0, 0), z)
<1> DEFINE n == Len(r.pieces)
           s == SayAndSoundOf(r.pieces)
<1>0. n \in Nat
  BY PiecesSay
<1> PICK A : A = [i \in 0..n |-> AtPlaces("host", 1 + Wordless(r, i), SoundedBefore(r, i + 1), TokenDraws(r, i))]
  OBVIOUS
<1>1. ASSUME NEW i \in 1..n PROVE Leads(Counts(r), s[i], A[i - 1], A[i])
  <2>1. /\ A[i - 1] = AtPlaces("host", 1 + Wordless(r, i - 1), SoundedBefore(r, i), TokenDraws(r, i - 1))
        /\ A[i] = AtPlaces("host", 1 + Wordless(r, i), SoundedBefore(r, i + 1), TokenDraws(r, i))
    <3>1. i - 1 \in 0..n /\ (i - 1) + 1 = i /\ i \in 0..n
      BY <1>0
    <3> QED
      BY <3>1
  <2> HIDE DEF s
  <2>3. Leads(Counts(r), s[i], AtPlaces("host", 1 + Wordless(r, i - 1), SoundedBefore(r, i), TokenDraws(r, i - 1)),
               AtPlaces("host", 1 + Wordless(r, i), SoundedBefore(r, i + 1), TokenDraws(r, i)))
    BY SayAndSoundCounts DEF s
  <2> QED
    BY <2>1, <2>3
<1>2. s = [i \in 1..n |-> s[i]]
  BY DEF SayAndSoundOf
<1>3. A[0] = AtPlaces("host", 1, 0, 0)
  <2>1. TokenDraws(r, 0) = 0 /\ SoundedBefore(r, 1) = 0 /\ 1 + Wordless(r, 0) = 1
    BY NoneWordless, SoundsAdd
  <2> QED
    BY <1>0, <2>1
<1> HIDE DEF s, n
<1>5. Leads(Counts(r), FlattenSeq(s), A[0], A[n])
  BY <1>0, <1>1, <1>2, PartsLead
<1> QED
  BY <1>3, <1>5 DEF s

\* A reading of CosyVoice, streamed or whole.
LEMMA CosyVoiceCounts ==
  ASSUME NEW r, AsksToSpeak(r), r.model = "cosyvoice"
  PROVE  \E z : Leads(Counts(r), CosyVoice(r.pieces, r.streaming), Unbegun, z)
<1> DEFINE u == Unseeded
           said == FlattenSeq(SayAllOf(r.pieces))
           sounds == FlattenSeq(SoundsOf(r.pieces))
           inturns == FlattenSeq(SayAndSoundOf(r.pieces))
           first == Look(Reading) \o Work("hear") \o Look(Reading) \o Seed("host") \o Seed("device")
           start == AtPlaces("host", 1, 0, 0)
           rest == IF r.streaming THEN inturns ELSE said \o Look(Sounding) \o sounds
<1>0. NearEnough(r) /\ u \in Int /\ r.kind = "speak"
  BY PiecesSay DEF Unseeded
<1>1. CosyVoice(r.pieces, r.streaming) = first \o Where(r.pieces # <<>>, rest)
  BY DEF CosyVoice, Each, SayAllOf, SoundsOf, SayAndSoundOf
<1>2. NoiseFrom(r, 0)
  <2>1. ASSUME NEW i \in 1..Len(r.pieces) PROVE DrawPlace(r, <<"noise", i>>) = 0 + SoundedBefore(r, i)
    <3>1. i \in Nat \ {0}
      BY PiecesSay
    <3>2. SoundedBefore(r, i) \in Nat /\ DrawPlace(r, <<"noise", i>>) = SoundedBefore(r, i)
      BY <3>1, SoundsAdd, VoicePlaces
    <3> QED
      BY <3>2
  <2> QED
    BY <2>1 DEF NoiseFrom
<1>3. PICK g, p : p \in Nat /\ Leads(Counts(r), said, start, AtPlaces("host", g, 0, p))
  BY SayAllCounts
<1>4. PICK q \in Nat : Leads(Counts(r), sounds, AtPlaces("device", 0, p, 0), AtPlaces("device", 0, p, q))
  BY <1>2, <1>3, SoundsCounts
<1>5. PICK y : Leads(Counts(r), inturns, start, y)
  BY SayAndSoundAllCounts
<1>6. FitsIn(r, 0) /\ FitsIn(r, 1) /\ 0 + 1 <= 1 /\ 1 <= 1 /\ 0 <= 1 /\ 0 <= 0 /\ 0 \in Nat /\ 1 \in Nat
      /\ p \in Int /\ 0 \in Int
  BY <1>0, <1>3 DEF FitsIn, NearEnough
<1> HIDE DEF u, said, sounds, inturns, first, rest
<1>7. Leads(Counts(r), first, Unbegun, start)
  <2>1. Leads(Counts(r), Look(Reading), Unbegun, AtPlaces("host", 0, u, u))
    BY <1>0, <1>6, StartAt, AtLook DEF u
  <2>2. Leads(Counts(r), Work("hear"), AtPlaces("host", 0, u, u), AtPlaces("host", 1, u, u))
    BY <1>0, <1>6, AtWork
  <2>3. Leads(Counts(r), Look(Reading), AtPlaces("host", 1, u, u), AtPlaces("host", 0, u, u))
    BY <1>0, <1>6, AtLook
  <2>4. Leads(Counts(r), Seed("host"), AtPlaces("host", 0, u, u), AtPlaces("host", 0, u, 0))
    BY <1>0, <1>6, AtSeed
  <2>5. Leads(Counts(r), Seed("device"), AtPlaces("device", 0, 0, u), AtPlaces("device", 1, 0, 0))
    BY <1>0, <1>6, AtSeed
  <2>6. AtPlaces("device", 0, 0, u) = AtPlaces("host", 0, u, 0) /\ AtPlaces("device", 1, 0, 0) = start
    BY AtOther
  <2> HIDE DEF start
  <2> QED
    BY <2>1, <2>2, <2>3, <2>4, <2>5, <2>6, Joined DEF first
<1>8. \E z : Leads(Counts(r), rest, start, z)
  <2>1. CASE r.streaming
    BY <1>5, <2>1 DEF rest
  <2>2. CASE ~r.streaming
    <3>1. Leads(Counts(r), Look(Sounding), AtPlaces("host", g, 0, p), AtPlaces("host", 0, 0, p))
      BY <1>0, <1>6, AtLook
    <3>2. AtPlaces("device", 0, p, 0) = AtPlaces("host", 0, 0, p)
      BY AtOther
    <3>3. Leads(Counts(r), said \o Look(Sounding) \o sounds, start, AtPlaces("device", 0, p, q))
      BY <1>3, <1>4, <3>1, <3>2, Joined
    <3> QED
      BY <2>2, <3>3 DEF rest
  <2> QED
    BY <2>1, <2>2
<1>9. PICK z : Leads(Counts(r), rest, start, z)
  BY <1>8
<1>10. Leads(Counts(r), Where(r.pieces # <<>>, rest), start, z)
  BY <1>9, FailCounts DEF Where
<1> HIDE DEF start
<1> QED
  BY <1>1, <1>7, <1>10, Joined

-----------------------------------------------------------------------------
(* The tones that stand in for a voice. *)

NotesOf(notes) ==
  [n \in 1..notes |-> DrawOn("host", <<"token", 1, n>>)
                        \o Look([at |-> "Saying", done |-> n, expected |-> notes])]

\* A reading of the tones.
LEMMA TonesCounts ==
  ASSUME NEW r, AsksToSpeak(r), r.model = "tones", NEW notes \in Nat
  PROVE  \E z : Leads(Counts(r), Tones(notes), Unbegun, z)
<1> DEFINE u == Unseeded
           s == NotesOf(notes)
<1>0. NearEnough(r) /\ u \in Int /\ FitsIn(r, 0) /\ 0 \in Nat /\ 0 <= 0
  BY PiecesSay DEF Unseeded, FitsIn, NearEnough
<1> PICK A : A = [i \in 0..notes |-> AtPlaces("host", 0, u, i)]
  OBVIOUS
<1>1. ASSUME NEW i \in 1..notes PROVE Leads(Counts(r), s[i], A[i - 1], A[i])
  <2> DEFINE on == <<"token", 1, i>>
             look == [at |-> "Saying", done |-> i, expected |-> notes]
             p == i - 1
  <2>1. p \in Nat /\ i = p + 1 /\ i \in Int
    OBVIOUS
  <2>2. DrawPlace(r, on) = p
    BY DEF DrawPlace
  <2>3. s[i] = DrawOn("host", on) \o Look(look)
    BY DEF NotesOf
  <2>4. A[i - 1] = AtPlaces("host", 0, u, p) /\ A[i] = AtPlaces("host", 0, u, i)
    OBVIOUS
  <2> HIDE DEF on, look, p, s, u
  <2>5. Leads(Counts(r), DrawOn("host", on), AtPlaces("host", 0, u, p), AtPlaces("host", 0, u, i))
    BY <1>0, <2>1, <2>2, AtDraw
  <2>6. Leads(Counts(r), Look(look), AtPlaces("host", 0, u, i), AtPlaces("host", 0, u, i))
    BY <1>0, <2>1, AtLook
  <2>7. Leads(Counts(r), DrawOn("host", on) \o Look(look), AtPlaces("host", 0, u, p), AtPlaces("host", 0, u, i))
    BY <2>5, <2>6, Joined
  <2> QED
    BY <2>3, <2>4, <2>7
<1>2. s = [i \in 1..notes |-> s[i]]
  BY DEF NotesOf
<1>3. A[0] = AtPlaces("host", 0, u, 0) /\ A[notes] = AtPlaces("host", 0, u, notes)
  OBVIOUS
<1>4. Tones(notes) = Look(Reading) \o Seed("host") \o FlattenSeq(s) \o Look(Sounding)
  BY DEF Tones, Each, NotesOf
<1> HIDE DEF s
<1>5. Leads(Counts(r), FlattenSeq(s), A[0], A[notes])
  BY <1>1, <1>2, PartsLead
<1> HIDE DEF u
<1>6. Leads(Counts(r), Look(Reading), Unbegun, AtPlaces("host", 0, u, u))
  BY <1>0, StartAt, AtLook DEF u
<1>7. Leads(Counts(r), Seed("host"), AtPlaces("host", 0, u, u), AtPlaces("host", 0, u, 0))
  BY <1>0, AtSeed
<1>8. Leads(Counts(r), Look(Sounding), AtPlaces("host", 0, u, notes), AtPlaces("host", 0, u, notes))
  BY <1>0, AtLook
<1>9. Leads(Counts(r), FlattenSeq(s), AtPlaces("host", 0, u, 0), AtPlaces("host", 0, u, notes))
  BY <1>3, <1>5
<1> QED
  BY <1>4, <1>6, <1>7, <1>8, <1>9, Joined

\* What is handed over leaves what was drawn as it is.
LEMMA HandLeads ==
  ASSUME NEW r, NearEnough(r), NEW a
  PROVE  \E z : Leads(Counts(r), Hand, a, z)
<1> DEFINE op == [do |-> "hand"]
           b == <<0, a[2], a[3], a[4]>>
<1>1. op.do = "hand" /\ b[1] = 0 /\ b[2] = a[2] /\ b[3] = a[3] /\ b[4] = a[4]
      /\ b = <<b[1], b[2], b[3], b[4]>>
  OBVIOUS
<1> HIDE DEF op, b
<1>2. CountGoes(r, op, a, b)
  BY <1>1 DEF CountGoes, NearEnough
<1>3. Takes(Counts(r), op, a, b)
  BY <1>2 DEF Takes, Counts
<1>4. Leads(Counts(r), <<op>>, a, b)
  BY <1>3, OneLeads
<1> QED
  BY <1>4 DEF op, Hand

\* A reading that is handed over as one part.
LEMMA OnePartCounts ==
  ASSUME NEW r, NearEnough(r), NEW reading, NEW z, Leads(Counts(r), reading, Unbegun, z), NEW streaming
  PROVE  \E y : Leads(Counts(r), AsOnePart(reading, streaming), Unbegun, y)
<1>1. PICK y : Leads(Counts(r), Hand, z, y)
  BY HandLeads
<1>2. Leads(Counts(r), reading \o Hand, Unbegun, y)
  BY <1>1, Joined
<1> QED
  BY <1>2 DEF AsOnePart

\* A reading, whichever model says it.
LEMMA SpeechCounts ==
  ASSUME NEW r, AsksToSpeak(r)
  PROVE  \E z : Leads(Counts(r), Speech(r), Unbegun, z)
<1>1. NearEnough(r) /\ r.model \in {"tones", "indextts", "cosyvoice"}
  BY PiecesSay DEF AsksToSpeak
<1>2. CASE r.model = "tones"
  <2> DEFINE says == Says(r.pieces)
  <2>1. /\ Len(r.pieces) \in Nat /\ DOMAIN r.pieces = 1..Len(r.pieces)
        /\ \A i \in 1..Len(r.pieces) : r.pieces[i].says \in Nat
    BY PiecesSay
  <2>2. DOMAIN says = 1..Len(r.pieces) /\ \A i \in 1..Len(r.pieces) : says[i] \in Nat
    BY <2>1 DEF Says
  <2>3. IsFiniteSet(1..Len(r.pieces))
    BY <2>1, FS_Interval
  <2> HIDE DEF says
  <2>4. Total(says) \in Nat
    BY <2>2, <2>3, TotalIsSum, SumTakes
  <2>5. PICK z : Leads(Counts(r), Tones(Total(says)), Unbegun, z)
    BY <1>2, <2>4, TonesCounts
  <2>6. Speech(r) = AsOnePart(Tones(Total(says)), r.streaming)
    BY <1>2 DEF Speech, says
  <2> QED
    BY <1>1, <2>5, <2>6, OnePartCounts
<1>3. CASE r.model = "indextts"
  <2>1. PICK z : Leads(Counts(r), IndexTts(r.pieces), Unbegun, z)
    BY <1>3, IndexTtsCounts
  <2>2. Speech(r) = AsOnePart(IndexTts(r.pieces), r.streaming)
    BY <1>3 DEF Speech
  <2> QED
    BY <1>1, <2>1, <2>2, OnePartCounts
<1>4. CASE r.model = "cosyvoice"
  <2>1. Speech(r) = CosyVoice(r.pieces, r.streaming)
    BY <1>4 DEF Speech
  <2> QED
    BY <1>4, <2>1, CosyVoiceCounts
<1> QED
  BY <1>1, <1>2, <1>3, <1>4

-----------------------------------------------------------------------------
(* A conversion. *)

\* A window of it, sounded or kept as silence.
LEMMA WindowCounts ==
  ASSUME NEW r, AsksToConvert(r), NearEnough(r), NEW i \in Nat \ {0}
  PROVE  Leads(Counts(r), Window(r, i), AtPlaces("device", 1, Unseeded, SoundedBefore(r, i)),
               AtPlaces("device", 1, Unseeded, SoundedBefore(r, i + 1)))
<1> DEFINE u == Unseeded
           p == SoundedBefore(r, i)
           q == SoundedBefore(r, i + 1)
           drawing(k) == Look([at |-> "Drawing", done |-> k * r.steps, total |-> Len(r.windows) * r.steps])
           sounding == Look([at |-> "Sounding", done |-> i - 1, total |-> Len(r.windows)])
           on == <<"noise", i>>
           first == drawing(i - 1) \o Work("listen")
           rest == Work("flow") \o drawing(i) \o sounding \o Work("sound") \o DrawOn("device", on)
           maybe == IF r.windows[i] = "silent" THEN <<>> ELSE rest
           a == AtPlaces("device", 1, u, p)
<1>1. /\ p \in Nat /\ q = p + (IF IsSounded(r, i) THEN 1 ELSE 0) /\ r.kind = "convert"
      /\ u \in Int /\ p \in Int
  BY SoundsAdd DEF AsksToConvert, Unseeded
<1>2. IsSounded(r, i) <=> r.windows[i] # "silent"
  BY <1>1 DEF IsSounded
<1>3. p = DrawPlace(r, on)
  BY <1>1 DEF DrawPlace
<1>4. Window(r, i) = first \o maybe
  BY DEF Window
<1>5. FitsIn(r, 0) /\ FitsIn(r, 1) /\ FitsIn(r, 2) /\ 0 + 1 <= 1 /\ 1 + 1 <= 2 /\ 1 <= 1 /\ 0 \in Nat /\ 1 \in Nat
  BY DEF FitsIn, NearEnough
<1>6. \A k, g, e : FitsIn(r, e) =>
        Leads(Counts(r), drawing(k), AtPlaces("device", g, u, p), AtPlaces("device", e, u, p))
  <2> HIDE DEF u, p
  <2> QED
    BY <1>1, AtLook
<1>7. \A g, e : FitsIn(r, e) => Leads(Counts(r), sounding, AtPlaces("device", g, u, p), AtPlaces("device", e, u, p))
  <2> HIDE DEF u, p
  <2> QED
    BY <1>1, AtLook
<1> HIDE DEF u, p, q, drawing, sounding, on, first, rest, maybe, a
<1>8. Leads(Counts(r), first, a, a)
  <2>1. Leads(Counts(r), drawing(i - 1), a, AtPlaces("device", 0, u, p))
    BY <1>5, <1>6 DEF a
  <2>2. Leads(Counts(r), Work("listen"), AtPlaces("device", 0, u, p), a)
    BY <1>1, <1>5, AtWork DEF a
  <2> QED
    BY <2>1, <2>2, Joined DEF first
<1>9. Leads(Counts(r), maybe, a, AtPlaces("device", 1, u, q))
  <2>1. CASE r.windows[i] = "silent"
    <3>1. q = p /\ maybe = <<>>
      BY <1>1, <1>2, <2>1 DEF maybe
    <3> QED
      BY <3>1, NothingLeads DEF a
  <2>2. CASE r.windows[i] # "silent"
    <3>1. q = p + 1 /\ maybe = rest
      BY <1>1, <1>2, <2>2 DEF maybe
    <3>2. Leads(Counts(r), Work("flow"), a, AtPlaces("device", 2, u, p))
      BY <1>1, <1>5, AtWork DEF a
    <3>3. Leads(Counts(r), drawing(i), AtPlaces("device", 2, u, p), AtPlaces("device", 0, u, p))
      BY <1>5, <1>6
    <3>4. Leads(Counts(r), sounding, AtPlaces("device", 0, u, p), AtPlaces("device", 0, u, p))
      BY <1>5, <1>7
    <3>5. Leads(Counts(r), Work("sound"), AtPlaces("device", 0, u, p), a)
      BY <1>1, <1>5, AtWork DEF a
    <3>6. Leads(Counts(r), DrawOn("device", on), a, AtPlaces("device", 1, u, q))
      BY <1>1, <1>3, <1>5, <3>1, AtDraw DEF a
    <3> QED
      BY <3>1, <3>2, <3>3, <3>4, <3>5, <3>6, Joined DEF rest
  <2> QED
    BY <2>1, <2>2
<1> QED
  BY <1>4, <1>8, <1>9, Joined DEF a, p, q, u

\* A conversion, window by window.
LEMMA ConvertCounts ==
  ASSUME NEW r, AsksToConvert(r)
  PROVE  \E z : Leads(Counts(r), Convert(r), Unbegun, z)
<1> DEFINE u == Unseeded
           n == Len(r.windows)
           s == [i \in 1..n |-> Window(r, i)]
           last == Look([at |-> "Sounding", done |-> Len(r.windows), total |-> Len(r.windows)])
           listen == Look([at |-> "Listening"])
           d == SoundedBefore(r, n + 1)
<1>0. n \in Nat /\ r.kind = "convert" /\ NearEnough(r) /\ u \in Int
  BY LenProperties DEF AsksToConvert, NearEnough, Near, Unreported, Unseeded
<1> PICK A : A = [i \in 0..n |-> AtPlaces("device", 1, u, SoundedBefore(r, i + 1))]
  OBVIOUS
<1>1. ASSUME NEW i \in 1..n PROVE Leads(Counts(r), s[i], A[i - 1], A[i])
  <2>1. /\ A[i - 1] = AtPlaces("device", 1, u, SoundedBefore(r, i))
        /\ A[i] = AtPlaces("device", 1, u, SoundedBefore(r, i + 1))
        /\ i \in Nat \ {0}
    <3>1. i - 1 \in 0..n /\ (i - 1) + 1 = i /\ i \in 0..n
      BY <1>0
    <3> QED
      BY <3>1
  <2>2. s[i] = Window(r, i)
    OBVIOUS
  <2> HIDE DEF s
  <2>3. Leads(Counts(r), Window(r, i), AtPlaces("device", 1, u, SoundedBefore(r, i)),
              AtPlaces("device", 1, u, SoundedBefore(r, i + 1)))
    BY <1>0, <2>1, WindowCounts
  <2> QED
    BY <2>1, <2>2, <2>3
<1>2. s = [i \in 1..n |-> s[i]]
  OBVIOUS
<1>3. A[0] = AtPlaces("device", 1, u, 0) /\ A[n] = AtPlaces("device", 1, u, d) /\ d \in Int
  <2>1. SoundedBefore(r, 1) = 0 /\ n + 1 \in Nat \ {0}
    BY <1>0, SoundsAdd
  <2>2. d \in Nat
    BY <2>1, SoundsAdd
  <2> QED
    BY <1>0, <2>1, <2>2
<1>4. Convert(r) = listen \o Work("hear") \o Seed("device") \o FlattenSeq(s) \o last
  BY DEF Convert, Each
<1>5. FitsIn(r, 0) /\ FitsIn(r, 1) /\ 0 + 1 <= 1 /\ 1 <= 1 /\ 0 \in Nat /\ 1 \in Nat
  BY <1>0 DEF FitsIn, NearEnough
<1>6. /\ Leads(Counts(r), listen, Unbegun, AtPlaces("device", 0, u, u))
      /\ Leads(Counts(r), last, AtPlaces("device", 1, u, d), AtPlaces("device", 0, u, d))
  <2> HIDE DEF d
  <2>1. Unbegun = AtPlaces("device", 0, u, u)
    BY StartAt
  <2> HIDE DEF u
  <2> QED
    BY <1>0, <1>3, <1>5, <2>1, AtLook
<1> HIDE DEF s, last, listen, d
<1>7. Leads(Counts(r), FlattenSeq(s), A[0], A[n])
  BY <1>0, <1>1, <1>2, PartsLead
<1> HIDE DEF u
<1>8. Leads(Counts(r), Work("hear"), AtPlaces("device", 0, u, u), AtPlaces("device", 1, u, u))
  BY <1>0, <1>5, AtWork
<1>9. Leads(Counts(r), Seed("device"), AtPlaces("device", 1, u, u), AtPlaces("device", 1, u, 0))
  BY <1>0, <1>5, AtSeed
<1>10. Leads(Counts(r), FlattenSeq(s), AtPlaces("device", 1, u, 0), AtPlaces("device", 1, u, d))
  BY <1>3, <1>7
<1> QED
  BY <1>4, <1>6, <1>8, <1>9, <1>10, Joined

-----------------------------------------------------------------------------
(* Whatever is asked. *)

IsAsked(r) == AsksToDraw(r) \/ AsksForLayers(r) \/ AsksToSpeak(r) \/ AsksToConvert(r)

\* What a run comes to, whatever is asked: of a picture, the steps it was asked for.
WalksAll(r, z) == r.kind = "draw" => z[2] = Walks(r)

\* Two steps of work are near, of whatever is asked.
LEMMA NearIsEnough ==
  ASSUME NEW r, IsAsked(r)
  PROVE  NearEnough(r)
<1>1. CASE AsksToDraw(r)
  BY <1>1, NearOfPictures DEF NearEnough
<1>2. CASE AsksForLayers(r)
  BY <1>2 DEF AsksForLayers, NearEnough, Near, Unreported
<1>3. CASE AsksToSpeak(r)
  BY <1>3, PiecesSay
<1>4. CASE AsksToConvert(r)
  BY <1>4 DEF AsksToConvert, NearEnough, Near, Unreported
<1> QED
  BY <1>1, <1>2, <1>3, <1>4 DEF IsAsked

\* A report at the start, before anything is done.
LEMMA TellFirst ==
  ASSUME NEW r, NearEnough(r), NEW step
  PROVE  Leads(Counts(r), Tell(step), Unbegun, Unbegun)
<1> DEFINE u == Unseeded
<1>1. u \in Int /\ 0 \in Nat /\ 0 <= 0 /\ CountOf(r, 0, 0, u, u)
  BY DEF Unseeded, CountOf, NearEnough
<1> HIDE DEF u
<1> QED
  BY <1>1, TellCounts DEF Unbegun, u

\* The script of any request leads from nothing counted to all of its steps walked.
LEMMA ScriptLeads ==
  ASSUME NEW r, IsAsked(r)
  PROVE  \E z : Leads(Counts(r), Script(r), Unbegun, z) /\ WalksAll(r, z)
<1>0. NearEnough(r)
  BY NearIsEnough
<1>1. CASE Refused(r)
  <2> DEFINE z == <<0, Walks(r), 0, 0>>
  <2>1. z[2] = Walks(r)
    OBVIOUS
  <2> HIDE DEF z
  <2>2. Leads(Counts(r), Fail, Unbegun, z)
    BY FailCounts
  <2> QED
    BY <1>1, <2>1, <2>2 DEF Script, WalksAll
<1>2. CASE ~Refused(r) /\ AsksToDraw(r)
  <2> DEFINE z == <<1, Walks(r), Unseeded, 1>>
  <2>1. z[2] = Walks(r)
    OBVIOUS
  <2>2. Leads(Counts(r), Picture(r), Unbegun, z)
    BY <1>2, PictureCounts
  <2> HIDE DEF z
  <2>3. Leads(Counts(r), Tell(Encoding) \o Picture(r), Unbegun, z)
    BY <1>0, <2>2, TellFirst, Joined
  <2>4. Script(r) = Tell(Encoding) \o Picture(r)
    BY <1>2 DEF Script, AsksToDraw
  <2> QED
    BY <2>1, <2>3, <2>4 DEF WalksAll
<1>3. CASE ~Refused(r) /\ AsksForLayers(r)
  <2>1. Script(r) = Decompose(r) /\ r.kind # "draw"
    BY <1>3 DEF Script, AsksForLayers
  <2> QED
    BY <1>3, <2>1, DecomposeCounts DEF WalksAll
<1>4. CASE ~Refused(r) /\ AsksToSpeak(r)
  <2>1. Script(r) = Tell(Reading) \o Speech(r) /\ r.kind # "draw"
    BY <1>4 DEF Script, AsksToSpeak
  <2>2. PICK z : Leads(Counts(r), Speech(r), Unbegun, z)
    BY <1>4, SpeechCounts
  <2>3. Leads(Counts(r), Tell(Reading) \o Speech(r), Unbegun, z)
    BY <1>0, <2>2, TellFirst, Joined
  <2> QED
    BY <2>1, <2>3 DEF WalksAll
<1>5. CASE ~Refused(r) /\ AsksToConvert(r)
  <2> DEFINE listening == [at |-> "Listening"]
  <2>1. Script(r) = Tell(listening) \o Convert(r) /\ r.kind # "draw"
    BY <1>5 DEF Script, AsksToConvert
  <2>2. PICK z : Leads(Counts(r), Convert(r), Unbegun, z)
    BY <1>5, ConvertCounts
  <2> HIDE DEF listening
  <2>3. Leads(Counts(r), Tell(listening) \o Convert(r), Unbegun, z)
    BY <1>0, <2>2, TellFirst, Joined
  <2> QED
    BY <2>1, <2>3 DEF WalksAll
<1> QED
  BY <1>1, <1>2, <1>3, <1>4, <1>5 DEF IsAsked

-----------------------------------------------------------------------------
(* The invariant. *)

\* What has been drawn of a generator since this run seeded it.
DrawnOf(g) == IF gens[g].seeded THEN gens[g].n ELSE Unseeded
Reached(l) == <<l, walked, DrawnOf("host"), DrawnOf("device")>>

Generators == gens \in [{"host", "device"} -> [seeded : BOOLEAN, n : Nat]]

\* What is left of a run leads to where the whole of it does, from what has been counted.
RunGoesOn ==
  answer = "running" =>
    \E l \in 0..Near(request) : \E z :
      /\ Leads(Counts(request), todo, Reached(l), z) /\ WalksAll(request, z)
      /\ IF stop THEN late <= l ELSE late = 0

NothingYet ==
  answer = "none" =>
    /\ request = Nobody /\ stop = FALSE /\ draws = {} /\ late = 0 /\ walked = 0
    /\ gens = [g \in {"host", "device"} |-> Left]

ReportsInv ==
  /\ answer \in {"none", "running", "done", "cancelled", "failed"}
  /\ answer # "none" => request \in Requests
  /\ Generators /\ late \in Nat /\ walked \in Nat
  /\ RunGoesOn /\ NothingYet /\ StopIsNear /\ StepsAsAsked /\ DrawsAsSeeded

\* Nothing is asked at first.
LEMMA ReportsInvInit == ReportsInit => ReportsInv
<1> SUFFICES ASSUME ReportsInit PROVE ReportsInv
  OBVIOUS
<1> USE DEF ReportsInit
<1>1. Generators
  BY DEF Generators, Left
<1>2. NothingYet /\ RunGoesOn /\ StepsAsAsked /\ DrawsAsSeeded
  BY DEF NothingYet, RunGoesOn, StepsAsAsked, DrawsAsSeeded
<1>3. StopIsNear
  BY DEF StopIsNear, Unreported, Nobody
<1> QED
  BY <1>1, <1>2, <1>3 DEF ReportsInv

\* An entry of a run takes what was counted to what is counted after it.
LEMMA EntryTakes ==
  ASSUME ReportsInv, answer = "running", todo # <<>>, Head(todo).do # "fail"
  PROVE  \E l, b, z :
           /\ l \in 0..Near(request)
           /\ CountGoes(request, Head(todo), Reached(l), b)
           /\ Leads(Counts(request), Tail(todo), b, z) /\ WalksAll(request, z)
           /\ IF stop THEN late <= l ELSE late = 0
<1>1. PICK l, z :
        /\ l \in 0..Near(request)
        /\ Leads(Counts(request), todo, Reached(l), z) /\ WalksAll(request, z)
        /\ IF stop THEN late <= l ELSE late = 0
  BY DEF ReportsInv, RunGoesOn
<1>2. PICK b : Takes(Counts(request), Head(todo), Reached(l), b)
                 /\ Leads(Counts(request), Tail(todo), b, z)
  BY <1>1, FirstTakes
<1>3. CountGoes(request, Head(todo), Reached(l), b)
  BY <1>2 DEF Takes, Counts
<1> QED
  BY <1>1, <1>2, <1>3

\* A run goes on from what its first entry leads to.
LEMMA GoesOn ==
  ASSUME answer = "running", Goes, request' = request,
         NEW e \in 0..Near(request), NEW b, NEW z,
         Leads(Counts(request), Tail(todo), b, z), WalksAll(request, z),
         b = <<e, walked', DrawnOf("host")', DrawnOf("device")'>>,
         IF stop' THEN late' <= e ELSE late' = 0
  PROVE  RunGoesOn'
<1>1. b = Reached(e)'
  BY DEF Reached
<1>2. todo' = Tail(todo)
  BY DEF Goes
<1>3. Leads(Counts(request'), todo', Reached(e)', z) /\ WalksAll(request', z) /\ e \in 0..Near(request')
  BY <1>1, <1>2
<1> QED
  BY <1>3 DEF RunGoesOn

\* What is left to show where the request goes on being answered.
LEMMA StillRunning ==
  ASSUME ReportsInv, answer = "running", answer' = answer, request' = request, RunGoesOn', Generators',
         late' \in Nat, walked' \in Nat, StopIsNear', DrawsAsSeeded'
  PROVE  ReportsInv'
BY DEF ReportsInv, NothingYet, StepsAsAsked

\* A run that is stopped or fails leaves nothing to lead anywhere.
LEMMA CutShort ==
  ASSUME ReportsInv, answer = "running", answer' \in {"cancelled", "failed"},
         request' = request, gens' = gens, draws' = draws, late' = late, walked' = walked
  PROVE  ReportsInv'
<1>1. RunGoesOn' /\ NothingYet' /\ StepsAsAsked'
  BY DEF RunGoesOn, NothingYet, StepsAsAsked
<1>2. Generators' /\ StopIsNear' /\ DrawsAsSeeded'
  BY DEF ReportsInv, Generators, StopIsNear, DrawsAsSeeded
<1> QED
  BY <1>1, <1>2 DEF ReportsInv

\* What neither draws nor works, and is not what a run fails with.
LEMMA PassesOn ==
  ASSUME ReportsInv, answer = "running", todo # <<>>, Head(todo).do \in {"tell", "look", "hand"}, Goes,
         Head(todo).do = "tell" \/ ~stop,
         request' = request, stop' = stop, gens' = gens,
         draws' = draws, late' = late, walked' = walked
  PROVE  ReportsInv'
<1>1. PICK l, b, z :
        /\ l \in 0..Near(request)
        /\ CountGoes(request, Head(todo), Reached(l), b)
        /\ Leads(Counts(request), Tail(todo), b, z) /\ WalksAll(request, z)
        /\ IF stop THEN late <= l ELSE late = 0
  BY EntryTakes
<1> DEFINE op == Head(todo)
           a == Reached(l)
<1>2. a[1] = l /\ a[2] = walked /\ a[3] = DrawnOf("host") /\ a[4] = DrawnOf("device")
  BY DEF Reached
<1>3. CountGoes(request, op, a, b) /\ op.do \in {"tell", "look", "hand"}
  BY <1>1
<1> HIDE DEF op, a
<1>4. /\ b = <<b[1], b[2], b[3], b[4]>> /\ b[1] \in 0..Near(request)
      /\ op.do = "tell" => b[1] >= a[1]
      /\ b[2] = a[2] /\ b[3] = a[3] /\ b[4] = a[4]
  BY <1>3 DEF CountGoes
<1>5. /\ DrawnOf("host")' = DrawnOf("host") /\ DrawnOf("device")' = DrawnOf("device")
      /\ walked' = walked
  BY DEF DrawnOf
<1>6. PICK e \in 0..Near(request) : e = b[1]
  BY <1>4
<1>7. b = <<e, walked', DrawnOf("host")', DrawnOf("device")'>>
  BY <1>2, <1>4, <1>5, <1>6
<1>8. IF stop' THEN late' <= e ELSE late' = 0
  <2>1. Near(request) \in Int /\ late \in Nat
    <3>1. request \in Requests /\ late \in Nat
      BY DEF ReportsInv
    <3> QED
      BY <3>1, NearIsEnough, ReportsAssumption DEF IsAsked, NearEnough
  <2>2. stop => op.do = "tell"
    BY DEF op
  <2> QED
    BY <1>1, <1>2, <1>4, <1>6, <2>1, <2>2
<1>9. RunGoesOn'
  BY <1>1, <1>7, <1>8, GoesOn
<1>10. Generators' /\ StopIsNear' /\ DrawsAsSeeded' /\ late' \in Nat /\ walked' \in Nat
  BY DEF ReportsInv, Generators, StopIsNear, DrawsAsSeeded
<1> QED
  BY <1>9, <1>10, StillRunning DEF Goes

\* How near a stop has to be, of what is being answered.
LEMMA NearIsNat ==
  ASSUME ReportsInv, answer # "none"
  PROVE  Near(request) \in Nat /\ late \in Nat /\ walked \in Nat
<1>1. request \in Requests /\ late \in Nat /\ walked \in Nat
  BY DEF ReportsInv
<1> QED
  BY <1>1, NearIsEnough, ReportsAssumption DEF IsAsked, NearEnough

\* Work is late by one more, once a stop was asked for, and is near all the same.
LEMMA WorksKeeps ==
  ASSUME ReportsInv, Works
  PROVE  ReportsInv'
<1>0. answer = "running" /\ todo # <<>> /\ Head(todo).do = "work" /\ Goes
      /\ request' = request /\ stop' = stop /\ gens' = gens /\ draws' = draws
      /\ late' = (IF stop THEN late + 1 ELSE late)
      /\ walked' = (IF Head(todo).what = "step" THEN walked + 1 ELSE walked)
  BY DEF Works, Due, Idle
<1>1. PICK l, b, z :
        /\ l \in 0..Near(request)
        /\ CountGoes(request, Head(todo), Reached(l), b)
        /\ Leads(Counts(request), Tail(todo), b, z) /\ WalksAll(request, z)
        /\ IF stop THEN late <= l ELSE late = 0
  BY <1>0, EntryTakes
<1> DEFINE op == Head(todo)
           a == Reached(l)
<1>2. a[1] = l /\ a[2] = walked /\ a[3] = DrawnOf("host") /\ a[4] = DrawnOf("device")
  BY DEF Reached
<1>3. CountGoes(request, op, a, b) /\ op.do = "work" /\ walked' = (IF op.what = "step" THEN walked + 1 ELSE walked)
  BY <1>0, <1>1
<1> HIDE DEF op, a
<1>4. /\ b = <<b[1], b[2], b[3], b[4]>> /\ b[1] \in 0..Near(request)
      /\ b[1] >= a[1] + 1
      /\ b[2] = (IF op.what = "step" THEN a[2] + 1 ELSE a[2]) /\ b[3] = a[3] /\ b[4] = a[4]
  BY <1>3 DEF CountGoes
<1>5. DrawnOf("host")' = DrawnOf("host") /\ DrawnOf("device")' = DrawnOf("device")
  BY <1>0 DEF DrawnOf
<1>6. PICK e \in 0..Near(request) : e = b[1]
  BY <1>4
<1>7. b = <<e, walked', DrawnOf("host")', DrawnOf("device")'>>
  BY <1>2, <1>3, <1>4, <1>5, <1>6
<1>8. /\ IF stop' THEN late' <= e ELSE late' = 0
      /\ late' \in Nat /\ walked' \in Nat /\ late' <= Near(request)
  BY <1>0, <1>1, <1>2, <1>4, <1>6, NearIsNat
<1>9. RunGoesOn'
  BY <1>0, <1>1, <1>7, <1>8, GoesOn
<1>10. Generators' /\ DrawsAsSeeded'
  BY <1>0 DEF ReportsInv, Generators, DrawsAsSeeded
<1>11. StopIsNear'
  BY <1>0, <1>8 DEF StopIsNear, Near
<1> QED
  BY <1>0, <1>8, <1>9, <1>10, <1>11, StillRunning DEF Goes

\* What is drawn, or seeded, and nothing else.
LEMMA DrewOf ==
  ASSUME ReportsInv, answer = "running", Goes,
         request' = request, stop' = stop, late' = late, walked' = walked,
         NEW l \in 0..Near(request), NEW b, NEW z,
         Leads(Counts(request), Tail(todo), b, z), WalksAll(request, z), IF stop THEN late <= l ELSE late = 0,
         b = <<b[1], b[2], b[3], b[4]>>, b[1] \in 0..Near(request), b[1] >= l, b[2] = walked,
         b[3] = DrawnOf("host")', b[4] = DrawnOf("device")', Generators', DrawsAsSeeded'
  PROVE  ReportsInv'
<1>1. PICK e \in 0..Near(request) : e = b[1]
  OBVIOUS
<1>2. b = <<e, walked', DrawnOf("host")', DrawnOf("device")'>>
  BY <1>1
<1>3. IF stop' THEN late' <= e ELSE late' = 0
  BY <1>1, NearIsNat
<1>4. RunGoesOn'
  BY <1>1, <1>2, <1>3, GoesOn
<1>5. StopIsNear' /\ late' \in Nat /\ walked' \in Nat
  BY DEF ReportsInv, StopIsNear
<1> QED
  BY <1>4, <1>5, StillRunning DEF Goes

\* A seed begins a generator's count.
LEMMA SeedsKeeps ==
  ASSUME ReportsInv, Seeds
  PROVE  ReportsInv'
<1>0. answer = "running" /\ todo # <<>> /\ Head(todo).do = "seed" /\ Goes
      /\ request' = request /\ stop' = stop /\ draws' = draws /\ late' = late /\ walked' = walked
      /\ gens' = [gens EXCEPT ![Head(todo).gen] = [seeded |-> TRUE, n |-> 0]]
  BY DEF Seeds, Due, Idle, history
<1>1. PICK l, b, z :
        /\ l \in 0..Near(request)
        /\ CountGoes(request, Head(todo), Reached(l), b)
        /\ Leads(Counts(request), Tail(todo), b, z) /\ WalksAll(request, z)
        /\ IF stop THEN late <= l ELSE late = 0
  BY <1>0, EntryTakes
<1> DEFINE op == Head(todo)
           a == Reached(l)
           gen == op.gen
           new == [seeded |-> TRUE, n |-> 0]
<1>2. a[1] = l /\ a[2] = walked /\ a[3] = DrawnOf("host") /\ a[4] = DrawnOf("device")
  BY DEF Reached
<1>3. CountGoes(request, op, a, b) /\ op.do = "seed" /\ gens' = [gens EXCEPT ![gen] = new]
  BY <1>0, <1>1
<1>4. new \in [seeded : BOOLEAN, n : Nat] /\ new.seeded /\ new.n = 0
  OBVIOUS
<1> HIDE DEF op, a, new
<1>5. /\ b = <<b[1], b[2], b[3], b[4]>> /\ b[1] \in 0..Near(request)
      /\ b[1] >= a[1] /\ b[2] = a[2] /\ gen \in {"host", "device"}
      /\ gen = "host" => b[3] = 0 /\ b[4] = a[4]
      /\ gen = "device" => b[3] = a[3] /\ b[4] = 0
  BY <1>3 DEF CountGoes, Place
<1> HIDE DEF gen
<1>6. Generators
  BY DEF ReportsInv
<1>7. /\ gens'[gen] = new
      /\ gen = "host" => gens'["device"] = gens["device"]
      /\ gen = "device" => gens'["host"] = gens["host"]
  BY <1>3, <1>5, <1>6 DEF Generators
<1>8. b[3] = DrawnOf("host")' /\ b[4] = DrawnOf("device")'
  BY <1>2, <1>4, <1>5, <1>7 DEF DrawnOf
<1>9. Generators'
  BY <1>3, <1>4, <1>5, <1>6 DEF Generators
<1>10. DrawsAsSeeded'
  BY <1>0 DEF ReportsInv, DrawsAsSeeded
<1> QED
  BY <1>0, <1>1, <1>2, <1>5, <1>8, <1>9, <1>10, DrewOf

\* A draw is at the place that is its own, for that is what its generator has come to.
LEMMA DrawsKeeps ==
  ASSUME ReportsInv, Draws
  PROVE  ReportsInv'
<1>0. answer = "running" /\ todo # <<>> /\ Head(todo).do = "draw" /\ Goes
      /\ request' = request /\ stop' = stop /\ late' = late /\ walked' = walked
      /\ gens' = [gens EXCEPT ![Head(todo).gen].n = @ + 1]
      /\ draws' = draws \cup {[on |-> Head(todo).on, from |-> gens[Head(todo).gen]]}
  BY DEF Draws, Due, Idle
<1>1. PICK l, b, z :
        /\ l \in 0..Near(request)
        /\ CountGoes(request, Head(todo), Reached(l), b)
        /\ Leads(Counts(request), Tail(todo), b, z) /\ WalksAll(request, z)
        /\ IF stop THEN late <= l ELSE late = 0
  BY <1>0, EntryTakes
<1> DEFINE op == Head(todo)
           a == Reached(l)
           gen == op.gen
           old == gens[gen]
           new == [old EXCEPT !.n = @ + 1]
           drawn == [on |-> op.on, from |-> old]
<1>2. a[1] = l /\ a[2] = walked /\ a[3] = DrawnOf("host") /\ a[4] = DrawnOf("device")
  BY DEF Reached
<1>3. CountGoes(request, op, a, b) /\ op.do = "draw" /\ gens' = [gens EXCEPT ![gen] = new]
      /\ draws' = draws \cup {drawn}
  BY <1>0, <1>1
<1>4. /\ b = <<b[1], b[2], b[3], b[4]>> /\ b[1] \in 0..Near(request)
      /\ b[1] >= a[1] /\ b[2] = a[2] /\ gen \in {"host", "device"}
      /\ gen = "host" => b[3] = a[3] + 1 /\ b[4] = a[4] /\ a[3] \in Nat /\ a[3] = DrawPlace(request, op.on)
      /\ gen = "device" => b[3] = a[3] /\ b[4] = a[4] + 1 /\ a[4] \in Nat
                             /\ a[4] = DrawPlace(request, op.on)
  <2> HIDE DEF op, a
  <2> QED
    BY <1>3 DEF CountGoes, Place
<1>5. Generators
  BY DEF ReportsInv
<1>6. old \in [seeded : BOOLEAN, n : Nat]
  <2> HIDE DEF gen
  <2> QED
    BY <1>4, <1>5 DEF Generators
<1>7. old.seeded /\ old.n = DrawPlace(request, op.on)
  <2>1. DrawnOf(gen) = DrawPlace(request, op.on) /\ DrawnOf(gen) \in Nat
    <3> HIDE DEF gen, a, op
    <3> QED
      BY <1>2, <1>4
  <2>2. DrawnOf(gen) = IF old.seeded THEN old.n ELSE -1
    BY DEF DrawnOf, Unseeded
  <2> HIDE DEF gen, old
  <2> QED
    BY <1>6, <2>1, <2>2
<1> HIDE DEF gen, old
<1>8. new \in [seeded : BOOLEAN, n : Nat] /\ new.seeded /\ new.n = old.n + 1
  BY <1>6, <1>7
<1>9. drawn.on = op.on /\ drawn.from = [seeded |-> TRUE, n |-> DrawPlace(request, op.on)]
  <2>1. old = [seeded |-> TRUE, n |-> DrawPlace(request, op.on)]
    BY <1>6, <1>7
  <2> QED
    BY <2>1
<1> HIDE DEF op, a, new, drawn
<1>10. /\ gens'[gen] = new
       /\ gen = "host" => gens'["device"] = gens["device"]
       /\ gen = "device" => gens'["host"] = gens["host"]
  BY <1>3, <1>4, <1>5 DEF Generators
<1>11. gens[gen] = old
  BY DEF old
<1>12. b[3] = DrawnOf("host")' /\ b[4] = DrawnOf("device")'
  <2>1. CASE gen = "host"
    <3>1. DrawnOf("host")' = old.n + 1 /\ DrawnOf("device")' = DrawnOf("device") /\ DrawnOf("host") = old.n
      BY <1>7, <1>8, <1>10, <1>11, <2>1 DEF DrawnOf
    <3> QED
      BY <1>2, <1>4, <2>1, <3>1
  <2>2. CASE gen = "device"
    <3>1. DrawnOf("device")' = old.n + 1 /\ DrawnOf("host")' = DrawnOf("host") /\ DrawnOf("device") = old.n
      BY <1>7, <1>8, <1>10, <1>11, <2>2 DEF DrawnOf
    <3> QED
      BY <1>2, <1>4, <2>2, <3>1
  <2> QED
    BY <1>4, <2>1, <2>2
<1>13. Generators'
  BY <1>3, <1>4, <1>5, <1>8 DEF Generators
<1>14. DrawsAsSeeded'
  <2>1. \A d \in draws : d.from = [seeded |-> TRUE, n |-> DrawPlace(request, d.on)]
    BY DEF ReportsInv, DrawsAsSeeded
  <2>2. \A d \in draws' : d.from = [seeded |-> TRUE, n |-> DrawPlace(request, d.on)]
    BY <1>3, <1>9, <2>1
  <2> QED
    BY <1>0, <2>2 DEF DrawsAsSeeded
<1> QED
  BY <1>0, <1>1, <1>2, <1>4, <1>12, <1>13, <1>14, DrewOf

\* A request is asked, with nothing counted of it.
LEMMA AskKeeps ==
  ASSUME ReportsInv, NEW r \in Requests, Ask(r)
  PROVE  ReportsInv'
<1>0. /\ answer = "none" /\ request' = r /\ todo' = Script(r) /\ answer' = "running"
      /\ stop' = stop /\ gens' = gens /\ draws' = draws /\ late' = late /\ walked' = walked
  BY DEF Ask, history
<1>1. /\ stop = FALSE /\ draws = {} /\ late = 0 /\ walked = 0
      /\ gens = [g \in {"host", "device"} |-> Left]
  BY <1>0 DEF ReportsInv, NothingYet
<1>2. IsAsked(r)
  BY ReportsAssumption DEF IsAsked
<1>3. PICK z : Leads(Counts(r), Script(r), Unbegun, z) /\ WalksAll(r, z)
  BY <1>2, ScriptLeads
<1>4. Near(r) \in Nat /\ Near(r) >= 2
  BY <1>2, NearIsEnough DEF NearEnough
<1>5. Reached(0)' = Unbegun
  <2>1. gens'["host"] = Left /\ gens'["device"] = Left /\ walked' = 0
    BY <1>0, <1>1
  <2>2. ~Left.seeded
    BY DEF Left
  <2> QED
    BY <2>1, <2>2 DEF Reached, DrawnOf, Unbegun
<1>6. RunGoesOn'
  <2>1. Leads(Counts(request'), todo', Reached(0)', z) /\ WalksAll(request', z)
    BY <1>0, <1>3, <1>5
  <2>2. 0 \in 0..Near(request') /\ (IF stop' THEN late' <= 0 ELSE late' = 0)
    BY <1>0, <1>1, <1>4
  <2> QED
    BY <2>1, <2>2 DEF RunGoesOn
<1>7. NothingYet' /\ StepsAsAsked' /\ DrawsAsSeeded'
  BY <1>0, <1>1 DEF NothingYet, StepsAsAsked, DrawsAsSeeded
<1>8. StopIsNear'
  BY <1>0, <1>1, <1>4 DEF StopIsNear, Near
<1>9. Generators'
  BY <1>0 DEF ReportsInv, Generators
<1> QED
  BY <1>0, <1>1, <1>6, <1>7, <1>8, <1>9 DEF ReportsInv

\* The thread is done with a request and forgets its counts.
LEMMA AnsweredKeeps ==
  ASSUME ReportsInv, Answered
  PROVE  ReportsInv'
<1>0. /\ request' = Nobody /\ stop' = FALSE /\ answer' = "none"
      /\ gens' = [g \in DOMAIN gens |-> Left] /\ draws' = {} /\ late' = 0 /\ walked' = 0
  BY DEF Answered
<1>1. DOMAIN gens = {"host", "device"}
  BY DEF ReportsInv, Generators
<1>2. Generators'
  BY <1>0, <1>1 DEF Generators, Left
<1>3. NothingYet' /\ RunGoesOn' /\ StepsAsAsked' /\ DrawsAsSeeded'
  BY <1>0, <1>1 DEF NothingYet, RunGoesOn, StepsAsAsked, DrawsAsSeeded
<1>4. StopIsNear'
  BY <1>0 DEF StopIsNear, Unreported, Nobody
<1> QED
  BY <1>0, <1>2, <1>3, <1>4 DEF ReportsInv

\* A stop that is asked for is asked for where nothing is late yet.
LEMMA StopKeeps ==
  ASSUME ReportsInv, Stop
  PROVE  ReportsInv'
<1>0. /\ answer = "running" /\ ~stop /\ stop' = TRUE /\ request' = request /\ todo' = todo /\ gens' = gens
      /\ answer' = answer /\ draws' = draws /\ late' = late /\ walked' = walked
  BY DEF Stop, Idle, history
<1>1. PICK l, z :
        /\ l \in 0..Near(request)
        /\ Leads(Counts(request), todo, Reached(l), z) /\ WalksAll(request, z) /\ late = 0
  BY <1>0 DEF ReportsInv, RunGoesOn
<1>2. Reached(l)' = Reached(l)
  BY <1>0 DEF Reached, DrawnOf
<1>3. Leads(Counts(request'), todo', Reached(l)', z) /\ WalksAll(request', z) /\ l \in 0..Near(request')
  BY <1>0, <1>1, <1>2
<1>4. late' <= l
  BY <1>0, <1>1
<1>5. RunGoesOn'
  BY <1>0, <1>3, <1>4 DEF RunGoesOn
<1>6. Generators' /\ StopIsNear' /\ DrawsAsSeeded' /\ late' \in Nat /\ walked' \in Nat
  BY <1>0 DEF ReportsInv, Generators, StopIsNear, DrawsAsSeeded
<1> QED
  BY <1>0, <1>5, <1>6, StillRunning

\* A run that has nothing left has walked what it was to.
LEMMA FinishesKeeps ==
  ASSUME ReportsInv, Finishes
  PROVE  ReportsInv'
<1>0. /\ answer = "running" /\ todo = <<>> /\ answer' = "done" /\ request' = request /\ gens' = gens
      /\ draws' = draws /\ late' = late /\ walked' = walked
  BY DEF Finishes, Idle, history, AnswerEnds
<1>1. PICK l, z : l \in 0..Near(request) /\ Leads(Counts(request), todo, Reached(l), z)
                  /\ WalksAll(request, z)
  BY <1>0 DEF ReportsInv, RunGoesOn
<1>2. z = Reached(l)
  BY <1>0, <1>1, NothingLed
<1>3. request.kind = "draw" => walked = Walks(request)
  BY <1>1, <1>2 DEF WalksAll, Reached
<1>4. RunGoesOn' /\ NothingYet'
  BY <1>0 DEF RunGoesOn, NothingYet
<1>5. StepsAsAsked'
  BY <1>0, <1>3 DEF StepsAsAsked, Walks
<1>6. Generators' /\ StopIsNear' /\ DrawsAsSeeded'
  BY <1>0 DEF ReportsInv, Generators, StopIsNear, DrawsAsSeeded
<1> QED
  BY <1>0, <1>4, <1>5, <1>6 DEF ReportsInv

\* A step of something else.
LEMMA StandsStill ==
  ASSUME ReportsInv, UNCHANGED reportVars
  PROVE  ReportsInv'
<1>0. /\ request' = request /\ todo' = todo /\ stop' = stop /\ gens' = gens /\ answer' = answer
      /\ draws' = draws /\ late' = late /\ walked' = walked
  BY DEF reportVars, history
<1>1. \A l : Reached(l)' = Reached(l)
  BY <1>0 DEF Reached, DrawnOf
<1>2. RunGoesOn'
  <2> SUFFICES ASSUME answer = "running" PROVE RunGoesOn'
    BY <1>0 DEF RunGoesOn
  <2>1. PICK l, z :
          /\ l \in 0..Near(request)
          /\ Leads(Counts(request), todo, Reached(l), z) /\ WalksAll(request, z)
          /\ IF stop THEN late <= l ELSE late = 0
    BY DEF ReportsInv, RunGoesOn
  <2>2. /\ Leads(Counts(request'), todo', Reached(l)', z) /\ WalksAll(request', z) /\ l \in 0..Near(request')
        /\ IF stop' THEN late' <= l ELSE late' = 0
    BY <1>0, <1>1, <2>1
  <2> QED
    BY <2>2 DEF RunGoesOn
<1>3. Generators' /\ NothingYet' /\ StopIsNear' /\ StepsAsAsked' /\ DrawsAsSeeded'
  BY <1>0 DEF ReportsInv, Generators, NothingYet, StopIsNear, StepsAsAsked, DrawsAsSeeded
<1> QED
  BY <1>0, <1>2, <1>3 DEF ReportsInv

\* Every step keeps the invariant.
LEMMA ReportsInvKeeps == ReportsInv /\ [ReportsNext]_reportVars => ReportsInv'
<1> SUFFICES ASSUME ReportsInv, [ReportsNext]_reportVars PROVE ReportsInv'
  OBVIOUS
<1>1. CASE Tells
  <2>1. /\ answer = "running" /\ todo # <<>> /\ Head(todo).do = "tell" /\ Goes /\ request' = request
        /\ stop' = stop /\ gens' = gens /\ draws' = draws /\ late' = late /\ walked' = walked
    BY <1>1 DEF Tells, Due, Idle, history
  <2> QED
    BY <2>1, PassesOn
<1>2. CASE Looks
  <2>1. /\ answer = "running" /\ todo # <<>> /\ Head(todo).do = "look" /\ request' = request
        /\ stop' = stop /\ gens' = gens /\ draws' = draws /\ late' = late /\ walked' = walked
        /\ (stop /\ answer' = "cancelled") \/ (~stop /\ Goes)
    BY <1>2 DEF Looks, Due, Idle, history, AnswerEnds
  <2> QED
    BY <2>1, PassesOn, CutShort
<1>3. CASE Hands
  <2>1. /\ answer = "running" /\ todo # <<>> /\ Head(todo).do = "hand" /\ request' = request
        /\ stop' = stop /\ gens' = gens /\ draws' = draws /\ late' = late /\ walked' = walked
        /\ (stop /\ answer' = "cancelled") \/ (~stop /\ Goes)
    BY <1>3 DEF Hands, Due, Idle, history, AnswerEnds
  <2> QED
    BY <2>1, PassesOn, CutShort
<1>4. CASE RunFails
  <2>1. /\ answer = "running" /\ answer' = "failed" /\ request' = request
        /\ gens' = gens /\ draws' = draws /\ late' = late /\ walked' = walked
    BY <1>4 DEF RunFails, Due, Idle, history, AnswerEnds
  <2> QED
    BY <2>1, CutShort
<1>5. CASE Seeds
  BY <1>5, SeedsKeeps
<1>6. CASE Draws
  BY <1>6, DrawsKeeps
<1>7. CASE Works
  BY <1>7, WorksKeeps
<1>8. CASE Finishes
  BY <1>8, FinishesKeeps
<1>9. CASE Answered
  BY <1>9, AnsweredKeeps
<1>10. CASE Stop
  BY <1>10, StopKeeps
<1>11. CASE \E r \in Requests : Ask(r)
  BY <1>11, AskKeeps
<1>12. CASE UNCHANGED reportVars
  BY <1>12, StandsStill
<1> QED
  BY <1>1, <1>2, <1>3, <1>4, <1>5, <1>6, <1>7, <1>8, <1>9, <1>10, <1>11, <1>12 DEF ReportsNext, Runs

\* A stop is looked at before two more steps of work are over, and what nothing is reported between,
\* whatever the model (StopIsNear): the looks are where on_step and on_audio of the pipelines are called.
THEOREM StopsNear == ReportsSpec => []StopIsNear
<1>1. ReportsInv => StopIsNear
  BY DEF ReportsInv
<1> QED
  BY <1>1, ReportsInvInit, ReportsInvKeeps, PTL DEF ReportsSpec

\* A picture that is done has been walked in the steps that were asked for, or that its release has
\* (StepsAsAsked): EulerSampler::from_image cuts a longer schedule to as many.
THEOREM WalksAsAsked == ReportsSpec => []StepsAsAsked
<1>1. ReportsInv => StepsAsAsked
  BY DEF ReportsInv
<1> QED
  BY <1>1, ReportsInvInit, ReportsInvKeeps, PTL DEF ReportsSpec

\* What a request draws is of its own seed, at a place that is its own, whatever was drawn, stopped or
\* failed before it (DrawsAsSeeded): every pipeline seeds its generator before its first draw.
THEOREM DrewAsSeeded == ReportsSpec => []DrawsAsSeeded
<1>1. ReportsInv => DrawsAsSeeded
  BY DEF ReportsInv
<1> QED
  BY <1>1, ReportsInvInit, ReportsInvKeeps, PTL DEF ReportsSpec

-----------------------------------------------------------------------------
(* Parts of a whole. *)

\* A product grows with a factor.
LEMMA MulLe ==
  ASSUME NEW x \in Int, NEW y \in Int, NEW k \in Nat, x <= y
  PROVE  x * k <= y * k
<1>1. PICK d \in Nat : y = x + d
  <2>1. y - x \in Nat /\ y = x + (y - x)
    OBVIOUS
  <2> QED
    BY <2>1
<1>2. y * k = x * k + d * k /\ d * k \in Nat /\ x * k \in Int
  BY <1>1
<1> QED
  BY <1>2

\* And a factor that is not nothing may be left out on both sides.
LEMMA CancelLe ==
  ASSUME NEW x \in Int, NEW y \in Int, NEW k \in Nat \ {0}, x * k <= y * k
  PROVE  x <= y
<1> SUFFICES ASSUME y + 1 <= x PROVE FALSE
  OBVIOUS
<1>1. (y + 1) * k <= x * k
  BY MulLe
<1>2. (y + 1) * k = y * k + k /\ y * k \in Int /\ x * k \in Int
  OBVIOUS
<1> QED
  BY <1>1, <1>2

\* What a fraction is made of.
LEMMA PartIs ==
  ASSUME NEW a \in Part
  PROVE  a[1] \in Nat /\ a[2] \in Nat \ {0} /\ a = <<a[1], a[2]>>
BY DEF Part

\* A fraction is at most itself.
LEMMA AtMostSelf ==
  ASSUME NEW a \in Part
  PROVE  AtMost(a, a)
<1>1. a[1] \in Nat /\ a[2] \in Nat
  BY PartIs
<1>2. a[1] * a[2] \in Nat
  BY <1>1
<1> QED
  BY <1>2 DEF AtMost

\* One that is at most another is at most what that is at most.
LEMMA AtMostAll ==
  ASSUME NEW a \in Part, NEW b \in Part, NEW c \in Part, AtMost(a, b), AtMost(b, c)
  PROVE  AtMost(a, c)
<1> DEFINE x == a[1]
           u == a[2]
           y == b[1]
           v == b[2]
           z == c[1]
           w == c[2]
<1>1. x \in Nat /\ y \in Nat /\ z \in Nat /\ u \in Nat \ {0} /\ v \in Nat \ {0} /\ w \in Nat \ {0}
  BY PartIs
<1>2. x * v <= y * u /\ y * w <= z * v
  BY DEF AtMost
<1> HIDE DEF x, u, y, v, z, w
<1>3. x * v \in Int /\ y * u \in Int /\ y * w \in Int /\ z * v \in Int /\ x * w \in Int /\ z * u \in Int
  BY <1>1
<1>4. (x * v) * w <= (y * u) * w /\ (y * w) * u <= (z * v) * u
  BY <1>1, <1>2, <1>3, MulLe
<1>5. /\ (x * v) * w = (x * w) * v /\ (y * u) * w = (y * w) * u /\ (z * v) * u = (z * u) * v
      /\ (x * w) * v \in Int /\ (y * w) * u \in Int /\ (z * u) * v \in Int
  BY <1>1
<1>6. (x * w) * v <= (z * u) * v
  BY <1>4, <1>5
<1>7. x * w <= z * u
  BY <1>1, <1>3, <1>6, CancelLe
<1> QED
  BY <1>7 DEF AtMost, x, u, y, v, z, w

\* Of a whole in as many, more is more.
LEMMA MoreOfSame ==
  ASSUME NEW x \in Nat, NEW y \in Nat, x <= y, NEW d \in Nat \ {0}
  PROVE  <<x, d>> \in Part /\ <<y, d>> \in Part /\ AtMost(<<x, d>>, <<y, d>>)
<1>1. x * d <= y * d
  BY MulLe
<1>2. <<x, d>>[1] = x /\ <<x, d>>[2] = d /\ <<y, d>>[1] = y /\ <<y, d>>[2] = d
  OBVIOUS
<1>3. AtMost(<<x, d>>, <<y, d>>)
  BY <1>1, <1>2 DEF AtMost
<1> QED
  BY <1>3 DEF Part

\* What is all of one or the other, or between, is no less than nothing.
LEMMA LesserIs ==
  ASSUME NEW a \in Part, NEW h \in Part
  PROVE  /\ LesserOf(a, h) \in {a, h} /\ LesserOf(a, h) \in Part
         /\ AtMost(LesserOf(a, h), a) /\ AtMost(LesserOf(a, h), h)
<1>1. AtMost(a, a) /\ AtMost(h, h)
  BY AtMostSelf
<1>2. ~AtMost(a, h) => AtMost(h, a)
  <2>1. a[1] * h[2] \in Int /\ h[1] * a[2] \in Int
    <3>1. a[1] \in Nat /\ a[2] \in Nat /\ h[1] \in Nat /\ h[2] \in Nat
      BY PartIs
    <3> QED
      BY <3>1
  <2> QED
    BY <2>1 DEF AtMost
<1> QED
  BY <1>1, <1>2 DEF LesserOf

\* What is held at a bound grows with what is held.
LEMMA LesserGrows ==
  ASSUME NEW a \in Part, NEW b \in Part, NEW h \in Part, AtMost(a, b)
  PROVE  AtMost(LesserOf(a, h), LesserOf(b, h))
<1> DEFINE l == LesserOf(a, h)
<1>1. l \in Part /\ AtMost(l, a) /\ AtMost(l, h) /\ LesserOf(b, h) \in {b, h}
  BY LesserIs
<1> HIDE DEF l
<1>2. AtMost(l, b)
  BY <1>1, AtMostAll
<1> QED
  BY <1>1, <1>2 DEF l

\* Nothing is at most any fraction.
LEMMA NothingLess ==
  ASSUME NEW a \in Part
  PROVE  Nothing \in Part /\ AtMost(Nothing, a)
<1>1. a[1] \in Nat /\ a[2] \in Nat
  BY PartIs
<1>2. Nothing[1] = 0 /\ Nothing[2] = 1 /\ Nothing \in Part
  BY DEF Nothing, Part
<1>3. 0 * a[2] = 0 /\ a[1] * 1 = a[1]
  BY <1>1
<1> QED
  BY <1>1, <1>2, <1>3 DEF AtMost

\* A product grows with its second factor.
LEMMA TimesGrows ==
  ASSUME NEW k \in Part, NEW a \in Part, NEW b \in Part, AtMost(a, b)
  PROVE  Times(k, a) \in Part /\ Times(k, b) \in Part /\ AtMost(Times(k, a), Times(k, b))
<1> DEFINE p == k[1]
           q == k[2]
           x == a[1]
           u == a[2]
           y == b[1]
           v == b[2]
<1>1. p \in Nat /\ q \in Nat \ {0} /\ x \in Nat /\ u \in Nat \ {0} /\ y \in Nat /\ v \in Nat \ {0}
  BY PartIs
<1>2. x * v <= y * u
  BY DEF AtMost
<1>3. Times(k, a) = <<p * x, q * u>> /\ Times(k, b) = <<p * y, q * v>>
  BY DEF Times
<1> HIDE DEF p, q, x, u, y, v
<1>4. p * x \in Nat /\ p * y \in Nat /\ q * u \in Nat \ {0} /\ q * v \in Nat \ {0}
  BY <1>1
<1>5. Times(k, a) \in Part /\ Times(k, b) \in Part
  BY <1>3, <1>4 DEF Part
<1>6. (x * v) * (p * q) <= (y * u) * (p * q)
  <2>1. x * v \in Int /\ y * u \in Int /\ p * q \in Nat
    BY <1>1
  <2> QED
    BY <1>2, <2>1, MulLe
<1>7. (x * v) * (p * q) = (p * x) * (q * v) /\ (y * u) * (p * q) = (p * y) * (q * u)
  BY <1>1
<1>8. (p * x) * (q * v) <= (p * y) * (q * u)
  BY <1>6, <1>7
<1>9. AtMost(<<p * x, q * u>>, <<p * y, q * v>>)
  BY <1>8 DEF AtMost
<1> QED
  BY <1>3, <1>5, <1>9

\* A sum grows with both of its parts.
LEMMA PlusGrows ==
  ASSUME NEW a \in Part, NEW b \in Part, NEW c \in Part, NEW d \in Part, AtMost(a, b), AtMost(c, d)
  PROVE  Plus(a, c) \in Part /\ Plus(b, d) \in Part /\ AtMost(Plus(a, c), Plus(b, d))
<1> DEFINE x == a[1]
           u == a[2]
           y == b[1]
           v == b[2]
           z == c[1]
           w == c[2]
           s == d[1]
           t == d[2]
<1>1. /\ x \in Nat /\ u \in Nat \ {0} /\ y \in Nat /\ v \in Nat \ {0}
      /\ z \in Nat /\ w \in Nat \ {0} /\ s \in Nat /\ t \in Nat \ {0}
  BY PartIs
<1>2. x * v <= y * u /\ z * t <= s * w
  BY DEF AtMost
<1>3. Plus(a, c) = <<x * w + z * u, u * w>> /\ Plus(b, d) = <<y * t + s * v, v * t>>
  BY DEF Plus
<1> HIDE DEF x, u, y, v, z, w, s, t
<1>4. x * w + z * u \in Nat /\ y * t + s * v \in Nat /\ u * w \in Nat \ {0} /\ v * t \in Nat \ {0}
  BY <1>1
<1>5. Plus(a, c) \in Part /\ Plus(b, d) \in Part
  BY <1>3, <1>4 DEF Part
<1>6. (x * v) * (w * t) <= (y * u) * (w * t) /\ (z * t) * (u * v) <= (s * w) * (u * v)
  <2>1. x * v \in Int /\ y * u \in Int /\ z * t \in Int /\ s * w \in Int /\ w * t \in Nat /\ u * v \in Nat
    BY <1>1
  <2> QED
    BY <1>2, <2>1, MulLe
<1>7. /\ (x * w + z * u) * (v * t) = (x * v) * (w * t) + (z * t) * (u * v)
      /\ (y * t + s * v) * (u * w) = (y * u) * (w * t) + (s * w) * (u * v)
      /\ (x * v) * (w * t) \in Int /\ (y * u) * (w * t) \in Int
      /\ (z * t) * (u * v) \in Int /\ (s * w) * (u * v) \in Int
  BY <1>1
<1>8. (x * w + z * u) * (v * t) <= (y * t + s * v) * (u * w)
  BY <1>6, <1>7
<1>9. AtMost(<<x * w + z * u, u * w>>, <<y * t + s * v, v * t>>)
  BY <1>8 DEF AtMost
<1> QED
  BY <1>3, <1>5, <1>9

-----------------------------------------------------------------------------
(* What the bar shows of a picture, and of layers. *)

\* What is not reported leaves the bar where it is.
LEMMA UnshownLeads ==
  ASSUME NEW r, NEW a \in Part, NEW b \in Part, AtMost(a, b), NEW x, NEW y
  PROVE  /\ Leads(Shows(r), Work(x), a, b) /\ Leads(Shows(r), Seed(x), a, b)
         /\ Leads(Shows(r), DrawOn(x, y), a, b) /\ Leads(Shows(r), Fail, a, b)
<1> DEFINE work == [do |-> "work", what |-> x]
           seed == [do |-> "seed", gen |-> x]
           draw == [do |-> "draw", gen |-> x, on |-> y]
           fail == [do |-> "fail"]
<1>1. ~Reports(work) /\ ~Reports(seed) /\ ~Reports(draw) /\ fail.do = "fail"
  BY DEF Reports
<1> HIDE DEF work, seed, draw, fail
<1>2. ShownTakes(r, work, a, b) /\ ShownTakes(r, seed, a, b) /\ ShownTakes(r, draw, a, b)
      /\ ShownTakes(r, fail, a, b)
  BY <1>1 DEF ShownTakes
<1>3. Takes(Shows(r), work, a, b) /\ Takes(Shows(r), seed, a, b) /\ Takes(Shows(r), draw, a, b)
      /\ Takes(Shows(r), fail, a, b)
  BY <1>2 DEF Takes, Shows
<1>4. Leads(Shows(r), <<work>>, a, b) /\ Leads(Shows(r), <<seed>>, a, b) /\ Leads(Shows(r), <<draw>>, a, b)
      /\ Leads(Shows(r), <<fail>>, a, b)
  BY <1>3, OneLeads
<1> QED
  BY <1>4 DEF Work, Seed, DrawOn, Fail, work, seed, draw, fail

\* A run that fails is never over, and leads to anywhere.
LEMMA FailShows ==
  ASSUME NEW r, NEW a, NEW b
  PROVE  Leads(Shows(r), Fail, a, b)
<1>1. ShownTakes(r, [do |-> "fail"], a, b)
  BY DEF ShownTakes
<1>2. Takes(Shows(r), [do |-> "fail"], a, b)
  BY <1>1 DEF Takes, Shows
<1> QED
  BY <1>2, OneLeads DEF Fail

\* A report shows what it is of, no further back than what was shown before.
LEMMA LookShows ==
  ASSUME NEW r, NEW a \in Part, NEW b \in Part, NEW step, Shown(r, step) \in Part,
         AtMost(a, Shown(r, step)) \/ (WalksMore(r) /\ step.at = "Decoding"), AtMost(Shown(r, step), b)
  PROVE  Leads(Shows(r), Look(step), a, b) /\ Leads(Shows(r), Tell(step), a, b)
<1> DEFINE look == [do |-> "look", step |-> step]
           tell == [do |-> "tell", step |-> step]
<1>1. Reports(look) /\ Reports(tell) /\ look.step = step /\ tell.step = step
  BY DEF Reports
<1> HIDE DEF look, tell
<1>2. ShownTakes(r, look, a, b) /\ ShownTakes(r, tell, a, b)
  BY <1>1 DEF ShownTakes
<1>3. Takes(Shows(r), look, a, b) /\ Takes(Shows(r), tell, a, b)
  BY <1>2 DEF Takes, Shows
<1>4. Leads(Shows(r), <<look>>, a, b) /\ Leads(Shows(r), <<tell>>, a, b)
  BY <1>3, OneLeads
<1> QED
  BY <1>4 DEF Look, Tell, look, tell

\* Nothing is shown until the first step.
LEMMA NothingShown ==
  ASSUME NEW r, r.kind = "draw", NEW x, NEW y
  PROVE  /\ Leads(Shows(r), Work(x), Nothing, Nothing) /\ Leads(Shows(r), Seed(x), Nothing, Nothing)
         /\ Leads(Shows(r), DrawOn(x, y), Nothing, Nothing)
         /\ Leads(Shows(r), Look(Encoding), Nothing, Nothing)
         /\ Leads(Shows(r), Tell(Encoding), Nothing, Nothing)
<1>1. Nothing \in Part /\ AtMost(Nothing, Nothing)
  BY NothingLess DEF Nothing, Part
<1>2. Shown(r, Encoding) = Nothing
  BY DEF Shown, Drawn, Encoding
<1> QED
  BY <1>1, <1>2, UnshownLeads, LookShows

\* So many steps of as many, and what has been shown at the end of them.
StepsShown(n) == IF n = 0 THEN Nothing ELSE <<1 + n, AllOf(n)>>
AllShown(r) == <<1 + Larger(r.steps, 1), AllOf(r.steps)>>

\* All of a walk: four and its steps, or one where it has none.
LEMMA AllOfIs ==
  ASSUME NEW n \in Nat
  PROVE  AllOf(n) \in Nat \ {0} /\ AllOf(n) = 4 + Larger(n, 1) /\ Larger(n, 1) \in Nat \ {0} /\ n <= Larger(n, 1)
         /\ (n # 0 => Larger(n, 1) = n)
BY DEF AllOf, Larger, EncodingWeight, DecodingWeight

\* A walk is shown step by step, of its own number of them.
LEMMA WalkShows ==
  ASSUME NEW r, r.kind = "draw", NEW n \in Nat
  PROVE  Leads(Shows(r), Walk(n), Nothing, StepsShown(n)) /\ StepsShown(n) \in Part
<1> DEFINE s == [k \in 1..n |-> Work("step") \o Look([at |-> "Step", done |-> k, total |-> n])]
           d == AllOf(n)
<1> PICK A : A = [k \in 0..n |-> IF k = 0 THEN Nothing ELSE <<1 + k, d>>]
  OBVIOUS
<1>0. d \in Nat \ {0}
  BY AllOfIs
<1>1. \A k \in 0..n : A[k] \in Part
  BY <1>0 DEF Nothing, Part
<1>2. ASSUME NEW k \in 1..n PROVE Leads(Shows(r), s[k], A[k - 1], A[k])
  <2> DEFINE look == [at |-> "Step", done |-> k, total |-> n]
             a == A[k - 1]
             b == A[k]
  <2>1. s[k] = Work("step") \o Look(look)
    OBVIOUS
  <2>2. Shown(r, look) = b
    BY DEF Shown, Drawn, EncodingWeight
  <2>0. k - 1 \in 0..n /\ k \in 0..n
    OBVIOUS
  <2>3. a \in Part /\ b \in Part
    BY <1>1, <2>0, Zenon
  <2>4. AtMost(a, b)
    <3>1. CASE k = 1
      BY <2>3, <3>1, NothingLess
    <3>2. CASE k # 1
      <4>1. a = <<k, d>> /\ b = <<1 + k, d>>
        BY <3>2
      <4> QED
        BY <1>0, <4>1, MoreOfSame
    <3> QED
      BY <3>1, <3>2
  <2> HIDE DEF s, look, a, b
  <2>5. AtMost(a, a) /\ AtMost(b, b)
    BY <2>3, AtMostSelf
  <2>6. Leads(Shows(r), Work("step"), a, a)
    BY <2>3, <2>5, UnshownLeads
  <2>7. Leads(Shows(r), Look(look), a, b)
    BY <2>2, <2>3, <2>4, <2>5, LookShows
  <2>8. Leads(Shows(r), Work("step") \o Look(look), a, b)
    BY <2>6, <2>7, Joined
  <2> QED
    BY <2>1, <2>8 DEF a, b
<1>3. s = [k \in 1..n |-> s[k]] /\ A[0] = Nothing /\ A[n] = StepsShown(n)
  BY DEF StepsShown
<1>4. Walk(n) = FlattenSeq(s)
  BY DEF Walk, Each
<1> HIDE DEF s, d
<1>5. Leads(Shows(r), FlattenSeq(s), A[0], A[n])
  BY <1>2, <1>3, PartsLead
<1> QED
  BY <1>1, <1>3, <1>4, <1>5

\* The decode shows no less, of what was asked for and no more.
LEMMA WalkAndDecodeShows ==
  ASSUME NEW r, AsksToDraw(r), NEW n \in Nat, n <= Larger(r.steps, 1) \/ WalksMore(r)
  PROVE  Leads(Shows(r), Walk(n), Nothing, StepsShown(n))
         /\ Leads(Shows(r), Decode, StepsShown(n), AllShown(r))
<1> DEFINE decoding == [at |-> "Decoding"]
           a == StepsShown(n)
           b == AllShown(r)
           m == Larger(r.steps, 1)
<1>0. r.kind = "draw" /\ r.steps \in Nat
  BY DEF AsksToDraw
<1>1. Leads(Shows(r), Walk(n), Nothing, a) /\ a \in Part
  BY <1>0, WalkShows
<1>2. m \in Nat \ {0} /\ AllOf(r.steps) = 4 + m
  BY <1>0, AllOfIs
<1>3. b = <<1 + m, 4 + m>> /\ b \in Part
  BY <1>2 DEF AllShown, Part
<1>4. Shown(r, decoding) = b
  BY <1>0 DEF Shown, Drawn, AllShown, EncodingWeight
<1>5. n <= m => AtMost(a, b)
  <2> HIDE DEF m, b
  <2>1. CASE n = 0
    <3>1. a = Nothing
      BY <2>1 DEF StepsShown
    <3> QED
      BY <1>3, <3>1, NothingLess
  <2>2. CASE n # 0
    <3>1. a = <<1 + n, 4 + n>>
      BY <2>2, AllOfIs DEF StepsShown
    <3> SUFFICES ASSUME n <= m PROVE (1 + n) * (4 + m) <= (1 + m) * (4 + n)
      BY <1>3, <3>1 DEF AtMost
    <3>2. (1 + n) * (4 + m) = 4 + m + 4 * n + n * m /\ (1 + m) * (4 + n) = 4 + n + 4 * m + n * m
          /\ n * m \in Int
      BY <1>2
    <3> QED
      BY <1>2, <3>2
  <2> QED
    BY <2>1, <2>2
<1>6. n <= m \/ WalksMore(r)
  OBVIOUS
<1>7. decoding.at = "Decoding"
  OBVIOUS
<1> HIDE DEF decoding, a, b, m
<1>8. AtMost(b, b)
  BY <1>3, AtMostSelf
<1>9. Leads(Shows(r), Look(decoding), a, b)
  BY <1>1, <1>3, <1>4, <1>5, <1>6, <1>7, <1>8, LookShows
<1>10. Leads(Shows(r), Work("decode"), b, b)
  BY <1>3, <1>8, UnshownLeads
<1>11. Leads(Shows(r), Look(decoding) \o Work("decode"), a, b)
  BY <1>9, <1>10, Joined
<1> QED
  BY <1>1, <1>11 DEF Decode, decoding, a, b

\* What is before the steps, and the steps; where they turn out to be too many or too few it fails.
LEMMA SdxlShows ==
  ASSUME NEW r, AsksToDraw(r)
  PROVE  Leads(Shows(r), Sdxl(r.steps), Nothing, AllShown(r))
<1> DEFINE n == r.steps
           ok == Euler(n).ok
           b == AllShown(r)
<1>0. n \in Nat /\ r.kind = "draw" /\ n <= Larger(r.steps, 1)
  BY AllOfIs DEF AsksToDraw
<1>1. Leads(Shows(r), Walk(n), Nothing, StepsShown(n)) /\ Leads(Shows(r), Decode, StepsShown(n), b)
  BY <1>0, WalkAndDecodeShows
<1>2. WalkTail(Euler(n)) = Walk(n)
  BY <1>0 DEF WalkTail, Euler
<1>3. Leads(Shows(r), WalkTail(Euler(n)) \o Decode, Nothing, b)
  BY <1>1, <1>2, Joined
<1>4. Leads(Shows(r), Seed("device"), Nothing, Nothing) /\ Leads(Shows(r), Latent, Nothing, Nothing)
      /\ Leads(Shows(r), Look(Encoding), Nothing, Nothing)
      /\ Leads(Shows(r), Work("prompt"), Nothing, Nothing)
  BY <1>0, NothingShown DEF Latent
<1>5. Leads(Shows(r), ReadPrompts, Nothing, Nothing)
  BY <1>4, Joined DEF ReadPrompts
<1>6. Leads(Shows(r), Where(ok, WalkTail(Euler(n)) \o Decode), Nothing, b)
  <2> DEFINE rest == WalkTail(Euler(n)) \o Decode
  <2> HIDE DEF rest, ok, b
  <2> QED
    BY <1>3, FailShows DEF Where, rest
<1> HIDE DEF n, ok, b
<1>7. Leads(Shows(r), Seed("device") \o Latent \o ReadPrompts \o Where(ok, WalkTail(Euler(n)) \o Decode),
            Nothing, b)
  BY <1>4, <1>5, <1>6, Joined
<1> QED
  BY <1>7 DEF Sdxl, n, ok, b

\* SDXL from a picture: what is walked is of the tail, and counted over it.
LEMMA SdxlFromImageShows ==
  ASSUME NEW r, AsksToDraw(r)
  PROVE  Leads(Shows(r), SdxlFromImage(r.steps, r.strength), Nothing, AllShown(r))
<1> DEFINE n == IF r.strength[1] = 0 THEN 0 ELSE r.steps
           schedule == FromImage(r.steps, r.strength)
           ok == schedule.ok
           b == AllShown(r)
           rest == Latent \o WalkTail(schedule) \o Decode
<1>0. /\ n \in Nat /\ r.kind = "draw" /\ n <= Larger(r.steps, 1) /\ r.steps \in Nat
      /\ r.strength \in Nat \X (Nat \ {0}) /\ r.strength[1] <= r.strength[2]
  BY AllOfIs DEF AsksToDraw
<1>1. Leads(Shows(r), Walk(n), Nothing, StepsShown(n)) /\ Leads(Shows(r), Decode, StepsShown(n), b)
  BY <1>0, WalkAndDecodeShows
<1>2. WalkTail(schedule) = Walk(n)
  <2>1. schedule.whole - schedule.start = n
    BY <1>0, TailIsTheSteps
  <2> QED
    BY <2>1 DEF WalkTail
<1>4. Leads(Shows(r), Seed("device"), Nothing, Nothing) /\ Leads(Shows(r), Latent, Nothing, Nothing)
      /\ Leads(Shows(r), Look(Encoding), Nothing, Nothing)
      /\ Leads(Shows(r), Work("prompt"), Nothing, Nothing)
      /\ Leads(Shows(r), Work("picture"), Nothing, Nothing)
  BY <1>0, NothingShown DEF Latent
<1>5. Leads(Shows(r), ReadPrompts, Nothing, Nothing)
  BY <1>4, Joined DEF ReadPrompts
<1> HIDE DEF n, ok, b, schedule
<1>3. Leads(Shows(r), rest, Nothing, b)
  BY <1>1, <1>2, <1>4, Joined
<1> HIDE DEF rest
<1>6. Leads(Shows(r), Where(ok, rest), Nothing, b)
  BY <1>3, FailShows DEF Where
<1>7. Leads(Shows(r), ReadPrompts \o Seed("device") \o Work("picture") \o Where(ok, rest), Nothing, b)
  BY <1>4, <1>5, <1>6, Joined
<1> QED
  BY <1>7 DEF SdxlFromImage, ok, b, schedule, rest

\* Krea 2 and Anima.
LEMMA FlowShows ==
  ASSUME NEW r, AsksToDraw(r)
  PROVE  Leads(Shows(r), Krea2(r.steps), Nothing, AllShown(r))
         /\ Leads(Shows(r), Anima(r.steps), Nothing, AllShown(r))
<1> DEFINE n == r.steps
           b == AllShown(r)
           rest == Latent \o ReadPrompts \o Walk(n) \o Decode
<1>0. n \in Nat /\ r.kind = "draw" /\ n <= Larger(r.steps, 1)
  BY AllOfIs DEF AsksToDraw
<1>1. Leads(Shows(r), Walk(n), Nothing, StepsShown(n)) /\ Leads(Shows(r), Decode, StepsShown(n), b)
  BY <1>0, WalkAndDecodeShows
<1>4. Leads(Shows(r), Seed("device"), Nothing, Nothing) /\ Leads(Shows(r), Latent, Nothing, Nothing)
      /\ Leads(Shows(r), Look(Encoding), Nothing, Nothing)
      /\ Leads(Shows(r), Work("prompt"), Nothing, Nothing)
  BY <1>0, NothingShown DEF Latent
<1>5. Leads(Shows(r), ReadPrompts, Nothing, Nothing)
  BY <1>4, Joined DEF ReadPrompts
<1> HIDE DEF n, b
<1>3. Leads(Shows(r), rest, Nothing, b)
  BY <1>1, <1>4, <1>5, Joined
<1> HIDE DEF rest
<1>6. Leads(Shows(r), Where(n >= 1, rest), Nothing, b)
  BY <1>3, FailShows DEF Where
<1>7. Leads(Shows(r), Seed("device") \o Where(n >= 1, rest), Nothing, b)
  BY <1>4, <1>6, Joined
<1> QED
  BY <1>7 DEF Krea2, Anima, n, b, rest

\* A release that walks more than it was asked for is told apart.
LEMMA QwenShows ==
  ASSUME NEW r, AsksToDraw(r)
  PROVE  Leads(Shows(r), QwenImage(r.steps, r.fixed), Nothing, AllShown(r))
         /\ Leads(Shows(r), QwenWithPictures(r.steps, r.fixed, r.pictures), Nothing, AllShown(r))
<1> DEFINE n == Schedule(r.steps, r.fixed)
           b == AllShown(r)
           Seen == FlattenSeq([i \in 1..r.pictures |-> Work("picture")])
           rest == ReadPrompts \o Walk(n) \o Decode
           others == Look(Encoding) \o Seen \o Work("prompt") \o Walk(n) \o Decode
<1>0. n \in Nat /\ r.kind = "draw" /\ (n <= Larger(r.steps, 1) \/ WalksMore(r)) /\ r.pictures \in Nat
  <2>1. r.steps \in Nat /\ r.fixed \in Nat /\ r.kind = "draw" /\ r.pictures \in Nat
    BY DEF AsksToDraw
  <2> QED
    BY <2>1, AllOfIs DEF Schedule, WalksMore
<1>1. Leads(Shows(r), Walk(n), Nothing, StepsShown(n)) /\ Leads(Shows(r), Decode, StepsShown(n), b)
  BY <1>0, WalkAndDecodeShows
<1>4. Leads(Shows(r), Seed("device"), Nothing, Nothing) /\ Leads(Shows(r), Latent, Nothing, Nothing)
      /\ Leads(Shows(r), Look(Encoding), Nothing, Nothing)
      /\ Leads(Shows(r), Work("prompt"), Nothing, Nothing)
      /\ Leads(Shows(r), Work("picture"), Nothing, Nothing)
  BY <1>0, NothingShown DEF Latent
<1>5. Leads(Shows(r), ReadPrompts, Nothing, Nothing)
  BY <1>4, Joined DEF ReadPrompts
<1>8. Leads(Shows(r), Seen, Nothing, Nothing)
  BY <1>0, <1>4, AgainAndAgain
<1>9. QwenWithPictures(r.steps, r.fixed, r.pictures) = Noise \o Where(n >= 1, others)
  BY DEF QwenWithPictures, Each
<1> HIDE DEF n, b, Seen
<1>3. Leads(Shows(r), rest, Nothing, b) /\ Leads(Shows(r), others, Nothing, b)
  BY <1>1, <1>4, <1>5, <1>8, Joined
<1> HIDE DEF rest, others
<1>6. Leads(Shows(r), Where(n >= 1, rest), Nothing, b) /\ Leads(Shows(r), Where(n >= 1, others), Nothing, b)
  BY <1>3, FailShows DEF Where
<1>7. Leads(Shows(r), Noise, Nothing, Nothing)
  BY <1>4, Joined DEF Noise
<1>10. Leads(Shows(r), Noise \o Where(n >= 1, rest), Nothing, b)
       /\ Leads(Shows(r), Noise \o Where(n >= 1, others), Nothing, b)
  BY <1>6, <1>7, Joined
<1>11. QwenImage(r.steps, r.fixed) = Noise \o Where(n >= 1, rest)
  BY DEF QwenImage, n, rest
<1> QED
  BY <1>9, <1>10, <1>11 DEF b

\* The whole of a picture.
LEMMA PictureShows ==
  ASSUME NEW r, AsksToDraw(r), ~Refused(r)
  PROVE  Leads(Shows(r), Tell(Encoding) \o Picture(r), Nothing, AllShown(r))
<1>1. /\ r.kind = "draw" /\ r.from \in BOOLEAN /\ r.pictures \in Nat
      /\ r.model \in {"sdxl", "krea2", "anima", "qwen"}
  BY DEF AsksToDraw
<1>2. r.from => r.model = "sdxl"
  BY <1>1 DEF Refused
<1>3. Leads(Shows(r), Picture(r), Nothing, AllShown(r))
  BY <1>1, <1>2, SdxlShows, SdxlFromImageShows, FlowShows, QwenShows DEF Picture
<1>4. Leads(Shows(r), Tell(Encoding), Nothing, Nothing)
  BY <1>1, NothingShown
<1> QED
  BY <1>3, <1>4, Joined

-----------------------------------------------------------------------------
(* Of layers: from a bar no further than one part, to one no further than another. *)
Brings(r, s, x, y) ==
  \A a \in Part : AtMost(a, x) => \E b \in Part : AtMost(b, y) /\ Leads(Shows(r), s, a, b)

\* From a bar no further than what is shown, to that.
RaisesTo(r, s, v) == \A a \in Part : AtMost(a, v) => Leads(Shows(r), s, a, v)

\* A run that brings the bar to where another begins goes on with it.
LEMMA BringsOn ==
  ASSUME NEW r, NEW s, NEW t, NEW x, NEW y, NEW z, Brings(r, s, x, y), Brings(r, t, y, z)
  PROVE  Brings(r, s \o t, x, z)
<1> SUFFICES ASSUME NEW a \in Part, AtMost(a, x)
             PROVE  \E c \in Part : AtMost(c, z) /\ Leads(Shows(r), s \o t, a, c)
  BY DEF Brings
<1>1. PICK b \in Part : AtMost(b, y) /\ Leads(Shows(r), s, a, b)
  BY DEF Brings
<1>2. PICK c \in Part : AtMost(c, z) /\ Leads(Shows(r), t, b, c)
  BY <1>1 DEF Brings
<1> QED
  BY <1>1, <1>2, Joined

\* What may be refused brings it as far.
LEMMA WhereBrings ==
  ASSUME NEW r, NEW rest, NEW x, NEW y \in Part, Brings(r, rest, x, y), NEW ok
  PROVE  Brings(r, Where(ok, rest), x, y)
<1>1. Brings(r, Fail, x, y)
  <2>1. AtMost(y, y)
    BY AtMostSelf
  <2> QED
    BY <2>1, FailShows DEF Brings
<1> QED
  BY <1>1 DEF Where

\* What is brought so far may be counted as farther.
LEMMA BringsFarther ==
  ASSUME NEW r, NEW s, NEW x \in Part, NEW y \in Part, NEW z \in Part, Brings(r, s, x, y), AtMost(y, z)
  PROVE  Brings(r, s, x, z)
<1> SUFFICES ASSUME NEW a \in Part, AtMost(a, x)
             PROVE  \E c \in Part : AtMost(c, z) /\ Leads(Shows(r), s, a, c)
  BY DEF Brings
<1>1. PICK b \in Part : AtMost(b, y) /\ Leads(Shows(r), s, a, b)
  BY DEF Brings
<1> QED
  BY <1>1, AtMostAll

\* What is not shown brings the bar nowhere, and a look to what it shows.
LEMMA UnshownBrings ==
  ASSUME NEW r, NEW x \in Part, NEW what, NEW gen, NEW on
  PROVE  /\ Brings(r, Work(what), x, x) /\ Brings(r, Seed(gen), x, x)
         /\ Brings(r, DrawOn(gen, on), x, x) /\ Brings(r, <<>>, x, x)
<1>1. \A a \in Part : AtMost(a, a)
  BY AtMostSelf
<1>2. \A a \in Part : /\ Leads(Shows(r), Work(what), a, a) /\ Leads(Shows(r), Seed(gen), a, a)
                      /\ Leads(Shows(r), DrawOn(gen, on), a, a) /\ Leads(Shows(r), <<>>, a, a)
  BY <1>1, UnshownLeads, NothingLeads
<1> QED
  BY <1>2 DEF Brings

\* A report raises the bar to what it shows, from whatever is less.
LEMMA LookRaises ==
  ASSUME NEW r, NEW step, NEW v \in Part, v = Shown(r, step)
  PROVE  RaisesTo(r, Look(step), v)
<1> SUFFICES ASSUME NEW a \in Part, AtMost(a, v) PROVE Leads(Shows(r), Look(step), a, v)
  BY DEF RaisesTo
<1>1. AtMost(v, v)
  BY AtMostSelf
<1> QED
  BY <1>1, LookShows

\* And leaves it there.
LEMMA LookBrings ==
  ASSUME NEW r, NEW step, NEW v \in Part, v = Shown(r, step)
  PROVE  Brings(r, Look(step), v, v)
<1>1. RaisesTo(r, Look(step), v) /\ AtMost(v, v)
  BY LookRaises, AtMostSelf
<1> QED
  BY <1>1 DEF Brings, RaisesTo

\* Before and after a look there is what is not shown.
LEMMA LookThenWorkRaises ==
  ASSUME NEW r, NEW step, NEW v \in Part, v = Shown(r, step), NEW what
  PROVE  RaisesTo(r, Look(step) \o Work(what), v)
<1> SUFFICES ASSUME NEW a \in Part, AtMost(a, v) PROVE Leads(Shows(r), Look(step) \o Work(what), a, v)
  BY DEF RaisesTo
<1>1. Leads(Shows(r), Look(step), a, v)
  BY LookRaises DEF RaisesTo
<1>2. AtMost(v, v)
  BY AtMostSelf
<1>3. Leads(Shows(r), Work(what), v, v)
  BY <1>2, UnshownLeads
<1> QED
  BY <1>1, <1>3, Joined

\* A step, with or without a draw, and the report of it.
LEMMA WorkThenLookRaises ==
  ASSUME NEW r, NEW step, NEW v \in Part, v = Shown(r, step), NEW what, NEW gen, NEW on
  PROVE  /\ RaisesTo(r, Work(what) \o Look(step), v)
         /\ RaisesTo(r, Work(what) \o DrawOn(gen, on) \o Look(step), v)
<1> SUFFICES ASSUME NEW a \in Part, AtMost(a, v)
             PROVE  /\ Leads(Shows(r), Work(what) \o Look(step), a, v)
                    /\ Leads(Shows(r), Work(what) \o DrawOn(gen, on) \o Look(step), a, v)
  BY DEF RaisesTo
<1>1. Leads(Shows(r), Look(step), a, v)
  BY LookRaises DEF RaisesTo
<1>2. AtMost(a, a)
  BY AtMostSelf
<1>3. Leads(Shows(r), Work(what), a, a) /\ Leads(Shows(r), DrawOn(gen, on), a, a)
  BY <1>2, UnshownLeads
<1> QED
  BY <1>1, <1>3, Joined

\* Parts of which each raises the bar to where it is before the next.
Climbs(n, V) == \A i \in 1..n : V[i] \in Part /\ AtMost(V[i - 1], V[i])

\* Parts that raise the bar in turn bring it to where the last of them does.
LEMMA ClimbBrings ==
  ASSUME NEW r, NEW n \in Int, NEW s, s = [i \in 1..n |-> s[i]], NEW V, V[0] \in Part, Climbs(n, V),
         NEW y \in Part, AtMost(IF n >= 1 THEN V[n] ELSE V[0], y),
         \A i \in 1..n : RaisesTo(r, s[i], V[i])
  PROVE  Brings(r, FlattenSeq(s), V[0], y)
<1> SUFFICES ASSUME NEW a \in Part, AtMost(a, V[0])
             PROVE  \E b \in Part : AtMost(b, y) /\ Leads(Shows(r), FlattenSeq(s), a, b)
  BY DEF Brings
<1>1. CASE n >= 1
  <2> PICK A : A = [i \in 0..n |-> IF i = 0 THEN a ELSE V[i]]
    OBVIOUS
  <2>1. ASSUME NEW i \in 1..n PROVE Leads(Shows(r), s[i], A[i - 1], A[i])
    <3>1. i - 1 \in 0..n /\ i \in 0..n /\ i # 0 /\ (i - 1 # 0 => i - 1 \in 1..n)
      OBVIOUS
    <3>2. A[i] = V[i] /\ A[i - 1] = (IF i - 1 = 0 THEN a ELSE V[i - 1])
      BY <3>1
    <3>3. V[i] \in Part /\ AtMost(V[i - 1], V[i]) /\ RaisesTo(r, s[i], V[i])
      BY DEF Climbs
    <3>4. CASE i - 1 = 0
      <4>1. AtMost(a, V[0]) /\ AtMost(V[0], V[i])
        BY <3>3, <3>4
      <4>2. AtMost(a, V[i])
        BY <3>3, <4>1, AtMostAll
      <4>3. A[i - 1] = a
        BY <3>2, <3>4
      <4> QED
        BY <3>2, <3>3, <4>2, <4>3 DEF RaisesTo
    <3>5. CASE i - 1 # 0
      <4>1. A[i - 1] = V[i - 1] /\ i - 1 \in 1..n
        BY <3>1, <3>2, <3>5
      <4>2. A[i - 1] \in Part
        BY <4>1 DEF Climbs
      <4> QED
        BY <3>2, <3>3, <4>1, <4>2 DEF RaisesTo
    <3> QED
      BY <3>4, <3>5
  <2>2. A[0] = a /\ A[n] = V[n] /\ V[n] \in Part /\ n \in Nat
    BY <1>1 DEF Climbs
  <2>3. Leads(Shows(r), FlattenSeq(s), A[0], A[n])
    BY <2>1, <2>2, PartsLead
  <2> QED
    BY <1>1, <2>2, <2>3
<1>2. CASE ~(n >= 1)
  <2>1. \A i \in 1..n : Leads(Shows(r), s[i], a, a)
    BY <1>2
  <2>2. Leads(Shows(r), FlattenSeq(s), a, a)
    BY <2>1, AgainAndAgain
  <2>3. AtMost(a, y)
    BY <1>2, AtMostAll
  <2> QED
    BY <2>2, <2>3
<1> QED
  BY <1>1, <1>2

\* How far along the whole of it so much is.
AllLayers(r) == 2 * AllOf(r.steps) + AllOf(r.dsteps) + 1
Level(r, v)  == <<v, AllLayers(r)>>

\* The levels of the layers, in units of a step, are in their order.
LEMMA LevelsGrow ==
  ASSUME NEW r, AsksForLayers(r), NEW u \in Nat, NEW v \in Nat, u <= v
  PROVE  /\ AllLayers(r) \in Nat \ {0}
         /\ Level(r, u) \in Part /\ Level(r, v) \in Part /\ AtMost(Level(r, u), Level(r, v))
<1>1. r.steps \in Nat /\ r.dsteps \in Nat
  BY DEF AsksForLayers
<1>2. AllOf(r.steps) \in Nat \ {0} /\ AllOf(r.dsteps) \in Nat \ {0}
  BY <1>1, AllOfIs
<1>3. AllLayers(r) \in Nat \ {0}
  BY <1>2 DEF AllLayers
<1> QED
  BY <1>3, MoreOfSame DEF Level

\* The share done of a part is between where it begins and where it ends.
LEMMA ShareIsWithin ==
  ASSUME NEW base \in Nat, NEW w \in Nat, NEW n \in Nat \ {0}, NEW k \in 0..n, NEW d \in Nat \ {0},
         NEW x, x = base * n + w * k
  PROVE  /\ <<x, n * d>> \in Part /\ <<base, d>> \in Part /\ <<base + w, d>> \in Part
         /\ AtMost(<<base, d>>, <<x, n * d>>) /\ AtMost(<<x, n * d>>, <<base + w, d>>)
<1>1. /\ base * n \in Nat /\ w * k \in Nat /\ w * n \in Nat /\ n * d \in Nat \ {0} /\ x \in Nat
      /\ base * n * d \in Nat
  OBVIOUS
<1>2. w * k <= w * n
  <2>1. k * w <= n * w
    BY MulLe
  <2> QED
    BY <2>1
<1>3. w * k * d <= w * n * d /\ 0 <= w * k * d
  BY <1>1, <1>2, MulLe
<1>4. base * (n * d) = base * n * d /\ x * d = base * n * d + w * k * d
  BY <1>1
<1>5. (base + w) * (n * d) = base * n * d + w * n * d
  OBVIOUS
<1>6. base * (n * d) <= x * d /\ x * d <= (base + w) * (n * d)
  BY <1>1, <1>3, <1>4, <1>5
<1>7. /\ <<x, n * d>>[1] = x /\ <<x, n * d>>[2] = n * d /\ <<base, d>>[1] = base /\ <<base, d>>[2] = d
      /\ <<base + w, d>>[1] = base + w /\ <<base + w, d>>[2] = d
  OBVIOUS
<1>8. AtMost(<<base, d>>, <<x, n * d>>) /\ AtMost(<<x, n * d>>, <<base + w, d>>)
  BY <1>6, <1>7 DEF AtMost
<1> QED
  BY <1>1, <1>8 DEF Part

\* A part whose looks tell the share of it done before each piece of work.
SharesOf(r, n, looks, base, w) ==
  \A f \in 1..n : Shown(r, looks[f]) = <<base * n + w * (f - 1), n * AllLayers(r)>>

\* Looks before each of some parts, over a weight that is shared between them.
LEMMA SharesBring ==
  ASSUME NEW r, AsksForLayers(r), NEW n \in Int, NEW looks, NEW base \in Nat, NEW w \in Nat, NEW what,
         SharesOf(r, n, looks, base, w), NEW s, s = [f \in 1..n |-> Look(looks[f]) \o Work(what)]
  PROVE  Brings(r, FlattenSeq(s), Level(r, base), Level(r, base + w))
<1> DEFINE d == AllLayers(r)
           At0 == <<base, d>>
           Of(f) == <<base * n + w * (f - 1), n * d>>
<1> PICK V : V = [f \in {0} \cup 1..n |-> IF f = 0 THEN At0 ELSE Of(f)]
  OBVIOUS
<1>0. d \in Nat \ {0} /\ Level(r, base) \in Part /\ Level(r, base + w) \in Part
      /\ AtMost(Level(r, base), Level(r, base + w))
  <2>1. base <= base + w /\ base + w \in Nat
    OBVIOUS
  <2> QED
    BY <2>1, LevelsGrow
<1>1. Level(r, base) = At0 /\ Level(r, base + w) = <<base + w, d>>
  BY DEF Level
<1>2. V[0] = At0 /\ \A f \in 1..n : V[f] = Of(f)
  OBVIOUS
<1> HIDE DEF d
<1>3. ASSUME NEW f \in 1..n
      PROVE /\ Of(f) \in Part /\ AtMost(At0, Of(f)) /\ AtMost(Of(f), <<base + w, d>>)
            /\ f # 1 => AtMost(Of(f - 1), Of(f))
  <2>1. n \in Nat \ {0} /\ f - 1 \in 0..n
    OBVIOUS
  <2> DEFINE x == base * n + w * (f - 1)
             y == base * n + w * ((f - 1) - 1)
  <2>2. /\ <<x, n * d>> \in Part /\ AtMost(At0, <<x, n * d>>) /\ AtMost(<<x, n * d>>, <<base + w, d>>)
    BY <1>0, <2>1, ShareIsWithin
  <2>3. f # 1 => AtMost(<<y, n * d>>, <<x, n * d>>)
    <3> SUFFICES ASSUME f # 1 PROVE AtMost(<<y, n * d>>, <<x, n * d>>)
      OBVIOUS
    <3>1. base * n \in Nat /\ w * (f - 1) = w * ((f - 1) - 1) + w /\ w * ((f - 1) - 1) \in Nat
      <4>1. (f - 1) - 1 \in Nat
        OBVIOUS
      <4> QED
        BY <2>1, <4>1
    <3>2. x \in Nat /\ y \in Nat /\ y <= x
      <4> DEFINE c == base * n
                 p == w * ((f - 1) - 1)
                 q == w * (f - 1)
      <4>1. c \in Nat /\ p \in Nat /\ q = p + w
        BY <3>1
      <4>2. x = c + q /\ y = c + p
        OBVIOUS
      <4> HIDE DEF c, p, q, x, y
      <4> QED
        BY <4>1, <4>2
    <3>3. n * d \in Nat \ {0}
      BY <1>0, <2>1
    <3> HIDE DEF x, y
    <3> QED
      BY <3>2, <3>3, MoreOfSame
  <2> QED
    BY <2>2, <2>3
<1> HIDE DEF Of
<1>4. Climbs(n, V)
  <2> SUFFICES ASSUME NEW f \in 1..n PROVE V[f] \in Part /\ AtMost(V[f - 1], V[f])
    BY DEF Climbs
  <2>1. V[f] = Of(f) /\ (f = 1 => V[f - 1] = At0) /\ (f # 1 => V[f - 1] = Of(f - 1))
    <3>1. f - 1 = 0 \/ f - 1 \in 1..n
      OBVIOUS
    <3>2. f # 1 => f - 1 \in 1..n
      OBVIOUS
    <3> QED
      BY <1>2, <3>1, <3>2
  <2> QED
    BY <1>3, <2>1
<1>5. \A f \in 1..n : RaisesTo(r, s[f], V[f])
  <2> SUFFICES ASSUME NEW f \in 1..n PROVE RaisesTo(r, s[f], V[f])
    OBVIOUS
  <2>1. s[f] = Look(looks[f]) \o Work(what)
    OBVIOUS
  <2>2. V[f] = Of(f) /\ Of(f) \in Part /\ Of(f) = Shown(r, looks[f])
    BY <1>2, <1>3 DEF SharesOf, Of, d
  <2> QED
    BY <2>1, <2>2, LookThenWorkRaises
<1>6. AtMost(IF n >= 1 THEN V[n] ELSE V[0], <<base + w, d>>)
  <2>1. CASE n >= 1
    <3>1. n \in 1..n
      BY <2>1
    <3> QED
      BY <1>2, <1>3, <2>1, <3>1
  <2>2. CASE ~(n >= 1)
    BY <1>0, <1>1, <1>2, <2>2
  <2> QED
    BY <2>1, <2>2
<1>7. s = [f \in 1..n |-> s[f]] /\ V[0] \in Part /\ <<base + w, d>> \in Part
  BY <1>0, <1>1, <1>2
<1> HIDE DEF At0
<1>8. Brings(r, FlattenSeq(s), V[0], <<base + w, d>>)
  BY <1>4, <1>5, <1>6, <1>7, ClimbBrings
<1> QED
  BY <1>1, <1>2, <1>8

\* A walk, whatever else each of its steps does.
StepsOf(r, n, looks, base) == \A k \in 1..n : Shown(r, looks[k]) = Level(r, base + 1 + k)
StepRuns(s, n, looks, ons) ==
  /\ s = [k \in 1..n |-> s[k]]
  /\ \A k \in 1..n : \/ s[k] = Work("step") \o Look(looks[k])
                     \/ s[k] = Work("step") \o DrawOn("device", ons[k]) \o Look(looks[k])

\* The steps of a pass, or of the depth, one unit each.
LEMMA StepsBring ==
  ASSUME NEW r, AsksForLayers(r), NEW n \in Nat, NEW looks, NEW base \in Nat, NEW end \in Nat,
         base + 1 + n <= end, StepsOf(r, n, looks, base), NEW s, NEW ons,
         StepRuns(s, n, looks, ons)
  PROVE  Brings(r, FlattenSeq(s), Level(r, base + 1), Level(r, end))
<1> PICK V : V = [k \in 0..n |-> Level(r, base + 1 + k)]
  OBVIOUS
<1>0. base + 1 \in Nat /\ base + 1 <= end
  OBVIOUS
<1>1. V[0] = Level(r, base + 1) /\ V[n] = Level(r, base + 1 + n)
  <2>1. 0 \in 0..n /\ n \in 0..n /\ base + 1 + 0 = base + 1
    OBVIOUS
  <2> QED
    BY <2>1
<1>2. \A k \in 1..n : V[k] \in Part /\ AtMost(V[k - 1], V[k]) /\ V[k] = Shown(r, looks[k])
  <2> SUFFICES ASSUME NEW k \in 1..n
               PROVE  V[k] \in Part /\ AtMost(V[k - 1], V[k]) /\ V[k] = Shown(r, looks[k])
    OBVIOUS
  <2> DEFINE u == base + 1 + (k - 1)
             v == base + 1 + k
  <2>1. u \in Nat /\ v \in Nat /\ u <= v
    OBVIOUS
  <2>2. V[k - 1] = Level(r, u) /\ V[k] = Level(r, v) /\ Shown(r, looks[k]) = Level(r, v)
    BY DEF StepsOf
  <2> HIDE DEF u, v
  <2> QED
    BY <2>1, <2>2, LevelsGrow
<1>3. Climbs(n, V)
  BY <1>2 DEF Climbs
<1>4. \A k \in 1..n : RaisesTo(r, s[k], V[k])
  <2> SUFFICES ASSUME NEW k \in 1..n PROVE RaisesTo(r, s[k], V[k])
    OBVIOUS
  <2>1. /\ RaisesTo(r, Work("step") \o Look(looks[k]), V[k])
        /\ RaisesTo(r, Work("step") \o DrawOn("device", ons[k]) \o Look(looks[k]), V[k])
    BY <1>2, WorkThenLookRaises
  <2>2. \/ s[k] = Work("step") \o Look(looks[k])
        \/ s[k] = Work("step") \o DrawOn("device", ons[k]) \o Look(looks[k])
    BY DEF StepRuns
  <2> QED
    BY <2>1, <2>2, Zenon
<1>5. /\ Level(r, base + 1) \in Part /\ Level(r, end) \in Part
      /\ AtMost(Level(r, base + 1), Level(r, end)) /\ AtMost(Level(r, base + 1 + n), Level(r, end))
  <2>1. base + 1 + n \in Nat
    OBVIOUS
  <2> QED
    BY <1>0, <2>1, LevelsGrow
<1>6. AtMost(IF n >= 1 THEN V[n] ELSE V[0], Level(r, end))
  BY <1>1, <1>5
<1>7. V[0] \in Part /\ s = [k \in 1..n |-> s[k]]
  BY <1>1, <1>5 DEF StepRuns
<1>8. n \in Int
  OBVIOUS
<1>9. Brings(r, FlattenSeq(s), V[0], Level(r, end))
  BY <1>3, <1>4, <1>5, <1>6, <1>7, <1>8, ClimbBrings
<1> QED
  BY <1>1, <1>9

\* What each report of the layers is so far along.
LEMMA LayeredIs ==
  ASSUME NEW r, AsksForLayers(r), NEW pass, NEW k, NEW n
  PROVE  /\ Shown(r, [at |-> "Encoding", pass |-> pass]) = Level(r, pass * AllOf(r.steps))
         /\ Shown(r, [at |-> "Layers", pass |-> pass, done |-> k, total |-> n])
              = Level(r, pass * AllOf(r.steps) + 1 + k)
         /\ Shown(r, [at |-> "Depth", done |-> k, total |-> n]) = Level(r, 2 * AllOf(r.steps) + 1 + k)
         /\ Shown(r, [at |-> "Assembling"]) = Level(r, 2 * AllOf(r.steps) + AllOf(r.dsteps))
<1>1. r.kind = "layers"
  BY DEF AsksForLayers
<1> QED
  BY <1>1 DEF Shown, Layered, Level, AllLayers, EncodingWeight

\* What the bar shows of a part that has such a share of a weight.
LEMMA LayeredShares ==
  ASSUME NEW r, AsksForLayers(r), NEW pass, NEW k, NEW n \in Nat \ {0}
  PROVE  /\ Shown(r, [at |-> "Decoding", pass |-> pass, done |-> k, total |-> n])
              = <<(pass * AllOf(r.steps) + 1 + Larger(r.steps, 1)) * n + 3 * k, n * AllLayers(r)>>
         /\ Shown(r, [at |-> "DepthEncoding", done |-> k, total |-> n])
              = <<(2 * AllOf(r.steps)) * n + 1 * k, n * AllLayers(r)>>
         /\ Shown(r, [at |-> "DepthDecoding", done |-> k, total |-> n])
              = <<(2 * AllOf(r.steps) + 1 + Larger(r.dsteps, 1)) * n + 3 * k, n * AllLayers(r)>>
<1>1. r.kind = "layers" /\ Larger(n, 1) = n
  BY DEF AsksForLayers, Larger
<1> DEFINE m == Larger(r.steps, 1)
           q == Larger(r.dsteps, 1)
           d == [at |-> "Decoding", pass |-> pass, done |-> k, total |-> n]
           e == [at |-> "DepthEncoding", done |-> k, total |-> n]
           g == [at |-> "DepthDecoding", done |-> k, total |-> n]
<1>2. /\ d.at = "Decoding" /\ d.pass = pass /\ d.done = k /\ d.total = n
      /\ e.at = "DepthEncoding" /\ e.done = k /\ e.total = n
      /\ g.at = "DepthDecoding" /\ g.done = k /\ g.total = n
  OBVIOUS
<1> HIDE DEF m, q, d, e, g
<1> QED
  BY <1>1, <1>2 DEF Shown, Layered, AllLayers, EncodingWeight, DecodingWeight, m, q, d, e, g

\* A pass is its share of the whole.
LEMMA PassShows ==
  ASSUME NEW r, AsksForLayers(r), NEW pass \in Nat, NEW next, next = pass + 1
  PROVE  Brings(r, Pass(pass, r.steps, r.frames), Level(r, pass * AllOf(r.steps)),
                Level(r, next * AllOf(r.steps)))
<1> DEFINE n == r.steps
           o == r.frames
           m == Larger(n, 1)
           base == pass * AllOf(n)
           last == next * AllOf(n)
           mid == base + 1 + m
           look == [at |-> "Encoding", pass |-> pass]
           on == <<"initial", pass>>
           ons == [k \in 1..n |-> <<"fresh", pass, k>>]
           looks == [k \in 1..n |-> [at |-> "Layers", pass |-> pass, done |-> k, total |-> n]]
           tells == [f \in 1..o |-> [at |-> "Decoding", pass |-> pass, done |-> f - 1, total |-> o]]
           s == LayersOf(n, pass)
           t == [f \in 1..o |-> Look(tells[f]) \o Work("layer")]
<1>0. n \in Nat /\ o \in Nat /\ m \in Nat \ {0} /\ n <= m /\ AllOf(n) = 4 + m /\ AllOf(n) \in Nat
  <2>1. n \in Nat /\ o \in Nat
    BY DEF AsksForLayers
  <2> QED
    BY <2>1, AllOfIs
<1>1. Pass(pass, n, o)
        = Look(look) \o Work("picture")
            \o Where(n \in 1..(Trained - 1), DrawOn("device", on) \o FlattenSeq(s) \o FlattenSeq(t))
  BY DEF Pass, Each, LayersOf
<1>2. base \in Nat /\ last = mid + 3 /\ mid \in Nat
  <2>1. next * AllOf(n) = pass * AllOf(n) + AllOf(n)
    BY <1>0
  <2>2. pass * AllOf(n) \in Nat
    BY <1>0
  <2> QED
    BY <1>0, <2>1, <2>2
<1>3. Shown(r, look) = Level(r, base) /\ StepsOf(r, n, looks, base)
  <2>1. \A k \in 1..n : Shown(r, looks[k]) = Level(r, base + 1 + k)
    BY LayeredIs
  <2> QED
    BY <2>1, LayeredIs DEF StepsOf
<1>4. SharesOf(r, o, tells, mid, 3)
  <2> SUFFICES ASSUME NEW f \in 1..o
               PROVE  Shown(r, tells[f]) = <<mid * o + 3 * (f - 1), o * AllLayers(r)>>
    BY DEF SharesOf
  <2>1. o \in Nat \ {0}
    BY <1>0
  <2>2. tells[f] = [at |-> "Decoding", pass |-> pass, done |-> f - 1, total |-> o]
    OBVIOUS
  <2> DEFINE v == f - 1
  <2> HIDE DEF v, o
  <2>3. Shown(r, [at |-> "Decoding", pass |-> pass, done |-> v, total |-> o])
          = <<mid * o + 3 * v, o * AllLayers(r)>>
    BY <2>1, LayeredShares
  <2> QED
    BY <2>2, <2>3 DEF v
<1>5. /\ s = [k \in 1..n |-> s[k]] /\ t = [f \in 1..o |-> Look(tells[f]) \o Work("layer")]
      /\ \A k \in 1..n : s[k] = Work("step") \o DrawOn("device", ons[k]) \o Look(looks[k])
  BY DEF LayersOf
<1> HIDE DEF n, o, m, base, last, mid, look, on, ons, looks, tells, s, t
<1>6. Level(r, base) \in Part /\ Level(r, base + 1) \in Part
      /\ AtMost(Level(r, base), Level(r, base + 1))
  <2>1. base + 1 \in Nat /\ base <= base + 1
    BY <1>2
  <2> QED
    BY <1>2, <2>1, LevelsGrow
<1>7. Brings(r, Look(look), Level(r, base), Level(r, base))
  BY <1>3, <1>6, LookBrings
<1>8. /\ Brings(r, Work("picture"), Level(r, base), Level(r, base))
      /\ Brings(r, DrawOn("device", on), Level(r, base), Level(r, base))
  BY <1>6, UnshownBrings
<1>9. Brings(r, DrawOn("device", on), Level(r, base), Level(r, base + 1))
  BY <1>6, <1>8, BringsFarther
<1>10. Brings(r, FlattenSeq(s), Level(r, base + 1), Level(r, mid))
  <2>1. base + 1 + n <= mid
    BY <1>0, <1>2 DEF mid
  <2>2. StepRuns(s, n, looks, ons)
    BY <1>5 DEF StepRuns
  <2> QED
    BY <1>0, <1>2, <1>3, <2>1, <2>2, StepsBring
<1>11. Brings(r, FlattenSeq(t), Level(r, mid), Level(r, last))
  <2>1. o \in Int /\ 3 \in Nat
    BY <1>0
  <2>2. Brings(r, FlattenSeq(t), Level(r, mid), Level(r, mid + 3))
    BY <1>2, <1>4, <1>5, <2>1, SharesBring
  <2> QED
    BY <1>2, <2>2
<1>12. Brings(r, DrawOn("device", on) \o FlattenSeq(s) \o FlattenSeq(t), Level(r, base), Level(r, last))
  BY <1>9, <1>10, <1>11, BringsOn
<1>13. Level(r, last) \in Part
  <2>1. last \in Nat
    BY <1>2
  <2> QED
    BY <2>1, LevelsGrow
<1>14. Brings(r, Where(n \in 1..(Trained - 1), DrawOn("device", on) \o FlattenSeq(s) \o FlattenSeq(t)),
              Level(r, base), Level(r, last))
  BY <1>12, <1>13, WhereBrings
<1>15. Brings(r, Pass(pass, n, o), Level(r, base), Level(r, last))
  BY <1>1, <1>7, <1>8, <1>14, BringsOn
<1> QED
  BY <1>15 DEF n, o, base, last

\* The depth: encoded slot by slot, walked, and decoded.
LEMMA DepthShows ==
  ASSUME NEW r, AsksForLayers(r), NEW from, from = 2 * AllOf(r.steps), NEW last,
         last = from + AllOf(r.dsteps)
  PROVE  Brings(r, Depth(r.dsteps, r.slots), Level(r, from), Level(r, last))
<1> DEFINE n == r.dsteps
           q == r.slots
           o == q - 1
           m == Larger(n, 1)
           mid == from + 1 + m
           on == <<"depth">>
           ons == [k \in 1..n |-> <<>>]
           looks == [k \in 1..n |-> [at |-> "Depth", done |-> k, total |-> n]]
           encodes == [i \in 1..q |-> [at |-> "DepthEncoding", done |-> i - 1, total |-> q]]
           decodes == [i \in 1..o |-> [at |-> "DepthDecoding", done |-> i - 1, total |-> o]]
           s == [i \in 1..q |-> Look(encodes[i]) \o Work("slot")]
           t == [k \in 1..n |-> Work("step") \o Look(looks[k])]
           v == [i \in 1..o |-> Look(decodes[i]) \o Work("slot")]
<1>0. /\ n \in Nat /\ q \in Int /\ o \in Int /\ m \in Nat \ {0} /\ n <= m /\ AllOf(n) = 4 + m
      /\ from \in Nat /\ mid \in Nat /\ last = mid + 3
  <2>1. n \in Nat /\ q \in Nat /\ r.steps \in Nat
    BY DEF AsksForLayers
  <2>2. m \in Nat \ {0} /\ n <= m /\ AllOf(n) = 4 + m /\ AllOf(r.steps) \in Nat
    BY <2>1, AllOfIs
  <2> QED
    BY <2>1, <2>2
<1>1. Depth(n, q) = FlattenSeq(s)
                      \o Where(n \in 1..Trained, DrawOn("device", on) \o FlattenSeq(t) \o FlattenSeq(v))
  BY DEF Depth, Each
<1>2. SharesOf(r, q, encodes, from, 1)
  <2> SUFFICES ASSUME NEW f \in 1..q
               PROVE  Shown(r, encodes[f]) = <<from * q + 1 * (f - 1), q * AllLayers(r)>>
    BY DEF SharesOf
  <2>1. q \in Nat \ {0}
    BY <1>0
  <2>2. encodes[f] = [at |-> "DepthEncoding", done |-> f - 1, total |-> q]
    OBVIOUS
  <2> DEFINE k == f - 1
  <2> HIDE DEF k, q
  <2>3. Shown(r, [at |-> "DepthEncoding", done |-> k, total |-> q])
          = <<from * q + 1 * k, q * AllLayers(r)>>
    BY <2>1, LayeredShares
  <2> QED
    BY <2>2, <2>3 DEF k
<1>3. SharesOf(r, o, decodes, mid, 3)
  <2> SUFFICES ASSUME NEW f \in 1..o
               PROVE  Shown(r, decodes[f]) = <<mid * o + 3 * (f - 1), o * AllLayers(r)>>
    BY DEF SharesOf
  <2>1. o \in Nat \ {0}
    BY <1>0
  <2>2. decodes[f] = [at |-> "DepthDecoding", done |-> f - 1, total |-> o]
    OBVIOUS
  <2> DEFINE k == f - 1
  <2> HIDE DEF k, o
  <2>3. Shown(r, [at |-> "DepthDecoding", done |-> k, total |-> o])
          = <<mid * o + 3 * k, o * AllLayers(r)>>
    BY <2>1, LayeredShares
  <2> QED
    BY <2>2, <2>3 DEF k
<1>4. StepsOf(r, n, looks, from)
  <2>1. \A k \in 1..n : Shown(r, looks[k]) = Level(r, from + 1 + k)
    BY LayeredIs
  <2> QED
    BY <2>1 DEF StepsOf
<1>5. /\ s = [i \in 1..q |-> Look(encodes[i]) \o Work("slot")] /\ StepRuns(t, n, looks, ons)
      /\ v = [i \in 1..o |-> Look(decodes[i]) \o Work("slot")]
  BY DEF StepRuns
<1> HIDE DEF n, q, o, m, mid, on, ons, looks, encodes, decodes, s, t, v
<1>6. Brings(r, FlattenSeq(s), Level(r, from), Level(r, from + 1))
  BY <1>0, <1>2, <1>5, SharesBring
<1>7. Brings(r, DrawOn("device", on), Level(r, from + 1), Level(r, from + 1))
  <2>1. from + 1 \in Nat
    BY <1>0
  <2>2. Level(r, from + 1) \in Part
    BY <2>1, LevelsGrow
  <2> QED
    BY <2>2, UnshownBrings
<1>8. Brings(r, FlattenSeq(t), Level(r, from + 1), Level(r, mid))
  <2>1. from + 1 + n <= mid
    BY <1>0 DEF mid
  <2> QED
    BY <1>0, <1>4, <1>5, <2>1, StepsBring
<1>9. Brings(r, FlattenSeq(v), Level(r, mid), Level(r, last))
  <2>1. Brings(r, FlattenSeq(v), Level(r, mid), Level(r, mid + 3))
    BY <1>0, <1>3, <1>5, SharesBring
  <2> QED
    BY <1>0, <2>1
<1>10. Brings(r, DrawOn("device", on) \o FlattenSeq(t) \o FlattenSeq(v), Level(r, from + 1), Level(r, last))
  BY <1>7, <1>8, <1>9, BringsOn
<1>11. Level(r, last) \in Part
  <2>1. last \in Nat
    BY <1>0
  <2> QED
    BY <2>1, LevelsGrow
<1>12. Brings(r, Where(n \in 1..Trained, DrawOn("device", on) \o FlattenSeq(t) \o FlattenSeq(v)),
              Level(r, from + 1), Level(r, last))
  BY <1>10, <1>11, WhereBrings
<1>13. Brings(r, Depth(n, q), Level(r, from), Level(r, last))
  BY <1>1, <1>6, <1>12, BringsOn
<1> QED
  BY <1>13 DEF n, q

\* The whole of them.
LEMMA DecomposeShows ==
  ASSUME NEW r, AsksForLayers(r)
  PROVE  \E b \in Part : Leads(Shows(r), Decompose(r), Nothing, b)
<1> DEFINE p == AllOf(r.steps)
           two == 2 * p
           last == two + AllOf(r.dsteps)
           body == Pass(0, r.steps, r.frames)
           head == Pass(1, r.steps, r.frames)
           maybe == IF r.head THEN head ELSE <<>>
           depth == Depth(r.dsteps, r.slots)
           look == [at |-> "Assembling"]
<1>0. p \in Nat /\ two \in Nat /\ last \in Nat /\ 0 * p = 0 /\ 1 * p = p /\ p <= two /\ r.head \in BOOLEAN
  <2>1. r.steps \in Nat /\ r.dsteps \in Nat /\ r.head \in BOOLEAN
    BY DEF AsksForLayers
  <2> QED
    BY <2>1, AllOfIs
<1>1. Shown(r, look) = Level(r, last)
  BY LayeredIs
<1>2. Brings(r, body, Level(r, 0), Level(r, p))
  <2>1. Brings(r, body, Level(r, 0 * p), Level(r, 1 * p))
    BY PassShows
  <2> QED
    BY <1>0, <2>1
<1>3. Brings(r, head, Level(r, p), Level(r, two))
  <2>1. Brings(r, head, Level(r, 1 * p), Level(r, 2 * p))
    BY PassShows
  <2> QED
    BY <1>0, <2>1
<1>4. Brings(r, depth, Level(r, two), Level(r, last))
  BY DepthShows
<1> DEFINE all == body \o maybe \o depth \o Look(look) \o Work("assemble")
<1>5. Decompose(r) = Where(r.given # "empty", Seed("device") \o Where(r.given # "odd", all))
  BY DEF Decompose
<1> HIDE DEF p, two, last, body, head, depth, look
<1>6. /\ Level(r, 0) \in Part /\ Level(r, p) \in Part /\ Level(r, two) \in Part
      /\ Level(r, last) \in Part /\ AtMost(Level(r, p), Level(r, two))
  BY <1>0, LevelsGrow
<1>7. Brings(r, maybe, Level(r, p), Level(r, two))
  <2>1. Brings(r, <<>>, Level(r, p), Level(r, p))
    BY <1>6, UnshownBrings
  <2>2. Brings(r, <<>>, Level(r, p), Level(r, two))
    BY <1>6, <2>1, BringsFarther
  <2> QED
    BY <1>0, <1>3, <2>2
<1> HIDE DEF maybe
<1>8. /\ Brings(r, Seed("device"), Level(r, 0), Level(r, 0))
      /\ Brings(r, Work("assemble"), Level(r, last), Level(r, last))
  BY <1>6, UnshownBrings
<1>9. Brings(r, Look(look), Level(r, last), Level(r, last))
  BY <1>1, <1>6, LookBrings
<1>10. Brings(r, Decompose(r), Level(r, 0), Level(r, last))
  <2>1. Brings(r, all, Level(r, 0), Level(r, last))
    BY <1>2, <1>4, <1>7, <1>8, <1>9, BringsOn
  <2> HIDE DEF all
  <2>2. Brings(r, Where(r.given # "odd", all), Level(r, 0), Level(r, last))
    BY <1>6, <2>1, WhereBrings
  <2>3. Brings(r, Seed("device") \o Where(r.given # "odd", all), Level(r, 0), Level(r, last))
    BY <1>8, <2>2, BringsOn
  <2> QED
    BY <1>5, <1>6, <2>3, WhereBrings
<1>11. Nothing \in Part /\ AtMost(Nothing, Level(r, 0))
  BY <1>6, NothingLess
<1> QED
  BY <1>10, <1>11 DEF Brings

-----------------------------------------------------------------------------
(* What the bar counts of a reading: the tokens said, and whether the vocoder has begun. *)

\* What is not reported says nothing.
LEMMA UnsaidLeads ==
  ASSUME NEW r, NEW a, NEW x, NEW y
  PROVE  /\ Leads(SaysOf(r), Work(x), a, a) /\ Leads(SaysOf(r), Seed(x), a, a)
         /\ Leads(SaysOf(r), DrawOn(x, y), a, a) /\ Leads(SaysOf(r), Hand, a, a)
<1> DEFINE work == [do |-> "work", what |-> x]
           seed == [do |-> "seed", gen |-> x]
           draw == [do |-> "draw", gen |-> x, on |-> y]
           hand == [do |-> "hand"]
<1>1. ~Reports(work) /\ ~Reports(seed) /\ ~Reports(draw) /\ ~Reports(hand)
  BY DEF Reports
<1> HIDE DEF work, seed, draw, hand
<1>2. SaidTakes(r, work, a, a) /\ SaidTakes(r, seed, a, a) /\ SaidTakes(r, draw, a, a)
      /\ SaidTakes(r, hand, a, a)
  BY <1>1 DEF SaidTakes
<1>3. Takes(SaysOf(r), work, a, a) /\ Takes(SaysOf(r), seed, a, a) /\ Takes(SaysOf(r), draw, a, a)
      /\ Takes(SaysOf(r), hand, a, a)
  BY <1>2 DEF Takes, SaysOf
<1>4. /\ Leads(SaysOf(r), <<work>>, a, a) /\ Leads(SaysOf(r), <<seed>>, a, a)
      /\ Leads(SaysOf(r), <<draw>>, a, a) /\ Leads(SaysOf(r), <<hand>>, a, a)
  BY <1>3, OneLeads
<1> QED
  BY <1>4 DEF Work, Seed, DrawOn, Hand, work, seed, draw, hand

\* A run that fails is never over, and leads to anywhere.
LEMMA FailSays ==
  ASSUME NEW r, NEW a, NEW b
  PROVE  Leads(SaysOf(r), Fail, a, b)
<1>1. SaidTakes(r, [do |-> "fail"], a, b)
  BY DEF SaidTakes
<1>2. Takes(SaysOf(r), [do |-> "fail"], a, b)
  BY <1>1 DEF Takes, SaysOf
<1> QED
  BY <1>2, OneLeads DEF Fail

\* A report of it, where it takes the count on.
LEMMA LookSays ==
  ASSUME NEW r, NEW a, NEW b, NEW step,
         SaidTakes(r, [do |-> "look", step |-> step], a, b), SaidTakes(r, [do |-> "tell", step |-> step], a, b)
  PROVE  Leads(SaysOf(r), Look(step), a, b) /\ Leads(SaysOf(r), Tell(step), a, b)
<1> DEFINE look == [do |-> "look", step |-> step]
           tell == [do |-> "tell", step |-> step]
<1>1. Takes(SaysOf(r), look, a, b) /\ Takes(SaysOf(r), tell, a, b)
  BY DEF Takes, SaysOf
<1> HIDE DEF look, tell
<1>2. Leads(SaysOf(r), <<look>>, a, b) /\ Leads(SaysOf(r), <<tell>>, a, b)
  BY <1>1, OneLeads
<1> QED
  BY <1>2 DEF Look, Tell, look, tell

Unsaid == <<0, FALSE>>

\* A reading begins with nothing said.
LEMMA ReadingSays ==
  ASSUME NEW r
  PROVE  Leads(SaysOf(r), Look(Reading), Unsaid, Unsaid) /\ Leads(SaysOf(r), Tell(Reading), Unsaid, Unsaid)
<1> DEFINE look == [do |-> "look", step |-> Reading]
           tell == [do |-> "tell", step |-> Reading]
<1>1. Reports(look) /\ Reports(tell) /\ look.step = Reading /\ tell.step = Reading
  BY DEF Reports
<1> HIDE DEF look, tell
<1>2. SaidTakes(r, look, Unsaid, Unsaid) /\ SaidTakes(r, tell, Unsaid, Unsaid)
  BY <1>1 DEF SaidTakes, Unsaid
<1> QED
  BY <1>2, LookSays DEF look, tell

\* A piece that is sounded, once or again.
LEMMA SoundingSays ==
  ASSUME NEW r, NEW n, NEW f
  PROVE  Leads(SaysOf(r), Look(Sounding), <<n, f>>, <<n, TRUE>>)
<1> DEFINE look == [do |-> "look", step |-> Sounding]
           tell == [do |-> "tell", step |-> Sounding]
           a == <<n, f>>
           b == <<n, TRUE>>
<1>1. /\ Reports(look) /\ Reports(tell) /\ look.step = Sounding /\ tell.step = Sounding
      /\ b = <<a[1], TRUE>>
  BY DEF Reports
<1> HIDE DEF look, tell, a, b
<1>2. SaidTakes(r, look, a, b) /\ SaidTakes(r, tell, a, b)
  BY <1>1 DEF SaidTakes
<1> QED
  BY <1>2, LookSays DEF look, tell, a, b

\* One more token.
LEMMA SayingSays ==
  ASSUME NEW r, NEW n \in Nat, NEW m, m = n + 1, NEW f, r.streaming \/ ~f, NEW e,
         e = Larger(Expected(r), m)
  PROVE  Leads(SaysOf(r), Look([at |-> "Saying", done |-> m, expected |-> e]), <<n, f>>, <<m, f>>)
<1> DEFINE step == [at |-> "Saying", done |-> m, expected |-> e]
           look == [do |-> "look", step |-> step]
           tell == [do |-> "tell", step |-> step]
           a == <<n, f>>
           b == <<m, f>>
<1>1. /\ Reports(look) /\ Reports(tell) /\ look.step = step /\ tell.step = step
      /\ a[1] \in Nat /\ b = <<a[1] + 1, a[2]>> /\ (r.streaming \/ ~a[2])
      /\ step = [at |-> "Saying", done |-> b[1], expected |-> Larger(Expected(r), b[1])]
  BY DEF Reports
<1> HIDE DEF step, look, tell, a, b
<1>2. SaidTakes(r, look, a, b) /\ SaidTakes(r, tell, a, b)
  BY <1>1 DEF SaidTakes
<1>3. Leads(SaysOf(r), Look(step), a, b)
  BY <1>2, LookSays DEF look, tell
<1> QED
  BY <1>3 DEF step, a, b

\* Nothing was said before the first piece.
LEMMA NoneSaid ==
  ASSUME NEW r, AsksToSpeak(r)
  PROVE  /\ Says(r.pieces) \in Seq(Nat) /\ Len(Says(r.pieces)) = Len(r.pieces)
         /\ SaidBefore(r.pieces, 1) = 0
<1> DEFINE c == Says(r.pieces)
           n == Len(r.pieces)
<1>0. n \in Nat /\ DOMAIN r.pieces = 1..n /\ \A k \in 1..n : r.pieces[k].says \in Nat
  BY PiecesSay
<1>1. c \in [1..n -> Nat] /\ c = [k \in 1..n |-> c[k]]
  BY <1>0 DEF Says
<1> HIDE DEF c, n
<1>2. c \in Seq(Nat) /\ Len(c) = n
  BY <1>0, <1>1, SeqDef, FunctionIsRun
<1>3. SaidBefore(r.pieces, 1) = Total(SubSeq(c, 1, 0))
  BY DEF SaidBefore, c
<1>4. SubSeq(c, 1, 0) = <<>> /\ DOMAIN <<>> = {}
  BY <1>2
<1>5. SaidBefore(r.pieces, 1) = 0
  BY <1>3, <1>4, TotalIsSum, SumEmpty
<1> QED
  BY <1>2, <1>5 DEF c, n

\* What was said before the one after a piece is what was before it and of it.
LEMMA SaidAdds ==
  ASSUME NEW r, AsksToSpeak(r), NEW i \in 1..Len(r.pieces)
  PROVE  /\ SaidBefore(r.pieces, 1) = 0 /\ SaidBefore(r.pieces, i) \in Nat /\ r.pieces[i].says \in Nat
         /\ SaidBefore(r.pieces, i + 1) = SaidBefore(r.pieces, i) + r.pieces[i].says
<1> DEFINE c == Says(r.pieces)
           n == Len(r.pieces)
           F == SubSeq(c, 1, i)
           H == SubSeq(c, 1, i - 1)
<1>0. /\ n \in Nat /\ DOMAIN r.pieces = 1..n /\ \A k \in 1..n : r.pieces[k].says \in Nat
  BY PiecesSay
<1>1. c \in [1..n -> Nat] /\ \A k \in 1..n : c[k] = r.pieces[k].says
  BY <1>0 DEF Says
<1>2. c \in Seq(Nat) /\ Len(c) = n
  BY NoneSaid
<1> HIDE DEF c, n
<1>3. /\ F \in Seq(Nat) /\ Len(F) = i /\ \A k \in 1..i : F[k] = c[k]
      /\ H \in Seq(Nat) /\ Len(H) = i - 1 /\ \A k \in 1..(i - 1) : H[k] = c[k]
  <2>1. i \in 1..n /\ i \in Nat /\ i - 1 \in Nat
    BY <1>0 DEF n
  <2> QED
    BY <1>0, <1>2, <2>1
<1>4. DOMAIN F = 1..i /\ DOMAIN H = 1..(i - 1)
  BY <1>3, LenProperties
<1>5. /\ \A k \in 1..i : F[k] \in Nat
      /\ \A k \in 1..(i - 1) : F[k] \in Nat /\ H[k] = F[k]
      /\ F[i] = r.pieces[i].says /\ r.pieces[i].says \in Nat
  <2>1. \A k \in 1..i : c[k] \in Nat /\ k \in 1..n
    BY <1>0, <1>1 DEF n
  <2>2. i \in 1..i /\ i \in 1..n
    BY <1>0 DEF n
  <2> QED
    BY <1>0, <1>1, <1>3, <2>1, <2>2
<1>6. SaidBefore(r.pieces, i) = Total(H) /\ SaidBefore(r.pieces, i + 1) = Total(F)
  <2>1. (i + 1) - 1 = i
    OBVIOUS
  <2> QED
    BY <2>1 DEF SaidBefore, c
<1>7. SaidBefore(r.pieces, 1) = 0
  BY NoneSaid
<1> HIDE DEF F, H
<1>8. IsFiniteSet(1..(i - 1)) /\ (1..(i - 1)) \cup {i} = 1..i /\ i \notin 1..(i - 1)
  <2>1. 1 \in Int /\ i - 1 \in Int
    OBVIOUS
  <2>2. IsFiniteSet(1..(i - 1))
    BY <2>1, FS_Interval, Zenon
  <2> QED
    BY <2>2
<1>9. SumOf(H, 1..(i - 1)) = SumOf(F, 1..(i - 1)) /\ SumOf(F, 1..(i - 1)) \in Nat
  BY <1>5, <1>8, SumSame, SumTakes
<1>10. SumOf(F, 1..i) = SumOf(F, 1..(i - 1)) + F[i]
  <2> DEFINE S == 1..(i - 1)
  <2>1. IsFiniteSet(S) /\ S \cup {i} = 1..i /\ i \notin S
    BY <1>8
  <2> HIDE DEF S
  <2>2. \A y \in S \cup {i} : F[y] \in Nat
    BY <1>5, <2>1
  <2>3. SumOf(F, S \cup {i}) = SumOf(F, S) + F[i]
    BY <2>1, <2>2, SumAdds
  <2> QED
    BY <2>1, <2>3 DEF S
<1>11. Total(F) = SumOf(F, 1..i) /\ Total(H) = SumOf(H, 1..(i - 1))
  BY <1>4, TotalIsSum
<1> QED
  BY <1>5, <1>6, <1>7, <1>9, <1>10, <1>11

\* One token, of whichever piece.
LEMMA TokenSays ==
  ASSUME NEW r, r.model # "tones", NEW gen, NEW i, NEW j, NEW n \in Nat, NEW m, m = n + 1,
         m = SaidBefore(r.pieces, i) + j, NEW f, r.streaming \/ ~f
  PROVE  Leads(SaysOf(r), DrawOn(gen, <<"token", i, j>>) \o SayingOf(r.pieces, i, j) \o Work("token"),
               <<n, f>>, <<m, f>>)
<1> DEFINE e == Larger(Expected(r), m)
<1>1. SayingOf(r.pieces, i, j) = Look([at |-> "Saying", done |-> m, expected |-> e])
  BY DEF SayingOf, Expected
<1> HIDE DEF e
<1>2. Leads(SaysOf(r), SayingOf(r.pieces, i, j), <<n, f>>, <<m, f>>)
  BY <1>1, SayingSays DEF e
<1>3. /\ Leads(SaysOf(r), DrawOn(gen, <<"token", i, j>>), <<n, f>>, <<n, f>>)
      /\ Leads(SaysOf(r), Work("token"), <<m, f>>, <<m, f>>)
  BY UnsaidLeads
<1> QED
  BY <1>2, <1>3, Joined

\* The tokens of a piece.
LEMMA TokensSay ==
  ASSUME NEW r, AsksToSpeak(r), r.model # "tones", NEW gen, NEW i \in 1..Len(r.pieces), NEW f,
         r.streaming \/ ~f
  PROVE  Leads(SaysOf(r), Tokens(gen, r.pieces, i), <<SaidBefore(r.pieces, i), f>>,
               <<SaidBefore(r.pieces, i + 1), f>>)
<1> DEFINE n == r.pieces[i].says
           x == SaidBefore(r.pieces, i)
           y == SaidBefore(r.pieces, i + 1)
           s == SaidOf(gen, r.pieces, i, n)
           on == <<"token", i, n + 1>>
           stopping == IF r.pieces[i].cut THEN <<>> ELSE DrawOn(gen, on)
<1>0. x \in Nat /\ n \in Nat /\ y = x + n
  BY SaidAdds
<1>1. Tokens(gen, r.pieces, i) = Work("prefill") \o FlattenSeq(s) \o stopping
  BY DEF Tokens, Each, SaidOf
<1> HIDE DEF n, y, on
<1> PICK A : A = [j \in 0..n |-> <<x + j, f>>]
  OBVIOUS
<1>2. ASSUME NEW j \in 1..n PROVE Leads(SaysOf(r), s[j], A[j - 1], A[j])
  <2> DEFINE p == x + (j - 1)
             q == x + j
  <2>1. p \in Nat /\ q = p + 1
    BY <1>0
  <2>2. A[j - 1] = <<p, f>> /\ A[j] = <<q, f>>
    BY <1>0
  <2>3. s[j] = DrawOn(gen, <<"token", i, j>>) \o SayingOf(r.pieces, i, j) \o Work("token")
    BY DEF SaidOf
  <2>4. q = SaidBefore(r.pieces, i) + j
    OBVIOUS
  <2> HIDE DEF p, q, s, x
  <2>5. Leads(SaysOf(r), DrawOn(gen, <<"token", i, j>>) \o SayingOf(r.pieces, i, j) \o Work("token"),
              <<p, f>>, <<q, f>>)
    BY <2>1, <2>4, TokenSays
  <2> QED
    BY <2>2, <2>3, <2>5
<1>3. s = [j \in 1..n |-> s[j]]
  BY DEF SaidOf
<1>4. A[0] = <<x, f>> /\ A[n] = <<y, f>>
  BY <1>0
<1> HIDE DEF s, x
<1>5. Leads(SaysOf(r), FlattenSeq(s), A[0], A[n])
  BY <1>0, <1>2, <1>3, PartsLead
<1>6. Leads(SaysOf(r), Work("prefill"), <<x, f>>, <<x, f>>) /\ Leads(SaysOf(r), stopping, <<y, f>>, <<y, f>>)
  BY UnsaidLeads, NothingLeads
<1> HIDE DEF stopping
<1>7. Leads(SaysOf(r), FlattenSeq(s), <<x, f>>, <<y, f>>)
  BY <1>4, <1>5
<1>8. Leads(SaysOf(r), Work("prefill") \o FlattenSeq(s) \o stopping, <<x, f>>, <<y, f>>)
  BY <1>6, <1>7, Joined
<1> QED
  BY <1>1, <1>8 DEF x, y

\* Pieces one after the other say what all of them do.
LEMMA SaidInTurn ==
  ASSUME NEW r, AsksToSpeak(r), NEW s, s = [i \in 1..Len(r.pieces) |-> s[i]], NEW F,
         \A i \in 1..Len(r.pieces) : Leads(SaysOf(r), s[i], <<SaidBefore(r.pieces, i), F[i - 1]>>,
                                           <<SaidBefore(r.pieces, i + 1), F[i]>>)
  PROVE  Leads(SaysOf(r), FlattenSeq(s), <<0, F[0]>>, <<SaidBefore(r.pieces, Len(r.pieces) + 1), F[Len(r.pieces)]>>)
<1> DEFINE n == Len(r.pieces)
<1>0. n \in Nat /\ SaidBefore(r.pieces, 1) = 0
  BY PiecesSay, NoneSaid
<1> HIDE DEF n
<1> PICK A : A = [k \in 0..n |-> <<SaidBefore(r.pieces, k + 1), F[k]>>]
  OBVIOUS
<1>1. \A k \in 0..n : A[k] = <<SaidBefore(r.pieces, k + 1), F[k]>>
  OBVIOUS
<1>2. ASSUME NEW i \in 1..n PROVE Leads(SaysOf(r), s[i], A[i - 1], A[i])
  <2> DEFINE k == i - 1
  <2>1. k \in 0..n /\ k + 1 = i /\ i \in 0..n
    BY <1>0
  <2> HIDE DEF k
  <2>2. A[k] = <<SaidBefore(r.pieces, i), F[k]>>
    BY <1>1, <2>1
  <2>3. A[i] = <<SaidBefore(r.pieces, i + 1), F[i]>>
    BY <1>1, <2>1
  <2>4. Leads(SaysOf(r), s[i], <<SaidBefore(r.pieces, i), F[k]>>, <<SaidBefore(r.pieces, i + 1), F[i]>>)
    BY DEF n, k
  <2> QED
    BY <2>2, <2>3, <2>4 DEF k
<1>3. A[0] = <<0, F[0]>> /\ A[n] = <<SaidBefore(r.pieces, n + 1), F[n]>>
  <2>1. 0 \in 0..n /\ n \in 0..n /\ 0 + 1 = 1
    BY <1>0
  <2> QED
    BY <1>0, <1>1, <2>1
<1>4. Leads(SaysOf(r), FlattenSeq(s), A[0], A[n])
  BY <1>0, <1>2, PartsLead DEF n
<1> QED
  BY <1>3, <1>4 DEF n

\* All the segments of IndexTTS.
LEMMA SegmentsSay ==
  ASSUME NEW r, AsksToSpeak(r), r.model # "tones"
  PROVE  \E n : Leads(SaysOf(r), FlattenSeq(SegmentsOf(r)), Unsaid, <<n, FALSE>>)
<1> DEFINE s == SegmentsOf(r)
<1> PICK F : F = [k \in 0..Len(r.pieces) |-> FALSE]
  OBVIOUS
<1>0. Len(r.pieces) \in Nat
  BY PiecesSay
<1>1. F[0] = FALSE /\ F[Len(r.pieces)] = FALSE
  BY <1>0
<1>2. ASSUME NEW i \in 1..Len(r.pieces)
      PROVE  Leads(SaysOf(r), s[i], <<SaidBefore(r.pieces, i), F[i - 1]>>, <<SaidBefore(r.pieces, i + 1), F[i]>>)
  <2>1. F[i - 1] = FALSE /\ F[i] = FALSE
    <3>1. i - 1 \in 0..Len(r.pieces) /\ i \in 0..Len(r.pieces)
      BY <1>0
    <3> QED
      BY <3>1
  <2>2. s[i] = Tokens("device", r.pieces, i)
    BY DEF SegmentsOf
  <2> HIDE DEF s
  <2>3. Leads(SaysOf(r), Tokens("device", r.pieces, i), <<SaidBefore(r.pieces, i), FALSE>>, <<SaidBefore(r.pieces, i + 1), FALSE>>)
    BY TokensSay
  <2> QED
    BY <2>1, <2>2, <2>3
<1>3. s = [i \in 1..Len(r.pieces) |-> s[i]]
  BY DEF SegmentsOf
<1> HIDE DEF s
<1>4. Leads(SaysOf(r), FlattenSeq(s), <<0, F[0]>>, <<SaidBefore(r.pieces, Len(r.pieces) + 1), F[Len(r.pieces)]>>)
  BY <1>2, <1>3, SaidInTurn
<1> QED
  BY <1>1, <1>4 DEF s, Unsaid

\* A piece of CosyVoice.
LEMMA SaySays ==
  ASSUME NEW r, AsksToSpeak(r), r.model # "tones", NEW i \in 1..Len(r.pieces), NEW f, r.streaming \/ ~f
  PROVE  Leads(SaysOf(r), Say(r.pieces, i), <<SaidBefore(r.pieces, i), f>>, <<SaidBefore(r.pieces, i + 1), f>>)
BY TokensSay DEF Say

\* All the pieces of CosyVoice.
LEMMA SayAllSays ==
  ASSUME NEW r, AsksToSpeak(r), r.model # "tones"
  PROVE  \E n : Leads(SaysOf(r), FlattenSeq(SayAllOf(r.pieces)), Unsaid, <<n, FALSE>>)
<1> DEFINE s == SayAllOf(r.pieces)
<1> PICK F : F = [k \in 0..Len(r.pieces) |-> FALSE]
  OBVIOUS
<1>0. Len(r.pieces) \in Nat
  BY PiecesSay
<1>1. F[0] = FALSE /\ F[Len(r.pieces)] = FALSE
  BY <1>0
<1>2. ASSUME NEW i \in 1..Len(r.pieces)
      PROVE  Leads(SaysOf(r), s[i], <<SaidBefore(r.pieces, i), F[i - 1]>>, <<SaidBefore(r.pieces, i + 1), F[i]>>)
  <2>1. F[i - 1] = FALSE /\ F[i] = FALSE
    <3>1. i - 1 \in 0..Len(r.pieces) /\ i \in 0..Len(r.pieces)
      BY <1>0
    <3> QED
      BY <3>1
  <2>2. s[i] = Say(r.pieces, i)
    BY DEF SayAllOf
  <2> HIDE DEF s
  <2>3. Leads(SaysOf(r), Say(r.pieces, i), <<SaidBefore(r.pieces, i), FALSE>>, <<SaidBefore(r.pieces, i + 1), FALSE>>)
    BY SaySays
  <2> QED
    BY <2>1, <2>2, <2>3
<1>3. s = [i \in 1..Len(r.pieces) |-> s[i]]
  BY DEF SayAllOf
<1> HIDE DEF s
<1>4. Leads(SaysOf(r), FlattenSeq(s), <<0, F[0]>>, <<SaidBefore(r.pieces, Len(r.pieces) + 1), F[Len(r.pieces)]>>)
  BY <1>2, <1>3, SaidInTurn
<1> QED
  BY <1>1, <1>4 DEF s, Unsaid

\* All the sounds, in a voice that has said it all: nothing more is said.
LEMMA SoundsSay ==
  ASSUME NEW r, AsksToSpeak(r), NEW n
  PROVE  Leads(SaysOf(r), FlattenSeq(SoundsOf(r.pieces)), <<n, TRUE>>, <<n, TRUE>>)
<1> DEFINE s == SoundsOf(r.pieces)
           k == Len(r.pieces)
           a == <<n, TRUE>>
<1>0. k \in Nat
  BY PiecesSay
<1>1. ASSUME NEW i \in 1..k PROVE Leads(SaysOf(r), s[i], a, a)
  <2>1. Leads(SaysOf(r), Look(Sounding), a, a)
    BY SoundingSays
  <2>2. Leads(SaysOf(r), Sound(i), a, a)
    <3> DEFINE on == <<"noise", i>>
    <3> HIDE DEF a, on
    <3>1. Leads(SaysOf(r), Work("sound"), a, a) /\ Leads(SaysOf(r), DrawOn("device", on), a, a)
      BY UnsaidLeads
    <3> QED
      BY <3>1, Joined DEF Sound, on
  <2>3. Leads(SaysOf(r), <<>>, a, a)
    BY NothingLeads
  <2>4. s[i] = IF r.pieces[i].says = 0 THEN <<>> ELSE Sound(i) \o Look(Sounding)
    BY DEF SoundsOf
  <2> HIDE DEF s, a
  <2>5. Leads(SaysOf(r), Sound(i) \o Look(Sounding), a, a)
    BY <2>1, <2>2, Joined
  <2> QED
    BY <2>3, <2>4, <2>5
<1>2. s = [i \in 1..k |-> s[i]]
  BY DEF SoundsOf
<1> HIDE DEF s, a, k
<1>3. Leads(SaysOf(r), FlattenSeq(s), a, a)
  BY <1>0, <1>1, <1>2, AgainAndAgain
<1> QED
  BY <1>3 DEF s, a

\* A piece said and sounded, where the reading is streamed.
LEMMA SayAndSoundSays ==
  ASSUME NEW r, AsksToSpeak(r), r.model # "tones", r.streaming, NEW i \in 1..Len(r.pieces), NEW f, NEW g,
         g = IF r.pieces[i].says = 0 THEN f ELSE TRUE
  PROVE  Leads(SaysOf(r), SayAndSoundOf(r.pieces)[i], <<SaidBefore(r.pieces, i), f>>,
               <<SaidBefore(r.pieces, i + 1), g>>)
<1> DEFINE a == <<SaidBefore(r.pieces, i), f>>
           y == SaidBefore(r.pieces, i + 1)
           b == <<y, f>>
           c == <<y, TRUE>>
           t == SayAndSoundOf(r.pieces)[i]
           rest == IF r.pieces[i].says = 0 THEN <<>> ELSE Look(Sounding) \o Sound(i) \o Hand
           on == <<"noise", i>>
<1>1. t = Say(r.pieces, i) \o rest
  BY DEF SayAndSoundOf
<1>2. Leads(SaysOf(r), Say(r.pieces, i), a, b)
  BY SaySays
<1>3. Leads(SaysOf(r), Look(Sounding), b, c)
  BY SoundingSays
<1> HIDE DEF a, b, c, t, on
<1>4. Leads(SaysOf(r), Work("sound"), c, c) /\ Leads(SaysOf(r), DrawOn("device", on), c, c)
      /\ Leads(SaysOf(r), Hand, c, c) /\ Leads(SaysOf(r), <<>>, b, b)
  BY UnsaidLeads, NothingLeads
<1>5. Leads(SaysOf(r), Sound(i), c, c)
  BY <1>4, Joined DEF Sound, on
<1>6. Leads(SaysOf(r), Look(Sounding) \o Sound(i) \o Hand, b, c)
  BY <1>3, <1>4, <1>5, Joined
<1>7. CASE r.pieces[i].says = 0
  <2>1. Leads(SaysOf(r), rest, b, b)
    BY <1>4, <1>7
  <2>2. Leads(SaysOf(r), t, a, b)
    BY <1>1, <1>2, <2>1, Joined
  <2> QED
    BY <1>7, <2>2 DEF a, b, t
<1>8. CASE r.pieces[i].says # 0
  <2>1. Leads(SaysOf(r), rest, b, c)
    BY <1>6, <1>8
  <2>2. Leads(SaysOf(r), t, a, c)
    BY <1>1, <1>2, <2>1, Joined
  <2> QED
    BY <1>8, <2>2 DEF a, c, t
<1> QED
  BY <1>7, <1>8

\* Whether any piece before one has been sounded.
Begun(r, i) == IF SoundedBefore(r, i) > 0 THEN TRUE ELSE FALSE

\* The vocoder has begun once a piece with tokens was sounded.
LEMMA BegunGrows ==
  ASSUME NEW r, AsksToSpeak(r), NEW i \in 1..Len(r.pieces)
  PROVE  Begun(r, i + 1) = IF r.pieces[i].says = 0 THEN Begun(r, i) ELSE TRUE
<1>1. i \in Nat \ {0} /\ r.kind = "speak" /\ r.pieces[i].says \in Nat
  BY PiecesSay
<1>2. /\ SoundedBefore(r, 1) = 0 /\ SoundedBefore(r, i) \in Nat
      /\ SoundedBefore(r, i + 1) = SoundedBefore(r, i) + (IF IsSounded(r, i) THEN 1 ELSE 0)
  BY <1>1, SoundsAdd
<1>3. IsSounded(r, i) <=> r.pieces[i].says # 0
  BY <1>1 DEF IsSounded
<1>4. CASE r.pieces[i].says = 0
  <2>1. SoundedBefore(r, i + 1) = SoundedBefore(r, i)
    BY <1>2, <1>3, <1>4
  <2>2. Begun(r, i + 1) = Begun(r, i)
    BY <2>1, Zenon DEF Begun
  <2> QED
    BY <1>4, <2>2, Zenon
<1>5. CASE r.pieces[i].says # 0
  <2>1. SoundedBefore(r, i + 1) > 0
    BY <1>2, <1>3, <1>5
  <2>2. Begun(r, i + 1) = TRUE
    BY <2>1, Zenon DEF Begun
  <2> QED
    BY <1>5, <2>2, Zenon
<1> QED
  BY <1>4, <1>5, Zenon

\* Before the first piece it has not.
LEMMA NoneBegun == ASSUME NEW r PROVE Begun(r, 1) = FALSE
<1>1. SoundedBefore(r, 1) = 0
  BY SoundsAdd
<1>2. ~(SoundedBefore(r, 1) > 0)
  BY <1>1
<1> QED
  BY <1>2, Zenon DEF Begun

\* The pieces of a streaming reading, each said and sounded in turn.
LEMMA SayAndSoundAllSays ==
  ASSUME NEW r, AsksToSpeak(r), r.model # "tones", r.streaming
  PROVE  \E z : Leads(SaysOf(r), FlattenSeq(SayAndSoundOf(r.pieces)), Unsaid, z)
<1> DEFINE s == SayAndSoundOf(r.pieces)
<1> PICK F : F = [k \in 0..Len(r.pieces) |-> Begun(r, k + 1)]
  OBVIOUS
<1>0. Len(r.pieces) \in Nat
  BY PiecesSay
<1>1. ASSUME NEW i \in 1..Len(r.pieces)
      PROVE  Leads(SaysOf(r), s[i], <<SaidBefore(r.pieces, i), F[i - 1]>>, <<SaidBefore(r.pieces, i + 1), F[i]>>)
  <2> DEFINE k == i - 1
  <2>1. k \in 0..Len(r.pieces) /\ k + 1 = i /\ i \in 0..Len(r.pieces)
    BY <1>0
  <2> HIDE DEF k, s
  <2>2. F[k] = Begun(r, i) /\ F[i] = Begun(r, i + 1)
    BY <2>1
  <2>3. F[i] = IF r.pieces[i].says = 0 THEN F[k] ELSE TRUE
    BY <2>2, BegunGrows
  <2>4. Leads(SaysOf(r), s[i], <<SaidBefore(r.pieces, i), F[k]>>, <<SaidBefore(r.pieces, i + 1), F[i]>>)
    BY <2>3, SayAndSoundSays DEF s
  <2> QED
    BY <2>4 DEF k
<1>2. s = [i \in 1..Len(r.pieces) |-> s[i]]
  BY DEF SayAndSoundOf
<1>3. F[0] = FALSE
  <2>1. 0 \in 0..Len(r.pieces) /\ 0 + 1 = 1
    BY <1>0
  <2>2. F[0] = Begun(r, 1)
    BY <2>1
  <2> QED
    BY <2>2, NoneBegun, Zenon
<1> HIDE DEF s
<1>4. Leads(SaysOf(r), FlattenSeq(s), <<0, F[0]>>, <<SaidBefore(r.pieces, Len(r.pieces) + 1), F[Len(r.pieces)]>>)
  BY <1>1, <1>2, SaidInTurn
<1> QED
  BY <1>3, <1>4 DEF s, Unsaid

\* A reading of IndexTTS.
LEMMA IndexTtsSays ==
  ASSUME NEW r, AsksToSpeak(r), r.model = "indextts"
  PROVE  \E z : Leads(SaysOf(r), IndexTts(r.pieces), Unsaid, z)
<1> DEFINE said == FlattenSeq(SegmentsOf(r))
           sounds == FlattenSeq(SoundsOf(r.pieces))
           first == Look(Reading) \o Work("hear") \o Seed("device") \o Look(Reading)
<1>1. IndexTts(r.pieces) = first \o Where(r.pieces # <<>>, said \o Look(Sounding) \o sounds)
  BY DEF IndexTts, Each, SegmentsOf, SoundsOf
<1>2. PICK n : Leads(SaysOf(r), said, Unsaid, <<n, FALSE>>)
  BY SegmentsSay
<1>3. Leads(SaysOf(r), Look(Sounding), <<n, FALSE>>, <<n, TRUE>>)
  BY SoundingSays
<1>4. Leads(SaysOf(r), sounds, <<n, TRUE>>, <<n, TRUE>>)
  BY SoundsSay
<1> DEFINE z == <<n, TRUE>>
<1> HIDE DEF said, sounds, z
<1>5. Leads(SaysOf(r), said \o Look(Sounding) \o sounds, Unsaid, z)
  BY <1>2, <1>3, <1>4, Joined DEF z
<1>6. Leads(SaysOf(r), Where(r.pieces # <<>>, said \o Look(Sounding) \o sounds), Unsaid, z)
  BY <1>5, FailSays DEF Where
<1>7. Leads(SaysOf(r), first, Unsaid, Unsaid)
  <2>1. /\ Leads(SaysOf(r), Look(Reading), Unsaid, Unsaid) /\ Leads(SaysOf(r), Work("hear"), Unsaid, Unsaid)
        /\ Leads(SaysOf(r), Seed("device"), Unsaid, Unsaid)
    BY ReadingSays, UnsaidLeads
  <2> QED
    BY <2>1, Joined
<1> HIDE DEF first
<1> QED
  BY <1>1, <1>6, <1>7, Joined

\* A reading of CosyVoice, streamed or whole.
LEMMA CosyVoiceSays ==
  ASSUME NEW r, AsksToSpeak(r), r.model = "cosyvoice"
  PROVE  \E z : Leads(SaysOf(r), CosyVoice(r.pieces, r.streaming), Unsaid, z)
<1> DEFINE said == FlattenSeq(SayAllOf(r.pieces))
           sounds == FlattenSeq(SoundsOf(r.pieces))
           inturns == FlattenSeq(SayAndSoundOf(r.pieces))
           first == Look(Reading) \o Work("hear") \o Look(Reading) \o Seed("host") \o Seed("device")
           rest == IF r.streaming THEN inturns ELSE said \o Look(Sounding) \o sounds
<1>1. CosyVoice(r.pieces, r.streaming) = first \o Where(r.pieces # <<>>, rest)
  BY DEF CosyVoice, Each, SayAllOf, SoundsOf, SayAndSoundOf
<1>2. PICK n : Leads(SaysOf(r), said, Unsaid, <<n, FALSE>>)
  BY SayAllSays
<1>3. Leads(SaysOf(r), Look(Sounding), <<n, FALSE>>, <<n, TRUE>>)
  BY SoundingSays
<1>4. Leads(SaysOf(r), sounds, <<n, TRUE>>, <<n, TRUE>>)
  BY SoundsSay
<1>5. r.streaming => \E z : Leads(SaysOf(r), inturns, Unsaid, z)
  BY SayAndSoundAllSays
<1> HIDE DEF said, sounds, inturns
<1>6. Leads(SaysOf(r), said \o Look(Sounding) \o sounds, Unsaid, <<n, TRUE>>)
  BY <1>2, <1>3, <1>4, Joined
<1>7. \E z : Leads(SaysOf(r), rest, Unsaid, z)
  BY <1>5, <1>6
<1>8. PICK z : Leads(SaysOf(r), rest, Unsaid, z)
  BY <1>7
<1> HIDE DEF rest
<1>9. Leads(SaysOf(r), Where(r.pieces # <<>>, rest), Unsaid, z)
  BY <1>8, FailSays DEF Where
<1>10. Leads(SaysOf(r), first, Unsaid, Unsaid)
  <2>1. /\ Leads(SaysOf(r), Look(Reading), Unsaid, Unsaid) /\ Leads(SaysOf(r), Work("hear"), Unsaid, Unsaid)
        /\ Leads(SaysOf(r), Seed("device"), Unsaid, Unsaid) /\ Leads(SaysOf(r), Seed("host"), Unsaid, Unsaid)
    BY ReadingSays, UnsaidLeads
  <2> QED
    BY <2>1, Joined
<1> HIDE DEF first
<1> QED
  BY <1>1, <1>9, <1>10, Joined

\* A reading of the tones.
LEMMA TonesSay ==
  ASSUME NEW r, AsksToSpeak(r), r.model = "tones", NEW notes \in Nat, notes = Total(Says(r.pieces))
  PROVE  \E z : Leads(SaysOf(r), Tones(notes), Unsaid, z)
<1> DEFINE s == NotesOf(notes)
<1> PICK no : no = FALSE
  OBVIOUS
<1> DEFINE B(i) == <<i, no>>
<1> HIDE DEF B
<1> PICK A : A = [i \in 0..notes |-> B(i)]
  OBVIOUS
<1>1. ASSUME NEW i \in 1..notes PROVE Leads(SaysOf(r), s[i], A[i - 1], A[i])
  <2> DEFINE on == <<"token", 1, i>>
             look == [at |-> "Saying", done |-> i, expected |-> notes]
             p == i - 1
  <2>1. p \in Nat /\ i = p + 1
    OBVIOUS
  <2>2. notes = Larger(Expected(r), i)
    BY DEF Larger, Expected
  <2>3. s[i] = DrawOn("host", on) \o Look(look)
    BY DEF NotesOf
  <2>4. A[i - 1] = B(p) /\ A[i] = B(i)
    OBVIOUS
  <2> HIDE DEF on, p, s
  <2>5. Leads(SaysOf(r), DrawOn("host", on), <<p, FALSE>>, <<p, FALSE>>)
    BY UnsaidLeads
  <2>6. Leads(SaysOf(r), Look(look), <<p, FALSE>>, <<i, FALSE>>)
    BY <2>1, <2>2, SayingSays
  <2>7. Leads(SaysOf(r), DrawOn("host", on) \o Look(look), <<p, FALSE>>, <<i, FALSE>>)
    BY <2>5, <2>6, Joined
  <2> QED
    BY <2>3, <2>4, <2>7 DEF B
<1>2. s = [i \in 1..notes |-> s[i]]
  BY DEF NotesOf
<1>3. A[0] = Unsaid /\ A[notes] = <<notes, FALSE>>
  <2>1. A[0] = B(0) /\ A[notes] = B(notes)
    OBVIOUS
  <2> QED
    BY <2>1 DEF Unsaid, B
<1>4. Tones(notes) = Look(Reading) \o Seed("host") \o FlattenSeq(s) \o Look(Sounding)
  BY DEF Tones, Each, NotesOf
<1> HIDE DEF s
<1>5. Leads(SaysOf(r), FlattenSeq(s), A[0], A[notes])
  BY <1>1, <1>2, PartsLead
<1>6. Leads(SaysOf(r), Look(Reading), Unsaid, Unsaid) /\ Leads(SaysOf(r), Seed("host"), Unsaid, Unsaid)
  BY ReadingSays, UnsaidLeads
<1>7. Leads(SaysOf(r), Look(Sounding), <<notes, FALSE>>, <<notes, TRUE>>)
  BY SoundingSays
<1>8. Leads(SaysOf(r), FlattenSeq(s), Unsaid, <<notes, FALSE>>)
  BY <1>3, <1>5
<1> QED
  BY <1>4, <1>6, <1>7, <1>8, Joined

\* What is expected of a reading is so many tokens.
LEMMA NotesAreCounted ==
  ASSUME NEW r, AsksToSpeak(r)
  PROVE  Total(Says(r.pieces)) \in Nat /\ Expects(r.pieces) \in Nat /\ Expected(r) \in Nat
<1> DEFINE n == Len(r.pieces)
           says == Says(r.pieces)
           expects == [i \in DOMAIN r.pieces |-> r.pieces[i].expects]
<1>0. n \in Nat /\ DOMAIN r.pieces = 1..n
  BY PiecesSay
<1>1. \A i \in 1..n : r.pieces[i].says \in Nat /\ r.pieces[i].expects \in Nat
  <2>1. r.pieces \in Seq([expects : Nat, says : Nat, cut : BOOLEAN])
    BY DEF AsksToSpeak
  <2>2. \A i \in 1..n : r.pieces[i] \in [expects : Nat, says : Nat, cut : BOOLEAN]
    BY <2>1, ElementOfSeq
  <2> QED
    BY <2>2
<1>2. DOMAIN says = 1..n /\ \A i \in 1..n : says[i] \in Nat
  BY <1>0, <1>1 DEF Says
<1>3. DOMAIN expects = 1..n /\ \A i \in 1..n : expects[i] \in Nat
  BY <1>0, <1>1
<1>4. IsFiniteSet(1..n)
  <2>1. 1 \in Int /\ n \in Int
    BY <1>0
  <2> QED
    BY <2>1, FS_Interval, Zenon
<1>5. Expects(r.pieces) = Total(expects)
  BY DEF Expects
<1> HIDE DEF n, says, expects
<1>6. Total(says) \in Nat /\ Total(expects) \in Nat
  BY <1>2, <1>3, <1>4, TotalIsSum, SumTakes
<1> QED
  BY <1>5, <1>6 DEF Expected, says

\* Whatever the voice, with the beginning it is told of and what it hands over.
LEMMA SpeechSays ==
  ASSUME NEW r, AsksToSpeak(r)
  PROVE  \E z : Leads(SaysOf(r), Tell(Reading) \o Speech(r), Unsaid, z)
<1>1. Leads(SaysOf(r), Tell(Reading), Unsaid, Unsaid)
  BY ReadingSays
<1>2. r.model \in {"tones", "indextts", "cosyvoice"} /\ r.streaming \in BOOLEAN
  BY DEF AsksToSpeak
<1>3. ASSUME NEW s, NEW z, Leads(SaysOf(r), s, Unsaid, z)
      PROVE  Leads(SaysOf(r), AsOnePart(s, r.streaming), Unsaid, z)
  <2>1. Leads(SaysOf(r), Hand, z, z)
    BY UnsaidLeads
  <2>2. Leads(SaysOf(r), s \o Hand, Unsaid, z)
    BY <1>3, <2>1, Joined
  <2> QED
    BY <1>3, <2>2 DEF AsOnePart
<1>4. \E z : Leads(SaysOf(r), Speech(r), Unsaid, z)
  <2>1. CASE r.model = "tones"
    <3> DEFINE n == Total(Says(r.pieces))
    <3>1. n \in Nat
      BY NotesAreCounted
    <3>2. Speech(r) = AsOnePart(Tones(n), r.streaming)
      BY <2>1 DEF Speech
    <3> HIDE DEF n
    <3>3. PICK z : Leads(SaysOf(r), Tones(n), Unsaid, z)
      BY <2>1, <3>1, TonesSay DEF n
    <3> QED
      BY <1>3, <3>2, <3>3
  <2>2. CASE r.model = "indextts"
    <3>1. Speech(r) = AsOnePart(IndexTts(r.pieces), r.streaming)
      BY <2>2 DEF Speech
    <3>2. PICK z : Leads(SaysOf(r), IndexTts(r.pieces), Unsaid, z)
      BY <2>2, IndexTtsSays
    <3> QED
      BY <1>3, <3>1, <3>2
  <2>3. CASE r.model = "cosyvoice"
    <3>1. Speech(r) = CosyVoice(r.pieces, r.streaming)
      BY <2>3 DEF Speech
    <3> QED
      BY <2>3, <3>1, CosyVoiceSays
  <2> QED
    BY <1>2, <2>1, <2>2, <2>3
<1>5. PICK z : Leads(SaysOf(r), Speech(r), Unsaid, z)
  BY <1>4
<1> QED
  BY <1>1, <1>5, Joined

-----------------------------------------------------------------------------
(* What the bar of a reading comes to. *)

\* Of so many tokens expected, so many said: what is expected grows where more is said.
OfExpected(E, D) == IF D = 0 THEN Nothing ELSE <<D, Larger(E, D)>>
TokensOf(some) == <<some[2], some[1] + some[2]>>

\* What is said of what is expected grows with each token, where the estimate is short too.
LEMMA ShareGrows ==
  ASSUME NEW E \in Nat, NEW D \in Nat, NEW d, d = D + 1
  PROVE  /\ OfExpected(E, D) \in Part /\ OfExpected(E, d) \in Part /\ AtMost(OfExpected(E, D), OfExpected(E, d))
         /\ AtMost(OfExpected(E, D), Full) /\ Full \in Part
<1> DEFINE u == Larger(E, D)
           v == Larger(E, d)
<1>0. d \in Nat \ {0} /\ v \in Nat \ {0} /\ u \in Nat /\ D <= u /\ (D # 0 => u # 0)
  BY DEF Larger
<1>1. OfExpected(E, d) = <<d, v>> /\ <<d, v>> \in Part
  BY <1>0 DEF OfExpected, Part
<1>2. Full \in Part /\ Full[1] = 1 /\ Full[2] = 1
  BY DEF Full, Part
<1>3. CASE D = 0
  <2>1. OfExpected(E, D) = Nothing
    BY <1>3 DEF OfExpected
  <2> QED
    BY <1>1, <1>2, <2>1, NothingLess
<1>4. CASE D # 0
  <2>1. OfExpected(E, D) = <<D, u>> /\ <<D, u>> \in Part
    BY <1>0, <1>4 DEF OfExpected, Part
  <2>2. D * v <= d * u
    <3>1. CASE d <= E
      <4>1. u = E /\ v = E
        BY <3>1 DEF Larger
      <4>2. D * E <= d * E
        BY MulLe
      <4> QED
        BY <4>1, <4>2
    <3>2. CASE ~(d <= E)
      <4>1. u = D /\ v = d
        BY <3>2 DEF Larger
      <4>2. D * d = d * D /\ D * d \in Int
        BY <1>0
      <4> QED
        BY <4>1, <4>2
    <3> QED
      BY <3>1, <3>2
  <2>3. D * 1 <= 1 * u
    BY <1>0
  <2>4. AtMost(<<D, u>>, <<d, v>>)
    BY <2>2 DEF AtMost
  <2>5. AtMost(<<D, u>>, Full)
    BY <1>2, <2>3 DEF AtMost
  <2> QED
    BY <1>1, <1>2, <2>1, <2>4, <2>5
<1> QED
  BY <1>3, <1>4

\* The tokens' part of a reading is no more than is shown before all of it is sounded, and the
\* vocoder's is the rest.
LEMMA TokensArePart ==
  ASSUME NEW some, IsRatio(some)
  PROVE  /\ TokensOf(some) \in Part /\ AtMost(TokensOf(some), Withheld) /\ Withheld \in Part
         /\ Less(Full, TokensOf(some)) \in Part
<1> DEFINE x == some[1]
           y == some[2]
           t == TokensOf(some)
<1>0. x \in Nat /\ y \in Nat \ {0} /\ y <= 20 * x /\ x + y \in Nat \ {0}
  BY DEF IsRatio
<1>1. t = <<y, x + y>> /\ t[1] = y /\ t[2] = x + y
  BY DEF TokensOf
<1> HIDE DEF x, y, t
<1>2. t \in Part
  BY <1>0, <1>1 DEF Part
<1>3. Withheld[1] = 99 /\ Withheld[2] = 100 /\ Withheld \in Part
  BY DEF Withheld, Part
<1>4. y * 100 <= 99 * (x + y)
  BY <1>0
<1>5. AtMost(t, Withheld)
  BY <1>1, <1>3, <1>4 DEF AtMost
<1>6. Less(Full, t) = <<1 * (x + y) - y * 1, 1 * (x + y)>>
  BY <1>1 DEF Less, Full
<1>7. 1 * (x + y) - y * 1 \in Nat /\ 1 * (x + y) \in Nat \ {0}
  BY <1>0
<1>8. Less(Full, t) \in Part
  BY <1>6, <1>7 DEF Part
<1> QED
  BY <1>2, <1>3, <1>5, <1>8 DEF t

\* No more than all of something is no more than it, which is no more than it and some.
LEMMA PartOfPart ==
  ASSUME NEW k \in Part, NEW a \in Part, AtMost(a, Full)
  PROVE  Times(k, a) \in Part /\ AtMost(Times(k, a), k)
<1> DEFINE p == k[1]
           q == k[2]
           x == a[1]
           u == a[2]
<1>1. p \in Nat /\ q \in Nat \ {0} /\ x \in Nat /\ u \in Nat \ {0} /\ Full[1] = 1 /\ Full[2] = 1
  BY PartIs DEF Full
<1>2. x * 1 <= 1 * u
  BY <1>1 DEF AtMost
<1>3. Times(k, a) = <<p * x, q * u>>
  BY DEF Times
<1> HIDE DEF p, q, x, u
<1>4. p * x \in Nat /\ q * u \in Nat \ {0}
  BY <1>1
<1>5. x * (p * q) <= u * (p * q)
  <2>1. x \in Int /\ u \in Int /\ p * q \in Nat /\ x <= u
    BY <1>1, <1>2
  <2> QED
    BY <2>1, MulLe
<1>6. (p * x) * q = x * (p * q) /\ p * (q * u) = u * (p * q)
  BY <1>1
<1>7. (p * x) * q <= p * (q * u)
  BY <1>5, <1>6
<1>8. AtMost(Times(k, a), k)
  BY <1>3, <1>7 DEF AtMost, p, q
<1> QED
  BY <1>3, <1>4, <1>8 DEF Part

\* A fraction is at most itself and something more.
LEMMA PartAndSome ==
  ASSUME NEW a \in Part, NEW b \in Part
  PROVE  Plus(a, b) \in Part /\ AtMost(a, Plus(a, b))
<1> DEFINE x == a[1]
           u == a[2]
           y == b[1]
           v == b[2]
<1>1. x \in Nat /\ u \in Nat \ {0} /\ y \in Nat /\ v \in Nat \ {0}
  BY PartIs
<1>2. Plus(a, b) = <<x * v + y * u, u * v>>
  BY DEF Plus
<1> HIDE DEF x, u, y, v
<1>3. x * v + y * u \in Nat /\ u * v \in Nat \ {0}
  BY <1>1
<1>4. x * (u * v) <= (x * v + y * u) * u
  <2>1. (x * v + y * u) * u = x * (u * v) + (y * u) * u /\ x * (u * v) \in Int /\ (y * u) * u \in Nat
    BY <1>1
  <2> QED
    BY <2>1
<1>5. AtMost(a, Plus(a, b))
  BY <1>2, <1>4 DEF AtMost, x, u
<1> QED
  BY <1>2, <1>3, <1>5 DEF Part

\* What is told, field by field.
IsSay(say) ==
  say = [is |-> "speaking", step |-> say.step, expected |-> say.expected, sounding |-> say.sounding,
         ratio |-> say.ratio, streaming |-> say.streaming, said |-> say.said]

\* What a reading is told to be, once so much of it has been said.
Speaks(say, r, a) ==
  /\ IsSay(say)
  /\ IsRatio(say.ratio) /\ say.streaming = r.streaming
  /\ a = <<say.said, say.sounding>> /\ say.said \in Nat /\ say.sounding \in BOOLEAN
  /\ say.expected = IF say.said = 0 THEN 0 ELSE Larger(Expected(r), say.said)
  /\ \/ say.step = Reading /\ say.said = 0 /\ ~say.sounding
     \/ say.step.at = "Saying" /\ say.step.done = say.said /\ say.said # 0 /\ (r.streaming \/ ~say.sounding)
     \/ say.step = Sounding /\ say.sounding

\* The share of what is expected that is said.
SaidShare(say, r) == OfExpected(Expected(r), say.said)

\* What the bar shows of a reading, by where it is.
LEMMA SpokenIs ==
  ASSUME NEW r, Expected(r) \in Nat, NEW say, NEW a, Speaks(say, r, a), NEW e
  PROVE  /\ say.step = Reading => Spoken(say, e) = Nothing
         /\ say.step # Reading /\ r.streaming => Spoken(say, e) = LesserOf(SaidShare(say, r), Withheld)
         /\ say.step.at = "Saying" /\ ~r.streaming =>
              Spoken(say, e) = Times(TokensOf(say.ratio), SaidShare(say, r))
         /\ say.step = Sounding /\ ~r.streaming =>
              Spoken(say, e) = LesserOf(Plus(TokensOf(say.ratio),
                                             Times(Less(Full, TokensOf(say.ratio)), LesserOf(e, Full))), Withheld)
<1> DEFINE n == say.said
           E == Expected(r)
           x == Larger(say.expected, 1)
           share == SaidShare(say, r)
<1>0. n \in Nat /\ E \in Nat /\ say.expected = (IF n = 0 THEN 0 ELSE Larger(E, n))
  BY DEF Speaks
<1>1. <<Smaller(n, x), x>> = share
  <2>1. CASE n = 0
    <3>1. x = 1 /\ Smaller(n, x) = 0
      BY <1>0, <2>1 DEF Larger, Smaller
    <3> QED
      BY <2>1, <3>1 DEF SaidShare, OfExpected, Nothing
  <2>2. CASE n # 0
    <3>1. x = Larger(E, n) /\ Smaller(n, x) = n
      BY <1>0, <2>2 DEF Larger, Smaller
    <3> QED
      BY <2>2, <3>1 DEF SaidShare, OfExpected
  <2> QED
    BY <2>1, <2>2
<1>2. Reading.at = "Reading" /\ Sounding.at = "Sounding"
  BY DEF Reading, Sounding
<1>3. say.streaming = r.streaming /\ (say.step.at = "Saying" => say.step.done = n)
      /\ (say.step # Reading => say.step.at # "Reading")
  BY <1>2 DEF Speaks
<1> HIDE DEF share
<1>4. CASE say.step = Reading
  BY <1>2, <1>4 DEF Spoken
<1>5. CASE say.step # Reading /\ r.streaming
  <2>1. Spoken(say, e) = LesserOf(<<Smaller(n, x), x>>, Withheld)
    BY <1>3, <1>5 DEF Spoken
  <2> QED
    BY <1>1, <1>5, <2>1 DEF share
<1>6. CASE say.step.at = "Saying" /\ ~r.streaming
  <2>1. Spoken(say, e) = Times(TokensOf(say.ratio), <<Smaller(say.step.done, x), x>>)
    BY <1>3, <1>6 DEF Spoken, TokensOf
  <2> QED
    BY <1>1, <1>2, <1>3, <1>6, <2>1 DEF share
<1>7. CASE say.step = Sounding /\ ~r.streaming
  BY <1>2, <1>3, <1>7 DEF Spoken, TokensOf
<1> QED
  BY <1>2, <1>4, <1>5, <1>6, <1>7 DEF share

\* How far along it is, is a part of all of it, which grows as time goes by.
LEMMA SpokenGrows ==
  ASSUME NEW r, Expected(r) \in Nat, NEW say, NEW a, Speaks(say, r, a),
         NEW d \in Part, NEW e \in Part, AtMost(d, e)
  PROVE  Spoken(say, d) \in Part /\ Spoken(say, e) \in Part /\ AtMost(Spoken(say, d), Spoken(say, e))
<1> DEFINE t == TokensOf(say.ratio)
           l == Less(Full, t)
           share == SaidShare(say, r)
<1>0. t \in Part /\ l \in Part /\ Withheld \in Part /\ IsRatio(say.ratio)
  BY TokensArePart DEF Speaks
<1>1. share \in Part /\ Full \in Part
  <2>1. say.said \in Nat
    BY DEF Speaks
  <2> QED
    BY <2>1, ShareGrows DEF SaidShare
<1>2. LesserOf(share, Withheld) \in Part /\ Times(t, share) \in Part
  BY <1>0, <1>1, LesserIs, AtMostSelf, TimesGrows
<1> DEFINE f == LesserOf(d, Full)
           g == LesserOf(e, Full)
           x == LesserOf(Plus(t, Times(l, f)), Withheld)
           y == LesserOf(Plus(t, Times(l, g)), Withheld)
<1>3. x \in Part /\ y \in Part /\ AtMost(x, y)
  <2>1. f \in Part /\ g \in Part /\ AtMost(f, g)
    BY <1>1, LesserIs, LesserGrows
  <2> HIDE DEF f, g, t, l
  <2>2. Times(l, f) \in Part /\ Times(l, g) \in Part /\ AtMost(Times(l, f), Times(l, g))
    BY <1>0, <2>1, TimesGrows
  <2>3. AtMost(t, t)
    BY <1>0, AtMostSelf
  <2>4. Plus(t, Times(l, f)) \in Part /\ Plus(t, Times(l, g)) \in Part
        /\ AtMost(Plus(t, Times(l, f)), Plus(t, Times(l, g)))
    BY <1>0, <2>2, <2>3, PlusGrows
  <2> QED
    BY <1>0, <2>4, LesserIs, LesserGrows
<1>4. \/ say.step = Reading /\ Spoken(say, d) = Nothing /\ Spoken(say, e) = Nothing
      \/ Spoken(say, d) = LesserOf(share, Withheld) /\ Spoken(say, e) = LesserOf(share, Withheld)
      \/ Spoken(say, d) = Times(t, share) /\ Spoken(say, e) = Times(t, share)
      \/ Spoken(say, d) = x /\ Spoken(say, e) = y
  <2>1. say.step = Reading \/ say.step.at = "Saying" \/ say.step = Sounding
    BY DEF Speaks
  <2> HIDE DEF t, l, share
  <2>2. CASE say.step = Reading
    BY <2>2, SpokenIs
  <2>3. CASE say.step # Reading /\ r.streaming
    BY <2>3, SpokenIs DEF share
  <2>4. CASE say.step.at = "Saying" /\ ~r.streaming
    BY <2>4, SpokenIs DEF share, t
  <2>5. CASE say.step = Sounding /\ ~r.streaming
    BY <2>5, SpokenIs DEF share, t, l
  <2> QED
    BY <2>1, <2>2, <2>3, <2>4, <2>5
<1>5. Nothing \in Part
  BY <1>1, NothingLess
<1> HIDE DEF x, y, share, t
<1> QED
  BY <1>2, <1>3, <1>4, <1>5, AtMostSelf

\* What is reported takes the bar no further back.
LEMMA SpokenOn ==
  ASSUME NEW r, Expected(r) \in Nat, NEW say, NEW a, Speaks(say, r, a), NEW told, NEW b, Speaks(told, r, b),
         told.ratio = say.ratio, NEW e \in Part,
         \/ say.step = Reading
         \/ told.step # Reading /\ told.said \in {say.said, say.said + 1} /\ r.streaming
         \/ told.step.at = "Saying" /\ say.step.at = "Saying" /\ told.said = say.said + 1 /\ ~r.streaming
         \/ told.step = Sounding /\ say.step.at = "Saying" /\ ~r.streaming
         \/ told.step = Sounding /\ say.step = Sounding /\ ~r.streaming
  PROVE  AtMost(Spoken(say, e), Spoken(told, e))
<1> DEFINE t == TokensOf(say.ratio)
           l == Less(Full, t)
           u == SaidShare(say, r)
           v == SaidShare(told, r)
           f == LesserOf(e, Full)
           x == LesserOf(Plus(t, Times(l, f)), Withheld)
<1>0. t \in Part /\ l \in Part /\ Withheld \in Part /\ AtMost(t, Withheld)
  BY TokensArePart DEF Speaks
<1>1. u \in Part /\ v \in Part /\ Full \in Part /\ AtMost(u, Full)
  <2>1. say.said \in Nat /\ told.said \in Nat
    BY DEF Speaks
  <2> QED
    BY <2>1, ShareGrows DEF SaidShare
<1>2. told.said \in {say.said, say.said + 1} => AtMost(u, v)
  <2>1. say.said \in Nat
    BY DEF Speaks
  <2>2. CASE told.said = say.said
    BY <1>1, <2>2, AtMostSelf DEF SaidShare
  <2>3. CASE told.said = say.said + 1
    BY <2>1, <2>3, ShareGrows DEF SaidShare
  <2> QED
    BY <2>2, <2>3
<1>3. Spoken(say, e) \in Part /\ Spoken(told, e) \in Part
  <2>1. AtMost(e, e)
    BY AtMostSelf
  <2> QED
    BY <2>1, SpokenGrows
<1>4. CASE say.step = Reading
  <2>1. Spoken(say, e) = Nothing
    BY <1>4, SpokenIs
  <2> QED
    BY <1>3, <2>1, NothingLess
<1>5. CASE say.step # Reading /\ told.step # Reading /\ told.said \in {say.said, say.said + 1} /\ r.streaming
  <2>1. Spoken(say, e) = LesserOf(u, Withheld) /\ Spoken(told, e) = LesserOf(v, Withheld)
    BY <1>5, SpokenIs
  <2> QED
    BY <1>0, <1>1, <1>2, <1>5, <2>1, LesserGrows
<1>6. CASE told.step.at = "Saying" /\ say.step.at = "Saying" /\ told.said = say.said + 1 /\ ~r.streaming
  <2>1. Spoken(say, e) = Times(t, u) /\ Spoken(told, e) = Times(t, v)
    BY <1>6, SpokenIs
  <2> QED
    BY <1>0, <1>1, <1>2, <1>6, <2>1, TimesGrows
<1>7. CASE told.step = Sounding /\ say.step.at = "Saying" /\ ~r.streaming
  <2>1. Spoken(say, e) = Times(t, u) /\ Spoken(told, e) = x
    BY <1>7, SpokenIs
  <2>2. f \in Part
    BY <1>1, LesserIs
  <2> HIDE DEF t, l, u, f
  <2>3. Times(t, u) \in Part /\ AtMost(Times(t, u), t)
    BY <1>0, <1>1, PartOfPart
  <2>4. Times(l, f) \in Part
    BY <1>0, <2>2, AtMostSelf, TimesGrows
  <2>5. Plus(t, Times(l, f)) \in Part /\ AtMost(t, Plus(t, Times(l, f)))
    BY <1>0, <2>4, PartAndSome
  <2>6. AtMost(t, x) /\ x \in Part
    BY <1>0, <2>5, LesserIs DEF LesserOf
  <2> HIDE DEF x
  <2> QED
    BY <1>0, <2>1, <2>3, <2>6, AtMostAll
<1>8. CASE told.step = Sounding /\ say.step = Sounding /\ ~r.streaming
  <2>1. Spoken(say, e) = x /\ Spoken(told, e) = x
    BY <1>8, SpokenIs
  <2> QED
    BY <1>3, <2>1, AtMostSelf
<1> QED
  BY <1>4, <1>5, <1>6, <1>7, <1>8

\* Where what is told of it leads on from what was.
SpeaksOn(say, told, r) ==
  \/ say.step = Reading
  \/ told.step # Reading /\ told.said \in {say.said, say.said + 1} /\ r.streaming
  \/ told.step.at = "Saying" /\ say.step.at = "Saying" /\ told.said = say.said + 1 /\ ~r.streaming
  \/ told.step = Sounding /\ say.step.at = "Saying" /\ ~r.streaming
  \/ told.step = Sounding /\ say.step = Sounding /\ ~r.streaming

SaySaid(say, step, x, m) == [say EXCEPT !.step = step, !.expected = x, !.said = m]
SaySounded(say, step) == [say EXCEPT !.step = step, !.sounding = TRUE]

\* The fields of a reading after one more token is told of.
LEMMA TellSaying ==
  ASSUME NEW p, NEW q, NEW s, NEW t, NEW u, NEW v, NEW say,
         say = [is |-> "speaking", step |-> p, expected |-> q, sounding |-> s, ratio |-> t, streaming |-> u,
                said |-> v],
         NEW step, NEW x, NEW m, NEW told, told = [say EXCEPT !.step = step, !.expected = x, !.said = m]
  PROVE  told = [is |-> "speaking", step |-> step, expected |-> x, sounding |-> s, ratio |-> t, streaming |-> u,
                 said |-> m]
BY Zenon

\* And after a sounding is.
LEMMA TellSounding ==
  ASSUME NEW p, NEW q, NEW s, NEW t, NEW u, NEW v, NEW say,
         say = [is |-> "speaking", step |-> p, expected |-> q, sounding |-> s, ratio |-> t, streaming |-> u,
                said |-> v],
         NEW step, NEW told, told = [say EXCEPT !.step = step, !.sounding = TRUE]
  PROVE  told = [is |-> "speaking", step |-> step, expected |-> q, sounding |-> TRUE, ratio |-> t, streaming |-> u,
                 said |-> v]
BY Zenon

\* The same, by the names of the fields.
LEMMA SayingIs ==
  ASSUME NEW say, IsSay(say), NEW step, NEW x, NEW m, NEW told, told = SaySaid(say, step, x, m)
  PROVE  /\ told.step = step /\ told.expected = x /\ told.sounding = say.sounding
         /\ told.ratio = say.ratio /\ told.streaming = say.streaming /\ told.said = m /\ IsSay(told)
<1> DEFINE p == say.step
           q == say.expected
           s == say.sounding
           t == say.ratio
           u == say.streaming
           v == say.said
<1>1. say = [is |-> "speaking", step |-> p, expected |-> q, sounding |-> s, ratio |-> t, streaming |-> u,
             said |-> v]
  BY DEF IsSay
<1> HIDE DEF p, q, s, t, u, v
<1>2. told = [is |-> "speaking", step |-> step, expected |-> x, sounding |-> s, ratio |-> t, streaming |-> u,
              said |-> m]
  BY <1>1, TellSaying, Zenon DEF SaySaid
<1>3. /\ told.step = step /\ told.expected = x /\ told.sounding = s /\ told.ratio = t
      /\ told.streaming = u /\ told.said = m
  BY <1>2
<1>4. IsSay(told)
  BY <1>2, <1>3 DEF IsSay
<1> QED
  BY <1>3, <1>4, Zenon DEF s, t, u

\* The same of a sounding.
LEMMA SoundingIs ==
  ASSUME NEW say, IsSay(say), NEW step, NEW told, told = SaySounded(say, step)
  PROVE  /\ told.step = step /\ told.expected = say.expected /\ told.sounding = TRUE
         /\ told.ratio = say.ratio /\ told.streaming = say.streaming /\ told.said = say.said /\ IsSay(told)
<1> DEFINE p == say.step
           q == say.expected
           s == say.sounding
           t == say.ratio
           u == say.streaming
           v == say.said
<1>1. say = [is |-> "speaking", step |-> p, expected |-> q, sounding |-> s, ratio |-> t, streaming |-> u,
             said |-> v]
  BY DEF IsSay
<1> HIDE DEF p, q, s, t, u, v
<1>2. told = [is |-> "speaking", step |-> step, expected |-> q, sounding |-> TRUE, ratio |-> t, streaming |-> u,
              said |-> v]
  BY <1>1, TellSounding, Zenon DEF SaySounded
<1>3. /\ told.step = step /\ told.expected = q /\ told.sounding = TRUE /\ told.ratio = t
      /\ told.streaming = u /\ told.said = v
  BY <1>2
<1>4. IsSay(told)
  BY <1>2, <1>3 DEF IsSay
<1> QED
  BY <1>3, <1>4, Zenon DEF q, t, u, v

\* A reading is told that it begins.
LEMMA ToldReading ==
  ASSUME NEW r, NEW say, NEW a, Speaks(say, r, a), a = Unsaid
  PROVE  Speaks(ToldSay(say, Reading), r, a) /\ ToldSay(say, Reading).ratio = say.ratio
         /\ SpeaksOn(say, ToldSay(say, Reading), r)
<1> DEFINE told == ToldSay(say, Reading)
<1>0. IsSay(say)
  BY DEF Speaks
<1>1. told = [say EXCEPT !.step = Reading]
  BY DEF ToldSay, Reading
<1>2. /\ told.step = Reading /\ told.expected = say.expected /\ told.sounding = say.sounding
      /\ told.ratio = say.ratio /\ told.streaming = say.streaming /\ told.said = say.said /\ IsSay(told)
  BY <1>0, <1>1 DEF IsSay
<1> HIDE DEF told
<1>3. say.said = 0 /\ say.sounding = FALSE
  <2>1. <<say.said, say.sounding>> = <<0, FALSE>>
    BY DEF Speaks, Unsaid
  <2> QED
    BY <2>1
<1>4. say.step = Reading
  BY <1>3 DEF Speaks
<1>5. Speaks(told, r, a)
  BY <1>2, <1>3 DEF Speaks
<1> QED
  BY <1>2, <1>4, <1>5 DEF told, SpeaksOn

\* A reading is told of a token.
LEMMA ToldSaying ==
  ASSUME NEW r, Expected(r) \in Nat, NEW say, NEW a, Speaks(say, r, a), NEW b, NEW step,
         a[1] \in Nat, b = <<a[1] + 1, a[2]>>, r.streaming \/ ~a[2],
         step = [at |-> "Saying", done |-> b[1], expected |-> Larger(Expected(r), b[1])]
  PROVE  Speaks(ToldSay(say, step), r, b) /\ ToldSay(say, step).ratio = say.ratio
         /\ SpeaksOn(say, ToldSay(say, step), r)
<1> DEFINE told == ToldSay(say, step)
           n == say.said
           m == n + 1
           x == Larger(Expected(r), m)
<1>0. /\ IsSay(say)
      /\ n \in Nat /\ say.sounding \in BOOLEAN /\ a = <<n, say.sounding>> /\ IsRatio(say.ratio)
      /\ say.streaming = r.streaming
  BY DEF Speaks
<1>1. a[1] = n /\ a[2] = say.sounding /\ b = <<m, say.sounding>> /\ b[1] = m /\ m \in Nat /\ m # 0
  BY <1>0
<1>2. step.at = "Saying" /\ step.done = m /\ step.expected = x /\ Larger(n, m) = m
  BY <1>0, <1>1 DEF Larger
<1>3. told = SaySaid(say, step, x, m)
  BY <1>2 DEF ToldSay, SaySaid
<1> HIDE DEF told, m, x
<1>4. /\ told.step = step /\ told.expected = x /\ told.sounding = say.sounding
      /\ told.ratio = say.ratio /\ told.streaming = say.streaming /\ told.said = m /\ IsSay(told)
  <2>1. IsSay(say)
    BY <1>0
  <2> QED
    BY <2>1, <1>3, SayingIs
<1>5. r.streaming \/ ~say.sounding
  BY <1>1
<1>6. Speaks(told, r, b)
  <2>1. told.expected = IF told.said = 0 THEN 0 ELSE Larger(Expected(r), told.said)
    BY <1>1, <1>4 DEF x
  <2> QED
    BY <1>0, <1>1, <1>2, <1>4, <1>5, <2>1 DEF Speaks
<1>7. told.step # Reading /\ told.step.at = "Saying" /\ told.said = say.said + 1
  BY <1>2, <1>4 DEF Reading, m
<1>8. say.step = Reading \/ say.step.at = "Saying" \/ say.sounding
  BY DEF Speaks
<1>9. SpeaksOn(say, told, r)
  BY <1>5, <1>7, <1>8 DEF SpeaksOn
<1> QED
  BY <1>4, <1>6, <1>9 DEF told

\* A reading is told that it is sounded.
LEMMA ToldSounding ==
  ASSUME NEW r, NEW say, NEW a, Speaks(say, r, a), NEW b, b = <<a[1], TRUE>>
  PROVE  Speaks(ToldSay(say, Sounding), r, b) /\ ToldSay(say, Sounding).ratio = say.ratio
         /\ SpeaksOn(say, ToldSay(say, Sounding), r)
<1> DEFINE told == ToldSay(say, Sounding)
<1>0. /\ IsSay(say)
      /\ say.said \in Nat /\ a = <<say.said, say.sounding>> /\ IsRatio(say.ratio)
      /\ say.streaming = r.streaming
      /\ say.expected = (IF say.said = 0 THEN 0 ELSE Larger(Expected(r), say.said))
  BY DEF Speaks
<1>1. told = SaySounded(say, Sounding)
  BY DEF ToldSay, Sounding, SaySounded
<1>2. /\ told.step = Sounding /\ told.expected = say.expected /\ told.sounding = TRUE
      /\ told.ratio = say.ratio /\ told.streaming = say.streaming /\ told.said = say.said /\ IsSay(told)
  <2>1. IsSay(say)
    BY <1>0
  <2> QED
    BY <2>1, <1>1, SoundingIs
<1> HIDE DEF told
<1>3. b = <<told.said, told.sounding>>
  BY <1>0, <1>2
<1>4. Speaks(told, r, b)
  BY <1>0, <1>2, <1>3 DEF Speaks
<1>5. say.step = Reading \/ say.step.at = "Saying" \/ say.step = Sounding
  BY DEF Speaks
<1>6. told.step # Reading /\ told.step = Sounding /\ told.said = say.said
  BY <1>2 DEF Reading, Sounding
<1>7. SpeaksOn(say, told, r)
  BY <1>5, <1>6 DEF SpeaksOn
<1> QED
  BY <1>2, <1>4, <1>7 DEF told

\* A report of a reading: what the worker is told, and what of it the bar shows.
LEMMA SpeakStep ==
  ASSUME NEW r, Expected(r) \in Nat, NEW say, NEW a, Speaks(say, r, a), NEW op, Reports(op), NEW b,
         SaidTakes(r, op, a, b), NEW d \in Part, NEW e \in Part, AtMost(d, e)
  PROVE  /\ Speaks(ToldSay(say, op.step), r, b)
         /\ Spoken(say, d) \in Part /\ Spoken(ToldSay(say, op.step), e) \in Part
         /\ AtMost(Spoken(say, d), Spoken(ToldSay(say, op.step), e))
<1> DEFINE told == ToldSay(say, op.step)
<1>0. op.do # "fail"
  BY DEF Reports
<1>1. Speaks(told, r, b) /\ told.ratio = say.ratio /\ SpeaksOn(say, told, r)
  <2>1. CASE op.step = Reading /\ a = <<0, FALSE>> /\ b = a
    BY <2>1, ToldReading DEF Unsaid
  <2>2. CASE op.step = Sounding /\ b = <<a[1], TRUE>>
    BY <2>2, ToldSounding
  <2>3. CASE /\ a[1] \in Nat /\ b = <<a[1] + 1, a[2]>> /\ (r.streaming \/ ~a[2])
             /\ op.step = [at |-> "Saying", done |-> b[1], expected |-> Larger(Expected(r), b[1])]
    <3> DEFINE step == op.step
    <3> HIDE DEF step
    <3>1. step = [at |-> "Saying", done |-> b[1], expected |-> Larger(Expected(r), b[1])]
      BY <2>3 DEF step
    <3>2. Speaks(ToldSay(say, step), r, b) /\ ToldSay(say, step).ratio = say.ratio
          /\ SpeaksOn(say, ToldSay(say, step), r)
      BY <2>3, <3>1, ToldSaying
    <3> QED
      BY <3>2 DEF step
  <2> QED
    BY <1>0, <2>1, <2>2, <2>3 DEF SaidTakes
<1> HIDE DEF told
<1>2. AtMost(Spoken(say, e), Spoken(told, e))
  BY <1>1, SpokenOn DEF SpeaksOn
<1>3. Spoken(say, d) \in Part /\ Spoken(say, e) \in Part /\ AtMost(Spoken(say, d), Spoken(say, e))
  BY SpokenGrows
<1>4. Spoken(told, e) \in Part
  BY <1>1, SpokenGrows
<1>5. AtMost(Spoken(say, d), Spoken(told, e))
  BY <1>2, <1>3, <1>4, AtMostAll
<1> QED
  BY <1>1, <1>3, <1>4, <1>5 DEF told

-----------------------------------------------------------------------------
(* What the bar counts of a conversion. *)

\* What is not reported, and the listening, count for nothing.
LEMMA UnheardLeads ==
  ASSUME NEW r, NEW a, NEW x, NEW y
  PROVE  /\ Leads(Hears(r), Work(x), a, a) /\ Leads(Hears(r), Seed(x), a, a)
         /\ Leads(Hears(r), DrawOn(x, y), a, a)
         /\ Leads(Hears(r), Look([at |-> "Listening"]), a, a)
         /\ Leads(Hears(r), Tell([at |-> "Listening"]), a, a)
<1> DEFINE work == [do |-> "work", what |-> x]
           seed == [do |-> "seed", gen |-> x]
           draw == [do |-> "draw", gen |-> x, on |-> y]
           listening == [at |-> "Listening"]
           look == [do |-> "look", step |-> listening]
           tell == [do |-> "tell", step |-> listening]
<1>1. /\ ~Reports(work) /\ ~Reports(seed) /\ ~Reports(draw) /\ Reports(look) /\ Reports(tell)
      /\ look.step.at = "Listening" /\ tell.step.at = "Listening"
  BY DEF Reports
<1> HIDE DEF work, seed, draw, look, tell
<1>2. HeardTakes(r, work, a, a) /\ HeardTakes(r, seed, a, a) /\ HeardTakes(r, draw, a, a)
      /\ HeardTakes(r, look, a, a) /\ HeardTakes(r, tell, a, a)
  BY <1>1 DEF HeardTakes
<1>3. Takes(Hears(r), work, a, a) /\ Takes(Hears(r), seed, a, a) /\ Takes(Hears(r), draw, a, a)
      /\ Takes(Hears(r), look, a, a) /\ Takes(Hears(r), tell, a, a)
  BY <1>2 DEF Takes, Hears
<1>4. /\ Leads(Hears(r), <<work>>, a, a) /\ Leads(Hears(r), <<seed>>, a, a)
      /\ Leads(Hears(r), <<draw>>, a, a) /\ Leads(Hears(r), <<look>>, a, a) /\ Leads(Hears(r), <<tell>>, a, a)
  BY <1>3, OneLeads
<1> QED
  BY <1>4 DEF Work, Seed, DrawOn, Look, Tell, work, seed, draw, look, tell

\* So many of the steps of all windows.
LEMMA DrawingHears ==
  ASSUME NEW r, NEW n \in Nat, n = Len(r.windows) * r.steps, NEW d \in Int, NEW e \in 0..n, d <= e,
         NEW u \in Nat, NEW v \in Nat, u <= v, NEW l
  PROVE  Leads(Hears(r), Look([at |-> "Drawing", done |-> e, total |-> n]), <<d, u, l>>, <<e, v, l>>)
<1> DEFINE step == [at |-> "Drawing", done |-> e, total |-> n]
           op == [do |-> "look", step |-> step]
           a == <<d, u, l>>
           b == <<e, v, l>>
<1>1. /\ Reports(op) /\ op.step = step /\ step = [at |-> "Drawing", done |-> b[1], total |-> Len(r.windows) * r.steps]
      /\ a[1] <= b[1] /\ a[2] <= b[2] /\ b = <<b[1], b[2], a[3]>>
      /\ b[1] \in 0..(Len(r.windows) * r.steps) /\ b[2] \in Nat
  BY DEF Reports
<1> HIDE DEF step, op, a, b
<1>2. HeardTakes(r, op, a, b)
  BY <1>1 DEF HeardTakes
<1>3. Takes(Hears(r), op, a, b)
  BY <1>2 DEF Takes, Hears
<1>4. Leads(Hears(r), <<op>>, a, b)
  BY <1>3, OneLeads
<1> QED
  BY <1>4 DEF Look, op, a, b, step

\* So many of the windows sounded.
LEMMA SoundingHears ==
  ASSUME NEW r, NEW n \in Nat, n = Len(r.windows), NEW d, NEW done \in 0..n, NEW u \in Nat, u <= done,
         NEW v \in Nat, done <= v, NEW k, NEW l \in Nat, l <= done
  PROVE  Leads(Hears(r), Look([at |-> "Sounding", done |-> done, total |-> n]), <<d, u, k>>, <<d, v, l>>)
<1> DEFINE step == [at |-> "Sounding", done |-> done, total |-> n]
           op == [do |-> "look", step |-> step]
           a == <<d, u, k>>
           b == <<d, v, l>>
<1>1. /\ Reports(op) /\ op.step = step /\ step = [at |-> "Sounding", done |-> done, total |-> Len(r.windows)]
      /\ b = <<a[1], b[2], b[3]>> /\ b[2] \in Nat /\ b[3] \in Nat /\ b[3] <= done /\ done <= b[2]
      /\ done \in a[2]..Len(r.windows)
  BY DEF Reports
<1> HIDE DEF step, op, a, b
<1>2. HeardTakes(r, op, a, b)
  BY <1>1 DEF HeardTakes
<1>3. Takes(Hears(r), op, a, b)
  BY <1>2 DEF Takes, Hears
<1>4. Leads(Hears(r), <<op>>, a, b)
  BY <1>3, OneLeads
<1> QED
  BY <1>4 DEF Look, op, a, b, step

\* The steps drawn once a window is done with: one that is silence draws none of its own.
DrawnBy(r, i) == IF i = 0 THEN 0 ELSE IF r.windows[i] = "silent" THEN (i - 1) * r.steps ELSE i * r.steps

\* So many windows' steps are no more than all of theirs.
LEMMA StepsInAll ==
  ASSUME NEW n \in Nat, NEW m \in Nat, NEW i \in 0..n, NEW all, all = n * m
  PROVE  all \in Nat /\ i * m \in 0..all
<1>1. i \in Int /\ n \in Int /\ i <= n /\ i \in Nat
  OBVIOUS
<1>2. i * m <= n * m
  BY <1>1, MulLe
<1>3. i * m \in Nat /\ n * m \in Nat
  BY <1>1
<1> QED
  BY <1>2, <1>3

\* A window: silence is passed over, and anything else is drawn and sounded.
LEMMA WindowHears ==
  ASSUME NEW r, AsksToConvert(r), NEW i \in 1..Len(r.windows)
  PROVE  Leads(Hears(r), Window(r, i), <<DrawnBy(r, i - 1), i - 1, 0>>, <<DrawnBy(r, i), i, 0>>)
<1> DEFINE n == Len(r.windows)
           m == r.steps
           all == n * m
           j == i - 1
           p == j * m
           q == i * m
           d == DrawnBy(r, j)
           on == <<"noise", i>>
           before == Look([at |-> "Drawing", done |-> p, total |-> all])
           after == Look([at |-> "Drawing", done |-> q, total |-> all])
           sounding == Look([at |-> "Sounding", done |-> j, total |-> n])
           first == before \o Work("listen")
           rest == Work("flow") \o after \o sounding \o Work("sound") \o DrawOn("device", on)
<1>0. n \in Nat /\ m \in Nat /\ i \in 1..n /\ i \in Nat /\ j \in 0..n /\ j \in Nat /\ i \in 0..n /\ i = j + 1
  BY LenProperties DEF AsksToConvert
<1>1. Window(r, i) = first \o (IF r.windows[i] = "silent" THEN <<>> ELSE rest)
  BY DEF Window
<1>2. all \in Nat /\ p \in 0..all /\ q \in 0..all /\ q = p + m
  <2>1. all \in Nat /\ p \in 0..all
    <3> HIDE DEF n, m, all, j
    <3>1. j * m \in 0..all /\ all \in Nat
      BY <1>0, StepsInAll DEF all
    <3> QED
      BY <3>1
  <2>2. q \in 0..all
    <3> HIDE DEF n, m, all
    <3>1. i * m \in 0..all
      BY <1>0, StepsInAll DEF all
    <3> QED
      BY <3>1
  <2>3. (j + 1) * m = j * m + m
    BY <1>0
  <2> QED
    BY <1>0, <2>1, <2>2, <2>3
<1>3. d \in Int /\ d <= p
  <2>1. CASE j = 0
    BY <1>0, <2>1 DEF DrawnBy
  <2>2. CASE j # 0
    <3>1. d = (j - 1) * m \/ d = j * m
      BY <2>2 DEF DrawnBy
    <3>2. (j - 1) * m = j * m - m /\ j * m \in Int
      BY <1>0
    <3> QED
      BY <1>0, <3>1, <3>2
  <2> QED
    BY <2>1, <2>2
<1>4. DrawnBy(r, i) = IF r.windows[i] = "silent" THEN p ELSE q
  BY <1>0 DEF DrawnBy
<1>5. n = Len(r.windows) /\ all = Len(r.windows) * r.steps
  OBVIOUS
<1> HIDE DEF n, m, all, j, p, q, d
<1>6. Leads(Hears(r), before, <<d, j, 0>>, <<p, j, 0>>) /\ Leads(Hears(r), before, <<d, j, 0>>, <<p, i, 0>>)
  <2>1. all \in Nat /\ all = Len(r.windows) * r.steps /\ d \in Int /\ p \in 0..all /\ d <= p /\ j \in Nat
        /\ i \in Nat /\ j <= j /\ j <= i
    BY <1>0, <1>2, <1>3, <1>5
  <2> QED
    BY <2>1, DrawingHears
<1>7. Leads(Hears(r), after, <<p, j, 0>>, <<q, j, 0>>)
  <2>1. all \in Nat /\ all = Len(r.windows) * r.steps /\ p \in Int /\ q \in 0..all /\ p <= q /\ j \in Nat
        /\ j <= j
    BY <1>0, <1>2, <1>3, <1>5
  <2> QED
    BY <2>1, DrawingHears
<1>8. Leads(Hears(r), sounding, <<q, j, 0>>, <<q, i, 0>>)
  <2>1. n \in Nat /\ n = Len(r.windows) /\ j \in 0..n /\ j \in Nat /\ j <= j /\ i \in Nat /\ j <= i /\ 0 \in Nat /\ 0 <= j
    BY <1>0, <1>5
  <2> QED
    BY <2>1, SoundingHears
<1> HIDE DEF before, after, sounding, on
<1>9. CASE r.windows[i] = "silent"
  <2> DEFINE b == <<p, i, 0>>
  <2> HIDE DEF b
  <2>1. Leads(Hears(r), Work("listen"), b, b)
    BY UnheardLeads
  <2>2. Leads(Hears(r), first, <<d, j, 0>>, b)
    BY <1>6, <2>1, Joined DEF b
  <2>3. Leads(Hears(r), <<>>, b, b)
    BY NothingLeads
  <2> HIDE DEF first, rest
  <2>4. Leads(Hears(r), Window(r, i), <<d, j, 0>>, b)
    BY <1>1, <1>9, <2>2, <2>3, Joined
  <2> QED
    BY <1>4, <1>9, <2>4 DEF b, d, j
<1>10. CASE r.windows[i] # "silent"
  <2> DEFINE a == <<p, j, 0>>
             b == <<q, j, 0>>
             c == <<q, i, 0>>
  <2> HIDE DEF a, b, c
  <2>1. /\ Leads(Hears(r), Work("listen"), a, a) /\ Leads(Hears(r), Work("flow"), a, a)
        /\ Leads(Hears(r), Work("sound"), c, c) /\ Leads(Hears(r), DrawOn("device", on), c, c)
    BY UnheardLeads
  <2>2. Leads(Hears(r), first, <<d, j, 0>>, a)
    BY <1>6, <2>1, Joined DEF a
  <2>3. Leads(Hears(r), rest, a, c)
    BY <1>7, <1>8, <2>1, Joined DEF a, b, c
  <2> HIDE DEF first, rest
  <2>4. Leads(Hears(r), Window(r, i), <<d, j, 0>>, c)
    BY <1>1, <1>10, <2>2, <2>3, Joined
  <2> QED
    BY <1>4, <1>10, <2>4 DEF c, d, j
<1> QED
  BY <1>9, <1>10

\* All of it: where its last window is not silence, every step is drawn and every window sounded.
LEMMA ConvertHears ==
  ASSUME NEW r, AsksToConvert(r)
  PROVE  Leads(Hears(r), Tell([at |-> "Listening"]) \o Convert(r), <<0, 0, 0>>,
               <<DrawnBy(r, Len(r.windows)), Len(r.windows), Len(r.windows)>>)
<1> DEFINE n == Len(r.windows)
           s == [i \in 1..n |-> Window(r, i)]
           last == Look([at |-> "Sounding", done |-> n, total |-> n])
           listen == Look([at |-> "Listening"])
           o == <<0, 0, 0>>
<1>0. n \in Nat
  BY LenProperties DEF AsksToConvert
<1> PICK A : A = [i \in 0..n |-> <<DrawnBy(r, i), i, 0>>]
  OBVIOUS
<1>1. \A k \in 0..n : A[k] = <<DrawnBy(r, k), k, 0>>
  OBVIOUS
<1>2. ASSUME NEW i \in 1..n PROVE Leads(Hears(r), s[i], A[i - 1], A[i])
  <2> DEFINE k == i - 1
  <2>1. k \in 0..n /\ i \in 0..n
    BY <1>0
  <2>2. Leads(Hears(r), Window(r, i), <<DrawnBy(r, k), k, 0>>, <<DrawnBy(r, i), i, 0>>)
    BY WindowHears
  <2>3. s[i] = Window(r, i)
    OBVIOUS
  <2> HIDE DEF k, s
  <2>4. A[k] = <<DrawnBy(r, k), k, 0>> /\ A[i] = <<DrawnBy(r, i), i, 0>>
    BY <1>1, <2>1
  <2> QED
    BY <2>2, <2>3, <2>4 DEF k
<1>3. s = [i \in 1..n |-> s[i]]
  OBVIOUS
<1>4. Convert(r) = listen \o Work("hear") \o Seed("device") \o FlattenSeq(s) \o last
  BY DEF Convert, Each
<1>5. A[0] = o /\ A[n] = <<DrawnBy(r, n), n, 0>>
  <2>1. 0 \in 0..n /\ n \in 0..n /\ DrawnBy(r, 0) = 0
    BY <1>0 DEF DrawnBy
  <2> QED
    BY <1>1, <2>1
<1> HIDE DEF s
<1>6. Leads(Hears(r), FlattenSeq(s), A[0], A[n])
  BY <1>0, <1>2, <1>3, PartsLead
<1>7. Leads(Hears(r), last, <<DrawnBy(r, n), n, 0>>, <<DrawnBy(r, n), n, n>>)
  <2>1. n = Len(r.windows) /\ n \in 0..n /\ n <= n
    BY <1>0
  <2> HIDE DEF n
  <2> QED
    BY <1>0, <2>1, SoundingHears
<1>8. /\ Leads(Hears(r), listen, o, o) /\ Leads(Hears(r), Tell([at |-> "Listening"]), o, o)
      /\ Leads(Hears(r), Work("hear"), o, o) /\ Leads(Hears(r), Seed("device"), o, o)
  <2> HIDE DEF o
  <2> QED
    BY UnheardLeads
<1> HIDE DEF n, last, listen, o
<1>9. Leads(Hears(r), Convert(r), o, <<DrawnBy(r, n), n, n>>)
  BY <1>4, <1>5, <1>6, <1>7, <1>8, Joined
<1>10. Leads(Hears(r), Tell([at |-> "Listening"]) \o Convert(r), o, <<DrawnBy(r, n), n, n>>)
  BY <1>8, <1>9, Joined
<1> QED
  BY <1>10 DEF n, o

-----------------------------------------------------------------------------
(* What the bar of a conversion comes to. *)

\* So many of as many, and the share they are.
IsCount(c) == c \in Nat \X Nat /\ c[1] <= c[2]
CountGrows(c, d) == d = c \/ c = <<0, 0>> \/ (c[2] = d[2] /\ c[1] <= d[1])
ShareOf(c) == IF c[2] > 0 THEN LesserOf(c, Full) ELSE Nothing

\* The share of a count is the count, where there is one.
LEMMA ShareOfCount ==
  ASSUME NEW c, IsCount(c)
  PROVE  ShareOf(c) \in Part /\ (c[2] > 0 => c \in Part /\ ShareOf(c) = c) /\ c[1] \in Nat /\ c[2] \in Nat
<1> DEFINE x == c[1]
           n == c[2]
<1>0. x \in Nat /\ n \in Nat /\ x <= n /\ c = <<x, n>>
  BY DEF IsCount
<1>1. Full[1] = 1 /\ Full[2] = 1
  BY DEF Full
<1>2. CASE n > 0
  <2>1. c \in Part
    BY <1>0, <1>2 DEF Part
  <2>2. AtMost(c, Full)
    <3>1. x * 1 <= 1 * n
      BY <1>0
    <3> QED
      BY <1>1, <3>1 DEF AtMost
  <2> QED
    BY <1>0, <1>2, <2>1, <2>2 DEF ShareOf, LesserOf
<1>3. CASE ~(n > 0)
  <2>1. Nothing \in Part
    BY DEF Nothing, Part
  <2> QED
    BY <1>0, <1>3, <2>1 DEF ShareOf
<1> QED
  BY <1>2, <1>3

\* And grows with it.
LEMMA ShareOfGrows ==
  ASSUME NEW c, IsCount(c), NEW d, IsCount(d), CountGrows(c, d)
  PROVE  AtMost(ShareOf(c), ShareOf(d))
<1>0. ShareOf(c) \in Part /\ ShareOf(d) \in Part
  BY ShareOfCount
<1>1. CASE d = c
  BY <1>0, <1>1, AtMostSelf
<1>2. CASE ~(c[2] > 0)
  <2>1. ShareOf(c) = Nothing
    BY <1>2 DEF ShareOf
  <2> QED
    BY <1>0, <2>1, NothingLess
<1>3. CASE c[2] > 0 /\ d # c
  <2>1. c # <<0, 0>>
    BY <1>3
  <2>2. c[2] = d[2] /\ c[1] <= d[1] /\ c[1] \in Nat /\ d[1] \in Nat /\ c[2] \in Nat \ {0}
        /\ c = <<c[1], c[2]>> /\ d = <<d[1], d[2]>>
    BY <1>3, <2>1, ShareOfCount DEF CountGrows, IsCount
  <2>3. ShareOf(c) = c /\ ShareOf(d) = d
    BY <1>3, <2>2, ShareOfCount
  <2> DEFINE x == c[1]
             y == d[1]
             n == c[2]
  <2>4. x \in Nat /\ y \in Nat /\ n \in Nat \ {0} /\ x <= y /\ c = <<x, n>> /\ d = <<y, n>>
    BY <2>2
  <2> HIDE DEF x, y, n
  <2>5. AtMost(<<x, n>>, <<y, n>>)
    BY <2>4, MoreOfSame
  <2> QED
    BY <2>3, <2>4, <2>5
<1> QED
  BY <1>1, <1>2, <1>3

\* Of a conversion in the voice's own style.
LEMMA ConvertedIs ==
  ASSUME NEW c, ~c.style
  PROVE  Converted(c) = Plus(Times(Drawing, ShareOf(c.drawn)), Times(Less(Full, Drawing), ShareOf(c.sounded)))
BY DEF Converted, ShareOf

\* The two shares of a conversion without a style.
LEMMA DrawingIsPart == Drawing \in Part /\ Less(Full, Drawing) \in Part /\ Less(Full, Drawing) = <<11, 20>>
<1>1. Less(Full, Drawing) = <<11, 20>>
  BY DEF Less, Full, Drawing
<1> QED
  BY <1>1 DEF Drawing, Part

\* A conversion is further along where either count is.
LEMMA ConvertedGrows ==
  ASSUME NEW c, ~c.style, IsCount(c.drawn), IsCount(c.sounded), NEW d, ~d.style, IsCount(d.drawn),
         IsCount(d.sounded), CountGrows(c.drawn, d.drawn), CountGrows(c.sounded, d.sounded)
  PROVE  Converted(c) \in Part /\ Converted(d) \in Part /\ AtMost(Converted(c), Converted(d))
<1> DEFINE k == Drawing
           l == Less(Full, Drawing)
           p == ShareOf(c.drawn)
           q == ShareOf(d.drawn)
           s == ShareOf(c.sounded)
           t == ShareOf(d.sounded)
<1>1. k \in Part /\ l \in Part
  BY DrawingIsPart
<1>2. p \in Part /\ q \in Part /\ s \in Part /\ t \in Part /\ AtMost(p, q) /\ AtMost(s, t)
  BY ShareOfCount, ShareOfGrows
<1>3. Converted(c) = Plus(Times(k, p), Times(l, s)) /\ Converted(d) = Plus(Times(k, q), Times(l, t))
  BY ConvertedIs
<1> HIDE DEF k, l, p, q, s, t
<1>4. /\ Times(k, p) \in Part /\ Times(k, q) \in Part /\ AtMost(Times(k, p), Times(k, q))
      /\ Times(l, s) \in Part /\ Times(l, t) \in Part /\ AtMost(Times(l, s), Times(l, t))
  BY <1>1, <1>2, TimesGrows
<1> QED
  BY <1>3, <1>4, PlusGrows

\* Every step drawn and every window sounded, it is full.
LEMMA ConvertedFull ==
  ASSUME NEW c, ~c.style, NEW n \in Nat \ {0}, NEW m \in Nat \ {0}, c.drawn = <<n, n>>, c.sounded = <<m, m>>
  PROVE  AtMost(Full, Converted(c))
<1>1. IsCount(c.drawn) /\ IsCount(c.sounded)
  BY DEF IsCount
<1>2. ShareOf(c.drawn) = <<n, n>> /\ ShareOf(c.sounded) = <<m, m>>
  BY <1>1, ShareOfCount
<1>3. Times(Drawing, <<n, n>>) = <<9 * n, 20 * n>> /\ Times(Less(Full, Drawing), <<m, m>>) = <<11 * m, 20 * m>>
  BY DrawingIsPart DEF Times, Drawing
<1> DEFINE x == (9 * n) * (20 * m) + (11 * m) * (20 * n)
           y == (20 * n) * (20 * m)
<1>4. Converted(c) = <<x, y>>
  BY <1>2, <1>3, ConvertedIs DEF Plus
<1>5. x = 400 * (n * m) /\ y = 400 * (n * m) /\ n * m \in Nat
  OBVIOUS
<1> HIDE DEF x, y
<1>6. 1 * y <= x * 1
  BY <1>5
<1>7. Full[1] = 1 /\ Full[2] = 1
  BY DEF Full
<1> QED
  BY <1>4, <1>6, <1>7 DEF AtMost

\* A conversion, field by field.
IsConvert(c) ==
  c = [is |-> "converting", step |-> c.step, style |-> c.style, said |-> c.said, drawn |-> c.drawn,
       sounded |-> c.sounded]

HeardListening(c, step) == [c EXCEPT !.step = step]
HeardDrawing(c, step, x) == [c EXCEPT !.step = step, !.drawn = x]
HeardSounding(c, step, x) == [c EXCEPT !.step = step, !.sounded = x]

\* The fields of a conversion after a listening is told of.
LEMMA HearListening ==
  ASSUME NEW p, NEW s, NEW t, NEW u, NEW v, NEW c,
         c = [is |-> "converting", step |-> p, style |-> s, said |-> t, drawn |-> u,
              sounded |-> v],
         NEW step, NEW told, told = [c EXCEPT !.step = step]
  PROVE  told = [is |-> "converting", step |-> step, style |-> s, said |-> t, drawn |-> u,
                 sounded |-> v]
BY Zenon

\* The same, by their names.
LEMMA HeardListeningIs ==
  ASSUME NEW c, IsConvert(c), NEW step, NEW told, told = HeardListening(c, step)
  PROVE  /\ told.step = step /\ told.style = c.style /\ told.drawn = c.drawn
         /\ told.sounded = c.sounded /\ IsConvert(told)
<1> DEFINE p == c.step
           s == c.style
           t == c.said
           u == c.drawn
           v == c.sounded
<1>1. c = [is |-> "converting", step |-> p, style |-> s, said |-> t, drawn |-> u,
           sounded |-> v]
  BY DEF IsConvert
<1> HIDE DEF p, s, t, u, v
<1>2. told = [is |-> "converting", step |-> step, style |-> s, said |-> t, drawn |-> u,
              sounded |-> v]
  BY <1>1, HearListening, Zenon DEF HeardListening
<1>3. told.step = step /\ told.style = s /\ told.said = t /\ told.drawn = u /\ told.sounded = v
  BY <1>2
<1>4. IsConvert(told)
  BY <1>2, <1>3 DEF IsConvert
<1> QED
  BY <1>3, <1>4, Zenon DEF s, u, v

\* The fields after drawn steps are told of.
LEMMA HearDrawing ==
  ASSUME NEW p, NEW s, NEW t, NEW u, NEW v, NEW c,
         c = [is |-> "converting", step |-> p, style |-> s, said |-> t, drawn |-> u,
              sounded |-> v],
         NEW step, NEW x, NEW told, told = [c EXCEPT !.step = step, !.drawn = x]
  PROVE  told = [is |-> "converting", step |-> step, style |-> s, said |-> t, drawn |-> x,
                 sounded |-> v]
BY Zenon

\* The same, by their names.
LEMMA HeardDrawingIs ==
  ASSUME NEW c, IsConvert(c), NEW step, NEW x, NEW told, told = HeardDrawing(c, step, x)
  PROVE  /\ told.step = step /\ told.style = c.style /\ told.drawn = x
         /\ told.sounded = c.sounded /\ IsConvert(told)
<1> DEFINE p == c.step
           s == c.style
           t == c.said
           u == c.drawn
           v == c.sounded
<1>1. c = [is |-> "converting", step |-> p, style |-> s, said |-> t, drawn |-> u,
           sounded |-> v]
  BY DEF IsConvert
<1> HIDE DEF p, s, t, u, v
<1>2. told = [is |-> "converting", step |-> step, style |-> s, said |-> t, drawn |-> x,
              sounded |-> v]
  BY <1>1, HearDrawing, Zenon DEF HeardDrawing
<1>3. told.step = step /\ told.style = s /\ told.said = t /\ told.drawn = x /\ told.sounded = v
  BY <1>2
<1>4. IsConvert(told)
  BY <1>2, <1>3 DEF IsConvert
<1> QED
  BY <1>3, <1>4, Zenon DEF s, u, v

\* The fields after a sounded window is told of.
LEMMA HearSounding ==
  ASSUME NEW p, NEW s, NEW t, NEW u, NEW v, NEW c,
         c = [is |-> "converting", step |-> p, style |-> s, said |-> t, drawn |-> u,
              sounded |-> v],
         NEW step, NEW x, NEW told, told = [c EXCEPT !.step = step, !.sounded = x]
  PROVE  told = [is |-> "converting", step |-> step, style |-> s, said |-> t, drawn |-> u,
                 sounded |-> x]
BY Zenon

\* The same, by their names.
LEMMA HeardSoundingIs ==
  ASSUME NEW c, IsConvert(c), NEW step, NEW x, NEW told, told = HeardSounding(c, step, x)
  PROVE  /\ told.step = step /\ told.style = c.style /\ told.drawn = c.drawn
         /\ told.sounded = x /\ IsConvert(told)
<1> DEFINE p == c.step
           s == c.style
           t == c.said
           u == c.drawn
           v == c.sounded
<1>1. c = [is |-> "converting", step |-> p, style |-> s, said |-> t, drawn |-> u,
           sounded |-> v]
  BY DEF IsConvert
<1> HIDE DEF p, s, t, u, v
<1>2. told = [is |-> "converting", step |-> step, style |-> s, said |-> t, drawn |-> u,
              sounded |-> x]
  BY <1>1, HearSounding, Zenon DEF HeardSounding
<1>3. told.step = step /\ told.style = s /\ told.said = t /\ told.drawn = u /\ told.sounded = x
  BY <1>2
<1>4. IsConvert(told)
  BY <1>2, <1>3 DEF IsConvert
<1> QED
  BY <1>3, <1>4, Zenon DEF s, u, v

\* What a conversion is told to be.
Hearing(c, r, a) ==
  /\ IsConvert(c) /\ ~c.style /\ IsCount(c.drawn) /\ IsCount(c.sounded)
  /\ a[1] \in Nat /\ a[2] \in Nat /\ a[3] \in Nat
  /\ \/ c.drawn = <<0, 0>> /\ a[1] = 0
     \/ c.drawn = <<a[1], Len(r.windows) * r.steps>>
  /\ \/ c.sounded = <<0, 0>> /\ a[3] = 0
     \/ c.sounded = <<c.sounded[1], Len(r.windows)>> /\ a[3] <= c.sounded[1] /\ c.sounded[1] <= a[2]

\* A report of a conversion: what the worker is told, and what of it the bar shows.
LEMMA HearStep ==
  ASSUME NEW r, AsksToConvert(r), NEW c, NEW a, Hearing(c, r, a), NEW op, Reports(op), NEW b,
         HeardTakes(r, op, a, b)
  PROVE  /\ Hearing(Heard(c, op.step), r, b)
         /\ Converted(c) \in Part /\ Converted(Heard(c, op.step)) \in Part
         /\ AtMost(Converted(c), Converted(Heard(c, op.step)))
<1> DEFINE told == Heard(c, op.step)
           n == Len(r.windows)
           all == n * r.steps
           step == op.step
<1>0. op.do # "fail"
  BY DEF Reports
<1>1. IsConvert(c) /\ ~c.style /\ IsCount(c.drawn) /\ IsCount(c.sounded)
  BY DEF Hearing
<1>2. n \in Nat /\ all \in Nat
  <2>1. n \in Nat /\ r.steps \in Nat
    BY LenProperties DEF AsksToConvert
  <2> QED
    BY <2>1
<1>3. Hearing(told, r, b) /\ CountGrows(c.drawn, told.drawn) /\ CountGrows(c.sounded, told.sounded)
  <2>1. CASE op.step.at = "Listening" /\ b = a
    <3>1. told = HeardListening(c, step)
      BY <2>1 DEF Heard, HeardListening
    <3> HIDE DEF told, step
    <3>2. told.style = c.style /\ told.drawn = c.drawn /\ told.sounded = c.sounded /\ IsConvert(told)
      BY <1>1, <3>1, HeardListeningIs
    <3> QED
      BY <2>1, <3>2 DEF Hearing, CountGrows
  <2>2. CASE /\ op.step = [at |-> "Drawing", done |-> b[1], total |-> Len(r.windows) * r.steps]
             /\ a[1] <= b[1] /\ a[2] <= b[2] /\ b = <<b[1], b[2], a[3]>>
             /\ b[1] \in 0..(Len(r.windows) * r.steps) /\ b[2] \in Nat
    <3> DEFINE x == <<b[1], all>>
    <3>1. step.at = "Drawing" /\ step.done = b[1] /\ step.total = all
      BY <2>2
    <3>2. told = HeardDrawing(c, step, x)
      BY <3>1 DEF Heard, HeardDrawing
    <3>3. b[1] \in 0..all /\ b[3] = a[3] /\ a[1] <= b[1] /\ a[2] <= b[2] /\ b[2] \in Nat
      BY <2>2
    <3> HIDE DEF told, step, x
    <3>4. told.style = c.style /\ told.drawn = x /\ told.sounded = c.sounded /\ IsConvert(told)
      BY <1>1, <3>2, HeardDrawingIs
    <3>5. CountGrows(c.drawn, x) /\ IsCount(x)
      <4>1. c.drawn = <<0, 0>> \/ c.drawn = <<a[1], all>>
        BY DEF Hearing
      <4> HIDE DEF all, n
      <4> QED
        BY <1>2, <3>3, <4>1 DEF x, CountGrows, IsCount
    <3>6. /\ a[1] \in Nat /\ a[2] \in Nat /\ a[3] \in Nat
          /\ \/ c.sounded = <<0, 0>> /\ a[3] = 0
             \/ c.sounded = <<c.sounded[1], n>> /\ a[3] <= c.sounded[1] /\ c.sounded[1] <= a[2]
      BY DEF Hearing
    <3>7. c.sounded[1] \in Nat
      BY <1>1, ShareOfCount
    <3>8. \/ c.sounded = <<0, 0>> /\ b[3] = 0
          \/ c.sounded = <<c.sounded[1], n>> /\ b[3] <= c.sounded[1] /\ c.sounded[1] <= b[2]
      BY <3>3, <3>6, <3>7
    <3>9. Hearing(told, r, b)
      BY <1>1, <3>3, <3>4, <3>5, <3>6, <3>8 DEF Hearing, x
    <3> QED
      BY <3>4, <3>5, <3>9 DEF CountGrows
  <2>3. ASSUME NEW done \in a[2]..Len(r.windows),
               /\ op.step = [at |-> "Sounding", done |-> done, total |-> Len(r.windows)]
               /\ b = <<a[1], b[2], b[3]>> /\ b[2] \in Nat /\ b[3] \in Nat /\ b[3] <= done /\ done <= b[2]
        PROVE  Hearing(told, r, b) /\ CountGrows(c.drawn, told.drawn) /\ CountGrows(c.sounded, told.sounded)
    <3> DEFINE x == <<done, n>>
    <3>1. step.at = "Sounding" /\ step.done = done /\ step.total = n
      BY <2>3
    <3>2. told = HeardSounding(c, step, x)
      BY <3>1 DEF Heard, HeardSounding
    <3>3. /\ a[1] \in Nat /\ a[2] \in Nat /\ a[3] \in Nat
          /\ \/ c.sounded = <<0, 0>> /\ a[3] = 0
             \/ c.sounded = <<c.sounded[1], n>> /\ a[3] <= c.sounded[1] /\ c.sounded[1] <= a[2]
          /\ (c.drawn = <<0, 0>> /\ a[1] = 0) \/ c.drawn = <<a[1], all>>
      BY DEF Hearing
    <3>4. b[1] = a[1] /\ b[2] \in Nat /\ b[3] \in Nat /\ b[3] <= done /\ done <= b[2]
      BY <2>3
    <3>5. done \in Nat /\ done <= n /\ a[2] <= done
      BY <1>2, <3>3
    <3> HIDE DEF told, step, x, n, all
    <3>6. told.style = c.style /\ told.drawn = c.drawn /\ told.sounded = x /\ IsConvert(told)
      BY <1>1, <3>2, HeardSoundingIs
    <3>7. x[1] = done /\ x[2] = n /\ x = <<x[1], n>> /\ IsCount(x)
      BY <1>2, <3>5 DEF x, IsCount
    <3>8. CountGrows(c.sounded, x)
      <4>1. c.sounded[1] \in Nat
        BY <1>1, ShareOfCount
      <4>2. CASE c.sounded = <<0, 0>>
        BY <4>2 DEF CountGrows
      <4>3. CASE c.sounded = <<c.sounded[1], n>> /\ c.sounded[1] <= a[2]
        <5>1. c.sounded[2] = n /\ c.sounded[1] <= done
          BY <3>3, <3>5, <4>1, <4>3
        <5> QED
          BY <3>7, <5>1 DEF CountGrows
      <4> QED
        BY <3>3, <4>2, <4>3
    <3>9. Hearing(told, r, b)
      BY <1>1, <3>3, <3>4, <3>6, <3>7 DEF Hearing, n, all
    <3> QED
      BY <3>6, <3>8, <3>9 DEF CountGrows
  <2> QED
    BY <1>0, <2>1, <2>2, <2>3 DEF HeardTakes
<1> HIDE DEF told
<1>4. ~told.style /\ IsCount(told.drawn) /\ IsCount(told.sounded)
  BY <1>3 DEF Hearing
<1>5. Converted(c) \in Part /\ Converted(told) \in Part /\ AtMost(Converted(c), Converted(told))
  BY <1>1, <1>3, <1>4, ConvertedGrows
<1> QED
  BY <1>3, <1>5 DEF told

-----------------------------------------------------------------------------
(* The bar. *)

\* What a picture, and layers, are told to be.
IsPicture(d, r) == d = [is |-> "drawing", step |-> d.step, steps |-> r.steps]
AreLayers(d, r) == d = [is |-> "layering", step |-> d.step, steps |-> r.steps, dsteps |-> r.dsteps]
IsWalk(d, r) == (r.kind = "draw" /\ IsPicture(d, r)) \/ (r.kind = "layers" /\ AreLayers(d, r))
WalkTold(d, step) == [d EXCEPT !.step = step]

\* The fields of a picture after a report of it.
LEMMA PictureTold ==
  ASSUME NEW p, NEW n, NEW d, d = [is |-> "drawing", step |-> p, steps |-> n],
         NEW step, NEW told, told = [d EXCEPT !.step = step]
  PROVE  told = [is |-> "drawing", step |-> step, steps |-> n]
BY Zenon

\* The fields of layers after a report of them.
LEMMA LayersTold ==
  ASSUME NEW p, NEW n, NEW m, NEW d, d = [is |-> "layering", step |-> p, steps |-> n, dsteps |-> m],
         NEW step, NEW told, told = [d EXCEPT !.step = step]
  PROVE  told = [is |-> "layering", step |-> step, steps |-> n, dsteps |-> m]
BY Zenon

\* What a report makes of them, and what the bar shows of it.
LEMMA WalkIsTold ==
  ASSUME NEW r, NEW d, IsWalk(d, r), NEW step, NEW told, told = Told(d, step), NEW e
  PROVE  /\ IsWalk(told, r) /\ told.step = step /\ told.is # "speaking"
         /\ Fraction(told, e) = Shown(r, step)
<1>1. CASE r.kind = "draw" /\ IsPicture(d, r)
  <2>1. d.is = "drawing"
    BY <1>1 DEF IsPicture
  <2>2. told = WalkTold(d, step)
    BY <2>1 DEF Told, WalkTold
  <2>3. told = [is |-> "drawing", step |-> step, steps |-> r.steps]
    <3> DEFINE p == d.step
               n == r.steps
    <3>1. d = [is |-> "drawing", step |-> p, steps |-> n] /\ told = [d EXCEPT !.step = step]
      BY <1>1, <2>2, Zenon DEF IsPicture, WalkTold
    <3> HIDE DEF p, n
    <3>2. told = [is |-> "drawing", step |-> step, steps |-> n]
      BY <3>1, PictureTold
    <3> QED
      BY <3>2 DEF n
  <2>4. told.step = step /\ told.is = "drawing" /\ told.steps = r.steps
    BY <2>3
  <2>5. IsWalk(told, r)
    BY <1>1, <2>3, <2>4, Zenon DEF IsWalk, IsPicture
  <2>6. Fraction(told, e) = Drawn(told.step, told.steps)
    BY <2>4 DEF Fraction
  <2> QED
    BY <1>1, <2>4, <2>5, <2>6 DEF Shown
<1>2. CASE r.kind = "layers" /\ AreLayers(d, r)
  <2>1. d.is = "layering"
    BY <1>2 DEF AreLayers
  <2>2. told = WalkTold(d, step)
    BY <2>1 DEF Told, WalkTold
  <2>3. told = [is |-> "layering", step |-> step, steps |-> r.steps, dsteps |-> r.dsteps]
    <3> DEFINE p == d.step
               n == r.steps
               m == r.dsteps
    <3>1. /\ d = [is |-> "layering", step |-> p, steps |-> n, dsteps |-> m]
          /\ told = [d EXCEPT !.step = step]
      BY <1>2, <2>2, Zenon DEF AreLayers, WalkTold
    <3> HIDE DEF p, n, m
    <3>2. told = [is |-> "layering", step |-> step, steps |-> n, dsteps |-> m]
      BY <3>1, LayersTold
    <3> QED
      BY <3>2 DEF n, m
  <2>4. told.step = step /\ told.is = "layering" /\ told.steps = r.steps /\ told.dsteps = r.dsteps
    BY <2>3
  <2>5. IsWalk(told, r)
    BY <1>2, <2>3, <2>4, Zenon DEF IsWalk, AreLayers
  <2>6. Fraction(told, e) = Layered(told.step, told.steps, told.dsteps)
    BY <2>4 DEF Fraction
  <2> QED
    BY <1>2, <2>4, <2>5, <2>6 DEF Shown
<1> QED
  BY <1>1, <1>2 DEF IsWalk

-----------------------------------------------------------------------------

\* What is counted of a request for the bar, where a conversion ends, and what the bar shows once so
\* much has been counted.
Measure(r) ==
  CASE r.kind \in {"draw", "layers"} -> Shows(r)
    [] r.kind = "speak"   -> SaysOf(r)
    [] r.kind = "convert" -> Hears(r)
HearsAll(r, z) ==
  r.kind = "convert" => z = <<DrawnBy(r, Len(r.windows)), Len(r.windows), Len(r.windows)>>

ShownTo(a) == a \in Part /\ AtMost(bar, a) /\ IsWalk(doing, request)
SaidTo(a)  == Speaks(doing, request, a) /\ bar = Spoken(doing, <<clock, Ticks>>)
HeardTo(a) == Hearing(doing, request, a) /\ (bar = Converted(doing) \/ (a = <<0, 0, 0>> /\ bar = Nothing))
BarAt(a) ==
  /\ request.kind \in {"draw", "layers"} => ShownTo(a)
  /\ request.kind = "speak" => SaidTo(a)
  /\ request.kind = "convert" => HeardTo(a)

\* What is left of a run takes the bar on from where it is.
BarGoesOn ==
  answer = "running" =>
    IF Refused(request) THEN todo = Fail
    ELSE \E a, z : Leads(Measure(request), todo, a, z) /\ HearsAll(request, z) /\ BarAt(a)

EndsFull ==
  answer = "done" /\ request.kind = "convert" =>
    \/ request.windows = <<>> \/ Last(request.windows) = "silent"
    \/ AtMost(Full, bar)

BarInv ==
  /\ bar \in Part /\ clock \in 0..Ticks /\ IsRatio(ratio)
  /\ answer = "none" => bar = Nothing
  /\ BarGoesOn /\ EndsFull

\* The time of a vocoder is a share of how long it should take, and only grows.
LEMMA TimeIsPart ==
  ASSUME NEW x \in 0..Ticks, NEW y \in 0..Ticks, x <= y
  PROVE  <<x, Ticks>> \in Part /\ <<y, Ticks>> \in Part /\ AtMost(<<x, Ticks>>, <<y, Ticks>>)
<1>1. Ticks \in Nat \ {0} /\ x \in Nat /\ y \in Nat
  BY ReportsAssumption
<1> QED
  BY <1>1, MoreOfSame

\* What each kind of request is.
LEMMA KindsOf ==
  ASSUME NEW r \in Requests
  PROVE  /\ r.kind \in {"draw", "layers", "speak", "convert"}
         /\ r.kind = "draw" => AsksToDraw(r)
         /\ r.kind = "layers" => AsksForLayers(r)
         /\ r.kind = "speak" => AsksToSpeak(r)
         /\ r.kind = "convert" => AsksToConvert(r)
BY ReportsAssumption DEF AsksToDraw, AsksForLayers, AsksToSpeak, AsksToConvert

\* A report of a picture, or of layers.
LEMMA WalkReports ==
  ASSUME request \in Requests, request.kind \in {"draw", "layers"}, request' = request,
         bar \in Part, clock \in 0..Ticks, NEW a, ShownTo(a), NEW op, Reports(op), NEW b,
         ShownTakes(request, op, a, b), TellOf(op.step)
  PROVE  /\ ShownTo(b)' /\ bar' \in Part /\ clock' \in 0..Ticks
         /\ AtMost(bar, bar') \/ FallsBack
<1> DEFINE step == op.step
<1>1. /\ doing' = Told(doing, step) /\ bar' = Fraction(doing', <<clock', Ticks>>)
      /\ IF doing'.is = "speaking" /\ doing.sounding THEN clock' \in clock..Ticks ELSE clock' = clock
  BY DEF TellOf
<1>2. /\ IsWalk(doing', request) /\ doing'.step = step /\ doing'.is # "speaking"
      /\ bar' = Shown(request, step)
  BY <1>1, WalkIsTold DEF ShownTo
<1>3. /\ a \in Part /\ b \in Part /\ Shown(request, step) \in Part /\ AtMost(Shown(request, step), b)
      /\ AtMost(a, Shown(request, step)) \/ (WalksMore(request) /\ step.at = "Decoding")
  BY DEF ShownTakes, Reports
<1>4. ShownTo(b)' /\ bar' \in Part /\ clock' \in 0..Ticks
  BY <1>1, <1>2, <1>3 DEF ShownTo
<1>5. CASE AtMost(a, Shown(request, step))
  <2>1. AtMost(bar, a)
    BY DEF ShownTo
  <2>2. AtMost(bar, Shown(request, step))
    BY <1>3, <1>5, <2>1, AtMostAll
  <2> QED
    BY <1>2, <1>4, <2>2
<1>6. CASE WalksMore(request) /\ step.at = "Decoding"
  BY <1>2, <1>4, <1>6 DEF WalksMore, FallsBack
<1> QED
  BY <1>3, <1>5, <1>6

\* A report of a reading.
LEMMA SpeechReports ==
  ASSUME request \in Requests, request.kind = "speak", request' = request,
         clock \in 0..Ticks, NEW a, SaidTo(a), NEW op, Reports(op), NEW b,
         SaidTakes(request, op, a, b), TellOf(op.step)
  PROVE  SaidTo(b)' /\ bar \in Part /\ bar' \in Part /\ clock' \in 0..Ticks /\ AtMost(bar, bar')
<1> DEFINE step == op.step
           told == ToldSay(doing, step)
           d == <<clock, Ticks>>
<1>0. Speaks(doing, request, a) /\ bar = Spoken(doing, d)
  BY DEF SaidTo
<1>1. doing.is = "speaking"
  <2>1. IsSay(doing)
    BY <1>0 DEF Speaks
  <2> QED
    BY <2>1 DEF IsSay
<1>2. doing' = told
  BY <1>1 DEF TellOf, Told
<1>3. clock' \in clock..Ticks /\ clock' \in 0..Ticks /\ clock <= clock'
  <2>1. clock' \in clock..Ticks \/ clock' = clock
    BY DEF TellOf
  <2>2. Ticks \in Nat
    BY ReportsAssumption
  <2> QED
    BY <2>1, <2>2
<1>4. PICK e : e = <<clock', Ticks>>
  OBVIOUS
<1>5. d \in Part /\ e \in Part /\ AtMost(d, e)
  BY <1>3, <1>4, TimeIsPart
<1>6. Expected(request) \in Nat
  BY KindsOf, NotesAreCounted
<1>7. /\ Speaks(told, request, b) /\ Spoken(doing, d) \in Part /\ Spoken(told, e) \in Part
      /\ AtMost(Spoken(doing, d), Spoken(told, e))
  BY <1>0, <1>5, <1>6, SpeakStep
<1>8. told.is = "speaking"
  <2>1. IsSay(told)
    BY <1>7 DEF Speaks
  <2> HIDE DEF told
  <2> QED
    BY <2>1 DEF IsSay
<1>9. bar' = Spoken(told, e)
  <2>1. bar' = Fraction(doing', e)
    BY <1>4 DEF TellOf
  <2> HIDE DEF told
  <2> QED
    BY <1>2, <1>8, <2>1 DEF Fraction
<1>10. SaidTo(b)'
  <2>1. Speaks(doing', request', b) /\ bar' = Spoken(doing', <<clock', Ticks>>)
    BY <1>2, <1>4, <1>7, <1>9
  <2> QED
    BY <2>1 DEF SaidTo
<1> QED
  BY <1>0, <1>3, <1>7, <1>9, <1>10

\* A report of a conversion.
LEMMA ConvertReports ==
  ASSUME request \in Requests, request.kind = "convert", request' = request,
         clock \in 0..Ticks, NEW a, HeardTo(a), NEW op, Reports(op), NEW b,
         HeardTakes(request, op, a, b), TellOf(op.step)
  PROVE  HeardTo(b)' /\ bar' \in Part /\ clock' \in 0..Ticks /\ AtMost(bar, bar')
<1> DEFINE step == op.step
           told == Heard(doing, step)
<1>0. Hearing(doing, request, a) /\ (bar = Converted(doing) \/ bar = Nothing)
  BY DEF HeardTo
<1>1. doing.is = "converting"
  <2>1. IsConvert(doing)
    BY <1>0 DEF Hearing
  <2> QED
    BY <2>1 DEF IsConvert
<1>2. doing' = told
  BY <1>1 DEF TellOf, Told
<1>3. AsksToConvert(request)
  BY KindsOf
<1>4. /\ Hearing(told, request, b) /\ Converted(doing) \in Part /\ Converted(told) \in Part
      /\ AtMost(Converted(doing), Converted(told))
  BY <1>0, <1>3, HearStep
<1>5. told.is = "converting"
  <2>1. IsConvert(told)
    BY <1>4 DEF Hearing
  <2> HIDE DEF told
  <2> QED
    BY <2>1 DEF IsConvert
<1> HIDE DEF told
<1>6. bar' = Converted(told) /\ clock' = clock
  BY <1>2, <1>5 DEF TellOf, Fraction
<1>7. AtMost(bar, bar')
  BY <1>0, <1>4, <1>6, NothingLess
<1>8. HeardTo(b)'
  <2>1. Hearing(doing', request', b) /\ bar' = Converted(doing')
    BY <1>2, <1>4, <1>6
  <2> QED
    BY <2>1 DEF HeardTo
<1> QED
  BY <1>4, <1>6, <1>7, <1>8

\* A report, whatever is asked.
LEMMA BarReports ==
  ASSUME request \in Requests, request' = request, bar \in Part, clock \in 0..Ticks,
         NEW a, BarAt(a), NEW op, Reports(op), NEW b, Takes(Measure(request), op, a, b), TellOf(op.step)
  PROVE  /\ BarAt(b)' /\ bar' \in Part /\ clock' \in 0..Ticks
         /\ AtMost(bar, bar') \/ FallsBack
<1>1. CASE request.kind \in {"draw", "layers"}
  <2>1. ShownTo(a) /\ ShownTakes(request, op, a, b)
    <3>1. Measure(request) = Shows(request)
      BY <1>1 DEF Measure
    <3> QED
      BY <1>1, <3>1 DEF Takes, Shows, BarAt
  <2>2. /\ ShownTo(b)' /\ bar' \in Part /\ clock' \in 0..Ticks
        /\ AtMost(bar, bar') \/ FallsBack
    BY <1>1, <2>1, WalkReports
  <2>3. BarAt(b)'
    BY <1>1, <2>2 DEF BarAt
  <2> QED
    BY <2>2, <2>3
<1>2. CASE request.kind = "speak"
  <2>1. SaidTo(a) /\ SaidTakes(request, op, a, b)
    <3>1. Measure(request) = SaysOf(request)
      BY <1>2 DEF Measure
    <3> QED
      BY <1>2, <3>1 DEF Takes, SaysOf, BarAt
  <2>2. SaidTo(b)' /\ bar' \in Part /\ clock' \in 0..Ticks /\ AtMost(bar, bar')
    BY <1>2, <2>1, SpeechReports
  <2>3. BarAt(b)'
    BY <1>2, <2>2 DEF BarAt
  <2> QED
    BY <2>2, <2>3
<1>3. CASE request.kind = "convert"
  <2>1. HeardTo(a) /\ HeardTakes(request, op, a, b)
    <3>1. Measure(request) = Hears(request)
      BY <1>3 DEF Measure
    <3> QED
      BY <1>3, <3>1 DEF Takes, Hears, BarAt
  <2>2. HeardTo(b)' /\ bar' \in Part /\ clock' \in 0..Ticks /\ AtMost(bar, bar')
    BY <1>3, <2>1, ConvertReports
  <2>3. BarAt(b)'
    BY <1>3, <2>2 DEF BarAt
  <2> QED
    BY <2>2, <2>3
<1> QED
  BY <1>1, <1>2, <1>3, KindsOf

\* What is no report counts for no more than the bar may still come to.
LEMMA BarPasses ==
  ASSUME request \in Requests, request' = request, report' = report, bar \in Part,
         NEW a, BarAt(a), NEW op, ~Reports(op), op.do # "fail", NEW b, Takes(Measure(request), op, a, b)
  PROVE  BarAt(b)'
<1>0. bar' = bar /\ doing' = doing /\ clock' = clock
  BY DEF report
<1>1. CASE request.kind \in {"draw", "layers"}
  <2>1. ShownTo(a) /\ ShownTakes(request, op, a, b)
    <3>1. Measure(request) = Shows(request)
      BY <1>1 DEF Measure
    <3> QED
      BY <1>1, <3>1 DEF Takes, Shows, BarAt
  <2>2. a \in Part /\ b \in Part /\ AtMost(bar, a) /\ AtMost(a, b)
    BY <2>1 DEF ShownTo, ShownTakes
  <2>3. AtMost(bar, b)
    BY <2>2, AtMostAll
  <2>4. ShownTo(b)'
    BY <1>0, <2>1, <2>2, <2>3 DEF ShownTo
  <2> QED
    BY <1>1, <2>4 DEF BarAt
<1>2. CASE request.kind = "speak"
  <2>1. SaidTo(a) /\ SaidTakes(request, op, a, b)
    <3>1. Measure(request) = SaysOf(request)
      BY <1>2 DEF Measure
    <3> QED
      BY <1>2, <3>1 DEF Takes, SaysOf, BarAt
  <2>2. b = a
    BY <2>1 DEF SaidTakes
  <2>3. SaidTo(b)'
    BY <1>0, <2>1, <2>2 DEF SaidTo
  <2> QED
    BY <1>2, <2>3 DEF BarAt
<1>3. CASE request.kind = "convert"
  <2>1. HeardTo(a) /\ HeardTakes(request, op, a, b)
    <3>1. Measure(request) = Hears(request)
      BY <1>3 DEF Measure
    <3> QED
      BY <1>3, <3>1 DEF Takes, Hears, BarAt
  <2>2. b = a
    BY <2>1 DEF HeardTakes
  <2>3. HeardTo(b)'
    BY <1>0, <2>1, <2>2 DEF HeardTo
  <2> QED
    BY <1>3, <2>3 DEF BarAt
<1> QED
  BY <1>1, <1>2, <1>3, KindsOf

\* What is refused has nothing before it fails, and nothing it might end with.
LEMMA RefusedFails ==
  ASSUME BarGoesOn, answer = "running", Refused(request)
  PROVE  todo # <<>> /\ Head(todo).do = "fail"
BY DEF BarGoesOn, Fail

\* An entry of a run takes the count for the bar on.
LEMMA BarTakes ==
  ASSUME BarGoesOn, answer = "running", todo # <<>>, Head(todo).do # "fail"
  PROVE  /\ ~Refused(request)
         /\ \E a, b, z : /\ BarAt(a) /\ HearsAll(request, z)
                         /\ Takes(Measure(request), Head(todo), a, b)
                         /\ Leads(Measure(request), Tail(todo), b, z)
<1>1. ~Refused(request)
  BY RefusedFails
<1>2. PICK a, z : Leads(Measure(request), todo, a, z) /\ HearsAll(request, z) /\ BarAt(a)
  BY <1>1 DEF BarGoesOn
<1>3. PICK b : Takes(Measure(request), Head(todo), a, b) /\ Leads(Measure(request), Tail(todo), b, z)
  BY <1>2, FirstTakes
<1> QED
  BY <1>1, <1>2, <1>3

\* The bar goes on from what an entry of the run leads to.
LEMMA BarGone ==
  ASSUME ~Refused(request), request' = request, todo' = Tail(todo), NEW b, NEW z,
         BarAt(b)', HearsAll(request, z), Leads(Measure(request), Tail(todo), b, z)
  PROVE  BarGoesOn'
<1>1. ~Refused(request') /\ Leads(Measure(request'), todo', b, z) /\ HearsAll(request', z)
  OBVIOUS
<1> QED
  BY <1>1 DEF BarGoesOn

\* A conversion whose last window is not silence has the bar full once nothing is left of it.
LEMMA FullOnceHeard ==
  ASSUME request \in Requests, request.kind = "convert", request.windows # <<>>,
         Last(request.windows) # "silent", NEW a, HeardTo(a), HearsAll(request, a)
  PROVE  AtMost(Full, bar)
<1> DEFINE n == Len(request.windows)
           d == DrawnBy(request, n)
           all == n * request.steps
<1>1. request.windows \in Seq({"said", "silent"}) /\ request.steps \in Nat \ {0}
  BY KindsOf DEF AsksToConvert
<1>2. n \in Nat \ {0}
  BY <1>1, LenProperties, EmptySeq
<1>3. all \in Nat \ {0}
  BY <1>1, <1>2
<1>4. d = all
  <2>1. Last(request.windows) = request.windows[n]
    BY DEF Last
  <2> QED
    BY <1>2, <2>1 DEF DrawnBy
<1>5. a = <<d, n, n>>
  BY DEF HearsAll
<1> HIDE DEF n, d, all
<1>6. a[1] = all /\ a[2] = n /\ a[3] = n /\ a # <<0, 0, 0>>
  BY <1>2, <1>4, <1>5
<1>7. bar = Converted(doing) /\ ~doing.style /\ IsCount(doing.sounded)
  BY <1>6 DEF HeardTo, Hearing
<1>8. doing.drawn = <<all, all>>
  BY <1>3, <1>6 DEF HeardTo, Hearing, all, n
<1>9. doing.sounded = <<doing.sounded[1], n>> /\ n <= doing.sounded[1] /\ doing.sounded[1] <= n
  BY <1>2, <1>6 DEF HeardTo, Hearing, n
<1>10. doing.sounded = <<n, n>>
  <2>1. doing.sounded[1] = n
    BY <1>2, <1>7, <1>9 DEF IsCount
  <2> QED
    BY <1>9, <2>1
<1> QED
  BY <1>2, <1>3, <1>7, <1>8, <1>10, ConvertedFull

\* Where a run begins, nothing has been counted and the bar shows nothing.
LEMMA PictureBegins ==
  ASSUME NEW r, AsksToDraw(r), ~Refused(r), doing = Doing(r), bar = Nothing, request = r
  PROVE  \E a, z : Leads(Measure(r), Script(r), a, z) /\ HearsAll(r, z) /\ BarAt(a)
<1>1. r.kind = "draw"
  BY DEF AsksToDraw
<1>2. Leads(Shows(r), Tell(Encoding) \o Picture(r), Nothing, AllShown(r))
  BY PictureShows
<1>3. Measure(r) = Shows(r) /\ Script(r) = Tell(Encoding) \o Picture(r)
  BY <1>1 DEF Measure, Script
<1>4. HearsAll(r, AllShown(r))
  BY <1>1 DEF HearsAll
<1>5. IsPicture(doing, r)
  <2>1. doing = [is |-> "drawing", step |-> Encoding, steps |-> r.steps]
    BY <1>1 DEF Doing
  <2>2. doing.step = Encoding
    BY <2>1
  <2> QED
    BY <2>1, <2>2, Zenon DEF IsPicture
<1>6. Nothing \in Part /\ AtMost(Nothing, Nothing)
  BY NothingLess DEF Nothing, Part
<1>7. ShownTo(Nothing)
  BY <1>1, <1>5, <1>6 DEF ShownTo, IsWalk
<1>8. BarAt(Nothing)
  BY <1>1, <1>7 DEF BarAt
<1> QED
  BY <1>2, <1>3, <1>4, <1>8, Zenon

\* The layers of a picture begin the same way.
LEMMA LayersBegin ==
  ASSUME NEW r, AsksForLayers(r), ~Refused(r), doing = Doing(r), bar = Nothing, request = r
  PROVE  \E a, z : Leads(Measure(r), Script(r), a, z) /\ HearsAll(r, z) /\ BarAt(a)
<1>1. r.kind = "layers"
  BY DEF AsksForLayers
<1>2. PICK b \in Part : Leads(Shows(r), Decompose(r), Nothing, b)
  BY DecomposeShows
<1>3. Measure(r) = Shows(r) /\ Script(r) = Decompose(r)
  BY <1>1 DEF Measure, Script
<1>4. HearsAll(r, b)
  BY <1>1 DEF HearsAll
<1>5. AreLayers(doing, r)
  <2>1. doing = [is |-> "layering", step |-> Encoding, steps |-> r.steps, dsteps |-> r.dsteps]
    BY <1>1 DEF Doing
  <2>2. doing.step = Encoding
    BY <2>1
  <2> QED
    BY <2>1, <2>2, Zenon DEF AreLayers
<1>6. Nothing \in Part /\ AtMost(Nothing, Nothing)
  BY NothingLess DEF Nothing, Part
<1>7. ShownTo(Nothing)
  BY <1>1, <1>5, <1>6 DEF ShownTo, IsWalk
<1>8. BarAt(Nothing)
  BY <1>1, <1>7 DEF BarAt
<1> QED
  BY <1>2, <1>3, <1>4, <1>8, Zenon

\* So does a reading, with the ratio the last one measured.
LEMMA SpeechBegins ==
  ASSUME NEW r, AsksToSpeak(r), ~Refused(r), doing = Doing(r), bar = Nothing, request = r, IsRatio(ratio)
  PROVE  \E a, z : Leads(Measure(r), Script(r), a, z) /\ HearsAll(r, z) /\ BarAt(a)
<1>1. r.kind = "speak"
  BY DEF AsksToSpeak
<1>2. PICK z : Leads(SaysOf(r), Tell(Reading) \o Speech(r), Unsaid, z)
  BY SpeechSays
<1>3. Measure(r) = SaysOf(r) /\ Script(r) = Tell(Reading) \o Speech(r)
  BY <1>1 DEF Measure, Script
<1>4. HearsAll(r, z)
  BY <1>1 DEF HearsAll
<1>5. doing = [is |-> "speaking", step |-> Reading, expected |-> 0, sounding |-> FALSE,
               ratio |-> ratio, streaming |-> r.streaming, said |-> 0]
  BY <1>1, Zenon DEF Doing, NewSay, Reading
<1>6. /\ doing.step = Reading /\ doing.expected = 0 /\ doing.sounding = FALSE /\ doing.ratio = ratio
      /\ doing.streaming = r.streaming /\ doing.said = 0
  BY <1>5, SMT
<1>7. IsSay(doing)
  BY <1>5, <1>6, Zenon DEF IsSay
<1>8. Unsaid = <<doing.said, doing.sounding>>
  BY <1>6, Zenon DEF Unsaid
<1>9. Speaks(doing, r, Unsaid)
  <2>1. doing.sounding \in BOOLEAN /\ ~doing.sounding
    BY <1>6, Zenon
  <2>2. doing.said \in Nat
    BY <1>6
  <2> QED
    BY <1>6, <1>7, <1>8, <2>1, <2>2, Zenon DEF Speaks
<1>10. bar = Spoken(doing, <<clock, Ticks>>)
  <2>1. doing.step.at = "Reading"
    BY <1>6 DEF Reading
  <2> QED
    BY <2>1 DEF Spoken
<1>11. BarAt(Unsaid)
  BY <1>1, <1>9, <1>10, Zenon DEF BarAt, SaidTo
<1> QED
  BY <1>2, <1>3, <1>4, <1>11, Zenon

\* So does a conversion that is not refused.
LEMMA ConvertBegins ==
  ASSUME NEW r, AsksToConvert(r), ~Refused(r), doing = Doing(r), bar = Nothing, request = r
  PROVE  \E a, z : Leads(Measure(r), Script(r), a, z) /\ HearsAll(r, z) /\ BarAt(a)
<1>1. r.kind = "convert" /\ ~r.style
  BY DEF AsksToConvert, Refused
<1> DEFINE o == <<0, 0, 0>>
           z == <<DrawnBy(r, Len(r.windows)), Len(r.windows), Len(r.windows)>>
<1>2. Leads(Hears(r), Tell([at |-> "Listening"]) \o Convert(r), o, z)
  BY ConvertHears
<1>3. Measure(r) = Hears(r) /\ Script(r) = Tell([at |-> "Listening"]) \o Convert(r)
  BY <1>1 DEF Measure, Script
<1>4. HearsAll(r, z)
  BY <1>1 DEF HearsAll
<1>5. doing = [is |-> "converting", step |-> [at |-> "Listening"], style |-> r.style,
               said |-> <<0, 0>>, drawn |-> <<0, 0>>, sounded |-> <<0, 0>>]
  BY <1>1, Zenon DEF Doing, NewConvert
<1>6. /\ doing.step = [at |-> "Listening"] /\ doing.style = r.style /\ doing.said = <<0, 0>>
      /\ doing.drawn = <<0, 0>> /\ doing.sounded = <<0, 0>>
  BY <1>5, SMT
<1>7. IsConvert(doing)
  BY <1>5, <1>6, Zenon DEF IsConvert
<1>8. IsCount(<<0, 0>>) /\ o[1] = 0 /\ o[2] = 0 /\ o[3] = 0
  BY DEF IsCount
<1> HIDE DEF z
<1>9. Hearing(doing, r, o)
  <2>1. o[1] \in Nat /\ o[2] \in Nat /\ o[3] \in Nat
    BY <1>8
  <2> HIDE DEF o
  <2> QED
    BY <1>1, <1>6, <1>7, <1>8, <2>1 DEF Hearing
<1>10. BarAt(o)
  BY <1>1, <1>9 DEF BarAt, HeardTo
<1> QED
  BY <1>2, <1>3, <1>4, <1>10, Zenon

\* Any request does.
LEMMA RunBegins ==
  request \in Requests /\ ~Refused(request) /\ doing = Doing(request) /\ bar = Nothing /\ IsRatio(ratio) =>
    \E a, z : Leads(Measure(request), Script(request), a, z) /\ HearsAll(request, z) /\ BarAt(a)
BY KindsOf, PictureBegins, LayersBegin, SpeechBegins, ConvertBegins

\* Nothing is asked at first, and nothing shown.
LEMMA BarInvInit == ReportsInit => BarInv
<1> SUFFICES ASSUME ReportsInit PROVE BarInv
  OBVIOUS
<1>1. bar = Nothing /\ clock = 0 /\ ratio = <<1, 1>> /\ answer = "none"
  BY DEF ReportsInit
<1>2. IsRatio(ratio)
  <2>1. <<1, 1>>[1] = 1 /\ <<1, 1>>[2] = 1 /\ <<1, 1>> \in Nat \X (Nat \ {0})
    OBVIOUS
  <2> QED
    BY <1>1, <2>1 DEF IsRatio
<1>3. bar \in Part
  BY <1>1 DEF Nothing, Part
<1>4. clock \in 0..Ticks
  BY <1>1, ReportsAssumption
<1>5. BarGoesOn /\ EndsFull
  BY <1>1 DEF BarGoesOn, EndsFull
<1> QED
  BY <1>1, <1>2, <1>3, <1>4, <1>5 DEF BarInv

\* What a step may do to the bar while a run is going.
BarMoves == answer = "running" => AtMost(bar, bar') \/ FallsBack

\* What leaves the bar as it is, does not take it back.
LEMMA BarStays ==
  ASSUME BarInv, report' = report
  PROVE  BarMoves /\ bar' = bar /\ clock' = clock /\ bar' \in Part /\ clock' \in 0..Ticks
<1>1. bar' = bar /\ clock' = clock /\ bar \in Part /\ clock \in 0..Ticks
  BY DEF report, BarInv
<1>2. AtMost(bar, bar')
  BY <1>1, AtMostSelf
<1> QED
  BY <1>1, <1>2 DEF BarMoves

\* An entry that reports nothing.
LEMMA UnreportedKeeps ==
  ASSUME ReportsInv, BarInv, answer = "running", todo # <<>>, ~Reports(Head(todo)), Head(todo).do # "fail",
         Goes, request' = request, report' = report, ratio' = ratio
  PROVE  BarInv' /\ BarMoves
<1>1. request \in Requests /\ bar \in Part
  BY DEF ReportsInv, BarInv
<1>2. BarGoesOn /\ IsRatio(ratio)
  BY DEF BarInv
<1>3. PICK a, b, z : /\ BarAt(a) /\ HearsAll(request, z)
                     /\ Takes(Measure(request), Head(todo), a, b)
                     /\ Leads(Measure(request), Tail(todo), b, z)
  BY <1>2, BarTakes
<1>4. BarAt(b)'
  BY <1>1, <1>3, BarPasses
<1>5. ~Refused(request)
  BY <1>2, RefusedFails
<1>6. todo' = Tail(todo) /\ answer' = "running"
  BY DEF Goes
<1>7. BarGoesOn'
  BY <1>3, <1>4, <1>5, <1>6, BarGone
<1>8. EndsFull'
  BY <1>6 DEF EndsFull
<1>9. BarMoves /\ bar' \in Part /\ clock' \in 0..Ticks
  BY BarStays
<1> QED
  BY <1>2, <1>6, <1>7, <1>8, <1>9 DEF BarInv

\* An entry that reports, whether the run goes on or is stopped by it.
LEMMA ReportedKeeps ==
  ASSUME ReportsInv, BarInv, answer = "running", todo # <<>>, Reports(Head(todo)), TellOf(Head(todo).step),
         Goes \/ AnswerEnds("cancelled"), request' = request, ratio' = ratio
  PROVE  BarInv' /\ BarMoves
<1>0. Head(todo).do # "fail"
  BY DEF Reports
<1>1. request \in Requests /\ bar \in Part /\ clock \in 0..Ticks
  BY DEF ReportsInv, BarInv
<1>2. BarGoesOn /\ IsRatio(ratio)
  BY DEF BarInv
<1>3. PICK a, b, z : /\ BarAt(a) /\ HearsAll(request, z)
                     /\ Takes(Measure(request), Head(todo), a, b)
                     /\ Leads(Measure(request), Tail(todo), b, z)
  BY <1>0, <1>2, BarTakes
<1>4. /\ BarAt(b)' /\ bar' \in Part /\ clock' \in 0..Ticks
      /\ AtMost(bar, bar') \/ FallsBack
  BY <1>1, <1>3, BarReports
<1>5. ~Refused(request)
  BY <1>0, <1>2, RefusedFails
<1>6. answer' \in {"running", "cancelled"} /\ (answer' = "running" => todo' = Tail(todo))
  BY DEF Goes, AnswerEnds
<1>7. BarGoesOn'
  <2>1. CASE answer' = "running"
    BY <1>3, <1>4, <1>5, <1>6, <2>1, BarGone
  <2>2. CASE answer' # "running"
    BY <2>2 DEF BarGoesOn
  <2> QED
    BY <2>1, <2>2
<1>8. EndsFull'
  BY <1>6 DEF EndsFull
<1> QED
  BY <1>2, <1>4, <1>6, <1>7, <1>8 DEF BarInv, BarMoves

\* A run that is cut short, with no report.
LEMMA CutShortKeeps ==
  ASSUME BarInv, answer' \in {"cancelled", "failed"}, report' = report, ratio' = ratio
  PROVE  BarInv' /\ BarMoves
<1>1. BarMoves /\ bar' \in Part /\ clock' \in 0..Ticks
  BY BarStays
<1>2. BarGoesOn' /\ EndsFull'
  BY DEF BarGoesOn, EndsFull
<1> QED
  BY <1>1, <1>2 DEF BarInv

\* A request is asked over an empty bar.
LEMMA AskKeepsBar ==
  ASSUME ReportsInv, BarInv, NEW r \in Requests, Ask(r)
  PROVE  BarInv' /\ BarMoves
<1>0. /\ answer = "none" /\ request' = r /\ todo' = Script(r) /\ doing' = Doing(r) /\ answer' = "running"
      /\ bar' = bar /\ clock' = clock /\ ratio' = ratio
  BY DEF Ask
<1>1. bar \in Part /\ clock \in 0..Ticks /\ IsRatio(ratio) /\ bar = Nothing
  BY <1>0 DEF BarInv
<1>2. BarGoesOn'
  <2>1. CASE Refused(r)
    <3>1. Script(r) = Fail
      BY <2>1 DEF Script
    <3> QED
      BY <1>0, <2>1, <3>1 DEF BarGoesOn
  <2>2. CASE ~Refused(r)
    <3>1. (request \in Requests /\ ~Refused(request) /\ doing = Doing(request) /\ bar = Nothing /\ IsRatio(ratio)
            => \E a, z : Leads(Measure(request), Script(request), a, z) /\ HearsAll(request, z) /\ BarAt(a))'
      BY RunBegins, PTL
    <3>2. Doing(request)' = Doing(r)
      BY <1>0 DEF Doing
    <3>3. (\E a, z : Leads(Measure(request), Script(request), a, z) /\ HearsAll(request, z) /\ BarAt(a))'
      BY <1>0, <1>1, <2>2, <3>1, <3>2
    <3>4. PICK a, z : Leads(Measure(r), Script(r), a, z) /\ HearsAll(r, z) /\ BarAt(a)'
      BY <1>0, <3>3
    <3> QED
      BY <1>0, <2>2, <3>4 DEF BarGoesOn
  <2> QED
    BY <2>1, <2>2
<1>3. EndsFull'
  BY <1>0 DEF EndsFull
<1> QED
  BY <1>0, <1>1, <1>2, <1>3 DEF BarInv, BarMoves

\* The bar is emptied once a request is answered.
LEMMA AnsweredKeepsBar ==
  ASSUME BarInv, Answered
  PROVE  BarInv' /\ BarMoves
<1>0. answer # "running" /\ answer' = "none" /\ bar' = Nothing /\ clock' = 0 /\ ratio' = ratio
  BY DEF Answered
<1>1. bar' \in Part /\ clock' \in 0..Ticks
  BY <1>0, ReportsAssumption DEF Nothing, Part
<1>2. BarGoesOn' /\ EndsFull'
  BY <1>0 DEF BarGoesOn, EndsFull
<1> QED
  BY <1>0, <1>1, <1>2 DEF BarInv, BarMoves

\* A bar that stays has come as far as it had.
LEMMA SameBar ==
  ASSUME request' = request, todo' = todo, report' = report, NEW a, BarAt(a)
  PROVE  BarAt(a)'
<1>1. bar' = bar /\ clock' = clock /\ doing' = doing
  BY DEF report
<1> QED
  BY <1>1 DEF BarAt, ShownTo, SaidTo, HeardTo

\* A stop, or a step of something else.
LEMMA StillKeepsBar ==
  ASSUME BarInv, request' = request, todo' = todo, report' = report, ratio' = ratio, answer' = answer
  PROVE  BarInv' /\ BarMoves
<1>1. BarMoves /\ bar' = bar /\ clock' = clock
  BY BarStays
<1>2. BarGoesOn'
  <2> SUFFICES ASSUME answer = "running" PROVE BarGoesOn'
    BY DEF BarGoesOn
  <2>1. CASE Refused(request)
    BY <2>1 DEF BarGoesOn, BarInv
  <2>2. CASE ~Refused(request)
    <3>1. PICK a, z : Leads(Measure(request), todo, a, z) /\ HearsAll(request, z) /\ BarAt(a)
      BY <2>2 DEF BarGoesOn, BarInv
    <3>2. BarAt(a)'
      BY <3>1, SameBar
    <3>3. Leads(Measure(request'), todo', a, z) /\ HearsAll(request', z) /\ ~Refused(request')
      BY <2>2, <3>1
    <3> QED
      BY <3>2, <3>3 DEF BarGoesOn
  <2> QED
    BY <2>1, <2>2
<1>3. EndsFull'
  BY <1>1 DEF EndsFull, BarInv
<1> QED
  BY <1>1, <1>2, <1>3 DEF BarInv

\* A run that has nothing left has counted all that was to be counted.
LEMMA FinishesKeepsBar ==
  ASSUME ReportsInv, BarInv, Finishes
  PROVE  BarInv' /\ BarMoves
<1>0. /\ answer = "running" /\ todo = <<>> /\ answer' = "done" /\ request' = request /\ report' = report
      /\ ratio' \in Ratios \/ ratio' = ratio
  BY DEF Finishes, Idle, AnswerEnds
<1>1. BarMoves /\ bar' = bar /\ bar' \in Part /\ clock' \in 0..Ticks
  BY <1>0, BarStays
<1>2. IsRatio(ratio')
  BY <1>0, ReportsAssumption DEF BarInv
<1>3. BarGoesOn'
  BY <1>0 DEF BarGoesOn
<1>4. EndsFull'
  <2> SUFFICES ASSUME request.kind = "convert", request.windows # <<>>, Last(request.windows) # "silent"
               PROVE  AtMost(Full, bar)
    BY <1>0, <1>1 DEF EndsFull
  <2>1. request \in Requests /\ BarGoesOn
    BY <1>0 DEF ReportsInv, BarInv
  <2>2. ~Refused(request)
    BY <1>0, <2>1, RefusedFails
  <2>3. PICK a, z : Leads(Measure(request), <<>>, a, z) /\ HearsAll(request, z) /\ BarAt(a)
    BY <1>0, <2>1, <2>2 DEF BarGoesOn
  <2>4. a = z
    BY <2>3, NothingLed
  <2>5. HeardTo(a)
    BY <2>3 DEF BarAt
  <2> QED
    BY <2>1, <2>3, <2>4, <2>5, FullOnceHeard
<1> QED
  BY <1>0, <1>1, <1>2, <1>3, <1>4 DEF BarInv

\* Every step keeps it, and takes the bar no further back than it may fall.
LEMMA BarInvKeeps == ReportsInv /\ BarInv /\ [ReportsNext]_reportVars => BarInv' /\ BarMoves
<1> SUFFICES ASSUME ReportsInv, BarInv, [ReportsNext]_reportVars PROVE BarInv' /\ BarMoves
  OBVIOUS
<1>1. CASE Tells
  <2>1. /\ answer = "running" /\ todo # <<>> /\ Head(todo).do = "tell" /\ Goes /\ TellOf(Head(todo).step)
        /\ request' = request /\ ratio' = ratio
    BY <1>1 DEF Tells, Due, Idle
  <2> QED
    BY <2>1, ReportedKeeps DEF Reports
<1>2. CASE Looks
  <2>1. /\ answer = "running" /\ todo # <<>> /\ Head(todo).do = "look" /\ TellOf(Head(todo).step)
        /\ Goes \/ AnswerEnds("cancelled")
        /\ request' = request /\ ratio' = ratio
    BY <1>2 DEF Looks, Due, Idle
  <2> QED
    BY <2>1, ReportedKeeps DEF Reports
<1>3. CASE Hands
  <2>1. /\ answer = "running" /\ todo # <<>> /\ Head(todo).do = "hand" /\ request' = request
        /\ report' = report /\ ratio' = ratio /\ (Goes \/ answer' = "cancelled")
    BY <1>3 DEF Hands, Due, Idle, AnswerEnds
  <2> QED
    BY <2>1, UnreportedKeeps, CutShortKeeps DEF Reports
<1>4. CASE RunFails
  <2>1. answer' = "failed" /\ report' = report /\ ratio' = ratio
    BY <1>4 DEF RunFails, AnswerEnds
  <2> QED
    BY <2>1, CutShortKeeps
<1>5. CASE Seeds \/ Draws \/ Works
  <2>1. /\ answer = "running" /\ todo # <<>> /\ Head(todo).do \in {"seed", "draw", "work"} /\ Goes
        /\ request' = request /\ report' = report /\ ratio' = ratio
    BY <1>5 DEF Seeds, Draws, Works, Due, Idle
  <2> QED
    BY <2>1, UnreportedKeeps DEF Reports
<1>6. CASE Finishes
  BY <1>6, FinishesKeepsBar
<1>7. CASE Answered
  BY <1>7, AnsweredKeepsBar
<1>8. CASE \E r \in Requests : Ask(r)
  BY <1>8, AskKeepsBar
<1>9. CASE Stop \/ UNCHANGED reportVars
  <2>1. /\ request' = request /\ todo' = todo /\ report' = report /\ ratio' = ratio
        /\ answer' = answer
    BY <1>9 DEF Stop, reportVars
  <2> QED
    BY <2>1, StillKeepsBar
<1> QED
  BY <1>1, <1>2, <1>3, <1>4, <1>5, <1>6, <1>7, <1>8, <1>9 DEF ReportsNext, Runs

\* The bar is "never back" (progress.rs:432) but at the decode of a release that walks more steps than
\* were asked for, and a conversion whose last window is not silence ends with it full
\* (BarForwardToFull): of a reading, however long it turns out against its estimate.
THEOREM BarGoesForwardToFull == ReportsSpec => BarForwardToFull
<1>1. BarInv => EndsFull
  BY DEF BarInv
<1>2. ReportsInv /\ BarInv /\ [ReportsNext]_reportVars =>
        [answer = "running" => AtMost(bar, bar') \/ FallsBack]_reportVars
  BY BarInvKeeps DEF BarMoves
<1> QED
  BY <1>1, <1>2, ReportsInvInit, ReportsInvKeeps, BarInvInit, BarInvKeeps, PTL
  DEF ReportsSpec, BarForwardToFull, EndsFull
===============================================================================
