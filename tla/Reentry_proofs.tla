--------------------------- MODULE Reentry_proofs ---------------------------
(***************************************************************************)
(* Theorems about Reentry, for every set of programs, every transaction    *)
(* and every log the runtime may leave of it.                              *)
(***************************************************************************)
EXTENDS Reentry, SequenceTheorems, WellFoundedInduction, TLAPS

Kinds == {"invoke", "instruction", "consumed", "success", "failed"}
Entry == [pid : Programs, depth : Depth]

\* A program that is not allowed to re-enter is on the stack at most once.
Once(stack, allow) ==
    \A m, n \in DOMAIN stack :
        stack[m].pid = stack[n].pid /\ stack[m].pid \notin allow => m = n

OncePerStack == \A a \in Allowlists : Once(walks[a].stack, a)

Walker == [stack : Seq(Entry), found : Found]

\* A tree, and its open frames among those of its arena.
TreeTyped(t) ==
    /\ t \in [arena : Seq(Node), stack : Seq(DOMAIN t.arena)]
    /\ \A n \in DOMAIN t.arena : t.arena[n].parent < n

\* Nothing is annotated before the log has been read.
NoteAtEnd == phase # "done" => note = 0

TypeInv == TypeOK /\ OncePerStack /\ NoteAtEnd

-----------------------------------------------------------------------------
(* Sequences.                                                              *)

\* What is left of a stack that is popped.
LEMMA Popped ==
    ASSUME NEW S, NEW s \in Seq(S), s # <<>>
    PROVE  /\ Top(s) \in S /\ Len(s) >= 1
           /\ Pop(s) \in Seq(S) /\ Len(Pop(s)) = Len(s) - 1
           /\ \A n \in 1..(Len(s) - 1) : Pop(s)[n] = s[n]
<1>1. Len(s) \in Nat /\ Len(s) # 0 /\ \A n \in 1..Len(s) : s[n] \in S
  BY EmptySeq, LenProperties, ElementOfSeq
<1> DEFINE m == Len(s) - 1
           t == SubSeq(s, 1, m)
<1>2. Pop(s) = t
  BY DEF Pop
<1>3. m \in Nat /\ \A n \in 1..m : s[n] \in S
  BY <1>1
<1> HIDE DEF m
<1>4. /\ t \in Seq(S)
      /\ Len(t) = IF 1 <= m THEN m - 1 + 1 ELSE 0
      /\ \A n \in 1..(m - 1 + 1) : t[n] = s[1 + n - 1]
  BY <1>3, SubSeqProperties
<1> HIDE DEF t
<1>5. Len(t) = m /\ \A n \in 1..m : t[n] = s[n]
  <2>1. Len(t) = m
    BY <1>3, <1>4
  <2>2. \A n \in 1..m : n \in 1..(m - 1 + 1) /\ 1 + n - 1 = n
    BY <1>3
  <2> QED BY <1>4, <2>1, <2>2
<1>6. Len(s) >= 1 /\ Top(s) \in S
  BY <1>1 DEF Top
<1> QED
  BY <1>2, <1>4, <1>5, <1>6 DEF m

LEMMA PopTyped ==
    ASSUME NEW S, NEW s \in Seq(S)
    PROVE  Pop(s) \in Seq(S)
BY Popped, EmptySeq DEF Pop

\* A sequence stays one when the set its elements come from grows.
LEMMA SeqGrows ==
    ASSUME NEW m \in Nat, NEW n \in Nat, m <= n, NEW s \in Seq(1..m)
    PROVE  s \in Seq(1..n)
BY SeqMonotonic

\* Every set of numbers that is not empty has a least element.
LEMMA LeastExists ==
    ASSUME NEW T \in SUBSET Nat, T # {}
    PROVE  \E x \in T : \A y \in T : x <= y
<1> DEFINE R == {ss \in Nat \X Nat : ss[1] < ss[2]}
<1>1. IsWellFoundedOn(R, Nat)
  BY NatLessThanWellFounded DEF OpToRel
<1> HIDE DEF R
<1>2. PICK x \in T : \A y \in T : ~(<<y, x>> \in R)
  BY <1>1, WFMin
<1>3. \A y \in T : ~(y < x)
  BY <1>2 DEF R
<1> QED BY <1>2, <1>3

-----------------------------------------------------------------------------
(* Types: the runtime.                                                     *)

LEMMA LineTyped ==
    ASSUME frames' \in Seq(Frame), Len(frames') <= MaxFrames,
           open' \in Seq(DOMAIN frames'),
           NEW f \in DOMAIN frames', NEW kind \in Kinds
    PROVE  Line(kind, f) \in LogLine
<1>1. frames'[f] \in Frame /\ Len(frames') \in Nat /\ f \in 1..Len(frames')
  BY ElementOfSeq, LenProperties
<1>2. open' \in Seq(Invocation)
  BY <1>1, SeqGrows, ReentryAssumption, LenProperties DEF Invocation
<1> QED
  BY <1>1, <1>2, ReentryAssumption DEF Line, LogLine, Kinds, Frame, Invocation

LEMMA EmitTyped ==
    ASSUME TypeOK, NEW line \in LogLine, Emit(line)
    PROVE  /\ full' \in BOOLEAN /\ log' \in Seq(LogLine) /\ whole' \in 0..Len(log')
           /\ Len(log) <= Len(log')
<1>1. Len(log) \in Nat /\ whole \in 0..Len(log) /\ full \in BOOLEAN /\ log \in Seq(LogLine)
  BY LenProperties DEF TypeOK
<1>0. /\ full' \in BOOLEAN
      /\ \/ log' = Append(log, line) /\ whole' \in {whole, whole + 1}
         \/ log' = log /\ whole' = whole
  BY <1>1 DEF Emit
<1>2. CASE log' = Append(log, line) /\ whole' \in {whole, whole + 1}
  <2>1. log' \in Seq(LogLine) /\ Len(log') = Len(log) + 1
    BY <1>1, <1>2, AppendProperties
  <2> QED BY <1>0, <1>1, <1>2, <2>1
<1>3. CASE log' = log /\ whole' = whole
  BY <1>0, <1>1, <1>3
<1> QED
  BY <1>0, <1>2, <1>3

\* What an action of the runtime has to show.
LEMMA RuntimeTyped ==
    ASSUME TypeInv, Running,
           frames' \in Seq(Frame), Len(frames') <= MaxFrames,
           open' \in Seq(DOMAIN frames'), failing' \in BOOLEAN,
           NEW kind \in Kinds, NEW f \in DOMAIN frames', Emit(Line(kind, f))
    PROVE  TypeInv'
<1>1. /\ full' \in BOOLEAN /\ log' \in Seq(LogLine) /\ whole' \in 0..Len(log')
      /\ Len(log) <= Len(log')
  BY LineTyped, EmitTyped DEF TypeInv
<1>2. UNCHANGED <<phase, pos, walks, tree, note>>
  BY DEF Running, readers
<1>3. pos' \in 0..Len(log')
  <2>1. Len(log) \in Nat /\ Len(log') \in Nat
    BY <1>1, LenProperties DEF TypeInv, TypeOK
  <2> QED BY <1>1, <1>2, <2>1 DEF TypeInv, TypeOK
<1> QED
  BY <1>1, <1>2, <1>3 DEF TypeInv, TypeOK, OncePerStack, NoteAtEnd

LEMMA OpenTop ==
    ASSUME TypeOK, open # <<>>
    PROVE  /\ Top(open) \in DOMAIN frames /\ Top(open) \in Invocation
           /\ Pop(open) \in Seq(DOMAIN frames)
           /\ frames[Top(open)] \in Frame
<1>1. Top(open) \in DOMAIN frames /\ Pop(open) \in Seq(DOMAIN frames)
  BY Popped DEF TypeOK
<1>2. frames[Top(open)] \in Frame /\ Len(frames) \in Nat /\ Top(open) \in 1..Len(frames)
  BY <1>1, ElementOfSeq, LenProperties DEF TypeOK
<1> QED
  BY <1>1, <1>2, ReentryAssumption DEF TypeOK, Invocation

LEMMA InvokeTyped ==
    ASSUME TypeInv, NEW p \in Programs, Invoke(p)
    PROVE  TypeInv'
<1> DEFINE new == [pid |-> p, depth |-> Len(open) + 1, above |-> open,
                   ix |-> 0, cu |-> 0, failed |-> FALSE]
<1>1. Len(frames) \in Nat /\ Len(open) \in Nat /\ DOMAIN frames = 1..Len(frames)
  BY LenProperties DEF TypeInv, TypeOK
<1>2. open \in Seq(Invocation)
  BY <1>1, SeqGrows, ReentryAssumption DEF TypeInv, TypeOK, Invocation
<1>3. new \in Frame
  BY <1>1, <1>2, ReentryAssumption DEF Frame, Invoke, Depth
<1>4. /\ frames' = Append(frames, new)
      /\ Len(frames) < MaxFrames
      /\ open' = Append(open, Len(frames'))
  BY DEF Invoke
<1> HIDE DEF new
<1>5. frames' \in Seq(Frame) /\ Len(frames') = Len(frames) + 1 /\ DOMAIN frames' = 1..Len(frames')
  BY <1>3, <1>4, AppendProperties, LenProperties DEF TypeInv, TypeOK
<1>6. open \in Seq(DOMAIN frames')
  BY <1>1, <1>5, SeqGrows DEF TypeInv, TypeOK
<1>7. open' \in Seq(DOMAIN frames') /\ Len(frames') \in DOMAIN frames'
  BY <1>1, <1>4, <1>5, <1>6, AppendProperties
<1>8. Len(frames') <= MaxFrames
  BY <1>1, <1>4, <1>5, ReentryAssumption
<1>9. Running /\ failing' \in BOOLEAN /\ Emit(Line("invoke", Len(frames')))
  BY DEF Invoke, TypeInv, TypeOK
<1>10. "invoke" \in Kinds
  BY DEF Kinds
<1> QED
  BY <1>5, <1>7, <1>8, <1>9, <1>10, RuntimeTyped

\* The other actions of the runtime change at most a field of the frame on top.
LEMMA TopTyped ==
    ASSUME TypeInv, Running, open # <<>>,
           frames' \in Seq(Frame), Len(frames') = Len(frames),
           open' \in {open, Pop(open)}, failing' \in BOOLEAN,
           NEW kind \in Kinds, Emit(Line(kind, Top(open)))
    PROVE  TypeInv'
<1>1. DOMAIN frames' = DOMAIN frames
  BY LenProperties DEF TypeInv, TypeOK
<1>2. Top(open) \in DOMAIN frames' /\ open' \in Seq(DOMAIN frames')
  BY <1>1, OpenTop DEF TypeInv, TypeOK
<1>3. Len(frames') <= MaxFrames
  BY DEF TypeInv, TypeOK
<1> QED
  BY <1>2, <1>3, RuntimeTyped

LEMMA LogInstructionTyped == TypeInv /\ LogInstruction => TypeInv'
<1> SUFFICES ASSUME TypeInv, LogInstruction PROVE TypeInv'
  OBVIOUS
<1>1. Top(open) \in DOMAIN frames /\ Top(open) \in Invocation /\ frames[Top(open)] \in Frame
  BY OpenTop DEF LogInstruction, TypeInv
<1>2. frames' = [frames EXCEPT ![Top(open)] = [frames[Top(open)] EXCEPT !.ix = Top(open)]]
  BY DEF LogInstruction
<1>3. [frames[Top(open)] EXCEPT !.ix = Top(open)] \in Frame
  BY <1>1 DEF Frame
<1>4. frames' \in Seq(Frame) /\ Len(frames') = Len(frames)
  BY <1>1, <1>2, <1>3, ExceptSeq, LenProperties DEF TypeInv, TypeOK
<1>5. /\ Running /\ open # <<>> /\ open' = open /\ failing' \in BOOLEAN
      /\ Emit(Line("instruction", Top(open))) /\ "instruction" \in Kinds
  BY DEF LogInstruction, TypeInv, TypeOK, Kinds
<1> QED
  BY <1>4, <1>5, TopTyped

LEMMA ConsumeTyped == TypeInv /\ Consume => TypeInv'
<1> SUFFICES ASSUME TypeInv, Consume PROVE TypeInv'
  OBVIOUS
<1>1. Top(open) \in DOMAIN frames /\ Top(open) \in Invocation /\ frames[Top(open)] \in Frame
  BY OpenTop DEF Consume, TypeInv
<1>2. frames' = [frames EXCEPT ![Top(open)] = [frames[Top(open)] EXCEPT !.cu = Top(open)]]
  BY DEF Consume
<1>3. [frames[Top(open)] EXCEPT !.cu = Top(open)] \in Frame
  BY <1>1 DEF Frame
<1>4. frames' \in Seq(Frame) /\ Len(frames') = Len(frames)
  BY <1>1, <1>2, <1>3, ExceptSeq, LenProperties DEF TypeInv, TypeOK
<1>5. /\ Running /\ open # <<>> /\ open' = open /\ failing' \in BOOLEAN
      /\ Emit(Line("consumed", Top(open))) /\ "consumed" \in Kinds
  BY DEF Consume, TypeInv, TypeOK, Kinds
<1> QED
  BY <1>4, <1>5, TopTyped

LEMMA SucceedTyped == TypeInv /\ Succeed => TypeInv'
<1> SUFFICES ASSUME TypeInv, Succeed PROVE TypeInv'
  OBVIOUS
<1>1. /\ Running /\ open # <<>> /\ open' = Pop(open) /\ failing' \in BOOLEAN
      /\ frames' = frames
      /\ Emit(Line("success", Top(open))) /\ "success" \in Kinds
  BY DEF Succeed, TypeInv, TypeOK, Kinds
<1>2. frames' \in Seq(Frame) /\ Len(frames') = Len(frames)
  BY <1>1 DEF TypeInv, TypeOK
<1> QED
  BY <1>1, <1>2, TopTyped

LEMMA FailTyped == TypeInv /\ Fail => TypeInv'
<1> SUFFICES ASSUME TypeInv, Fail PROVE TypeInv'
  OBVIOUS
<1>1. Top(open) \in DOMAIN frames /\ frames[Top(open)] \in Frame
  BY OpenTop DEF Fail, TypeInv
<1>2. frames' = [frames EXCEPT ![Top(open)] = [frames[Top(open)] EXCEPT !.failed = TRUE]]
  BY DEF Fail
<1>3. [frames[Top(open)] EXCEPT !.failed = TRUE] \in Frame
  BY <1>1 DEF Frame
<1>4. frames' \in Seq(Frame) /\ Len(frames') = Len(frames)
  BY <1>1, <1>2, <1>3, ExceptSeq, LenProperties DEF TypeInv, TypeOK
<1>5. /\ Running /\ open # <<>> /\ open' = Pop(open) /\ failing' \in BOOLEAN
      /\ Emit(Line("failed", Top(open))) /\ "failed" \in Kinds
  BY DEF Fail, Kinds
<1> QED
  BY <1>4, <1>5, TopTyped

-----------------------------------------------------------------------------
(* Types: the readers.                                                     *)

\* Where a program is on the stack once, `find' returns that frame.
LEMMA OuterIs ==
    ASSUME NEW stack \in Seq(Entry), NEW n \in DOMAIN stack,
           \A m \in DOMAIN stack : stack[m].pid = stack[n].pid => m = n
    PROVE  OuterDepth(stack, stack[n].pid) = stack[n].depth
<1> DEFINE First(k) == /\ stack[k].pid = stack[n].pid
                       /\ \A m \in 1..(k - 1) : stack[m].pid # stack[n].pid
<1>1. DOMAIN stack = 1..Len(stack) /\ Len(stack) \in Nat
  BY LenProperties
<1>2. First(n)
  BY <1>1
<1>3. \A k \in DOMAIN stack : First(k) => k = n
  OBVIOUS
<1>4. (CHOOSE k \in DOMAIN stack : First(k)) = n
  BY <1>2, <1>3
<1> QED
  BY <1>4 DEF OuterDepth

LEMMA WalkTyped ==
    ASSUME NEW allow, NEW w \in Walker, Once(w.stack, allow), NEW line \in LogLine
    PROVE  Walk(w, line, allow) \in Walker /\ Once(Walk(w, line, allow).stack, allow)
<1> DEFINE new == [pid |-> line.pid, depth |-> line.depth]
<1>1. w.stack \in Seq(Entry) /\ w.found \in Found /\ new \in Entry
      /\ line.pid \in Programs /\ line.depth \in Depth
  BY DEF Walker, LogLine, Entry
<1>2. DOMAIN w.stack = 1..Len(w.stack) /\ Len(w.stack) \in Nat
  BY <1>1, LenProperties
<1>3. CASE w.found # NoReentry
  BY <1>3 DEF Walk
<1>4. CASE w.found = NoReentry /\ line.kind = "invoke" /\ line.pid \notin allow
           /\ \E n \in DOMAIN w.stack : w.stack[n].pid = line.pid
  <2>1. PICK n \in DOMAIN w.stack : w.stack[n].pid = line.pid
    BY <1>4
  <2>2. w.stack[n] \in Entry
    BY <1>1, <1>2, ElementOfSeq
  <2>3. OuterDepth(w.stack, line.pid) = w.stack[n].depth
    BY <1>1, <1>4, <2>1, OuterIs DEF Once
  <2>4. [pid |-> line.pid, outer |-> OuterDepth(w.stack, line.pid),
         inner |-> line.depth] \in Found
    BY <1>1, <2>2, <2>3 DEF Found, Entry
  <2> QED
    BY <1>4, <2>4 DEF Walk, Walker
<1>5. CASE w.found = NoReentry /\ line.kind = "invoke"
           /\ (line.pid \in allow \/ \A n \in DOMAIN w.stack : w.stack[n].pid # line.pid)
  <2>1. Walk(w, line, allow) = [w EXCEPT !.stack = Append(w.stack, new)]
    BY <1>5 DEF Walk
  <2> DEFINE s == Append(w.stack, new)
  <2>2. /\ s \in Seq(Entry) /\ Len(s) = Len(w.stack) + 1 /\ DOMAIN s = 1..Len(s)
        /\ \A i \in 1..Len(w.stack) : s[i] = w.stack[i]
        /\ s[Len(w.stack) + 1] = new
    BY <1>1, AppendProperties, LenProperties
  <2>3. new.pid = line.pid
    OBVIOUS
  <2> HIDE DEF s, new
  <2>4. Once(s, allow)
    <3> SUFFICES ASSUME NEW m \in DOMAIN s, NEW n \in DOMAIN s,
                        s[m].pid = s[n].pid, s[m].pid \notin allow
                 PROVE  m = n
      BY DEF Once
    <3> DEFINE old == 1..Len(w.stack)
    <3>1. /\ m \in old \/ (m = Len(w.stack) + 1 /\ s[m].pid = line.pid)
          /\ n \in old \/ (n = Len(w.stack) + 1 /\ s[n].pid = line.pid)
      <4>1. ASSUME NEW L \in Nat, NEW i \in 1..(L + 1) PROVE i \in 1..L \/ i = L + 1
        OBVIOUS
      <4>2. m \in 1..(Len(w.stack) + 1) /\ n \in 1..(Len(w.stack) + 1)
        BY <2>2
      <4>3. s[Len(w.stack) + 1].pid = line.pid
        BY <2>2, <2>3
      <4> QED BY <1>2, <4>1, <4>2, <4>3
    <3>2. CASE m \in old /\ n \in old
      <4>1. w.stack[m].pid = w.stack[n].pid /\ w.stack[m].pid \notin allow
        BY <2>2, <3>2
      <4> QED BY <1>2, <3>2, <4>1 DEF Once
    <3>3. CASE m \in old /\ s[n].pid = line.pid
      BY <1>2, <1>5, <2>2, <3>3
    <3>4. CASE n \in old /\ s[m].pid = line.pid
      BY <1>2, <1>5, <2>2, <3>4
    <3> QED BY <3>1, <3>2, <3>3, <3>4
  <2> QED
    BY <2>1, <2>2, <2>4 DEF Walker, s
<1>6. CASE w.found = NoReentry /\ line.kind \in {"success", "failed"}
  <2>1. Walk(w, line, allow) = [w EXCEPT !.stack = Pop(w.stack)]
    BY <1>6 DEF Walk
  <2>2. Pop(w.stack) \in Seq(Entry)
    BY <1>1, PopTyped
  <2>3. CASE w.stack = <<>>
    BY <2>1, <2>3 DEF Pop, Walker
  <2>4. CASE w.stack # <<>>
    <3>1. /\ DOMAIN Pop(w.stack) = 1..(Len(w.stack) - 1)
          /\ \A n \in 1..(Len(w.stack) - 1) : Pop(w.stack)[n] = w.stack[n]
      BY <1>1, <2>2, <2>4, Popped, LenProperties
    <3>2. Once(Pop(w.stack), allow)
      BY <1>2, <3>1 DEF Once
    <3> QED BY <2>1, <2>2, <3>2 DEF Walker
  <2> QED BY <2>3, <2>4
<1>7. CASE w.found = NoReentry /\ line.kind \in {"instruction", "consumed"}
  BY <1>7 DEF Walk
<1> QED
  BY <1>3, <1>4, <1>5, <1>6, <1>7 DEF LogLine

\* Replacing a frame of the arena by one with the same parent.
LEMMA NodeReplaced ==
    ASSUME NEW t, TreeTyped(t), NEW i \in DOMAIN t.arena, NEW node \in Node,
           node.parent = t.arena[i].parent,
           NEW s \in {t.stack, Pop(t.stack)}
    PROVE  TreeTyped([arena |-> [t.arena EXCEPT ![i] = node], stack |-> s])
<1> DEFINE arena == [t.arena EXCEPT ![i] = node]
<1>1. t.arena \in Seq(Node) /\ t.stack \in Seq(DOMAIN t.arena)
      /\ \A n \in DOMAIN t.arena : t.arena[n].parent < n
  BY DEF TreeTyped
<1>2. DOMAIN t.arena = 1..Len(t.arena)
  BY <1>1, LenProperties
<1>3. /\ arena \in Seq(Node) /\ DOMAIN arena = DOMAIN t.arena
      /\ \A n \in DOMAIN t.arena : arena[n].parent = t.arena[n].parent
  BY <1>1, <1>2, ExceptSeq
<1>4. s \in Seq(DOMAIN t.arena)
  BY <1>1, PopTyped
<1> HIDE DEF arena
<1> QED
  BY <1>1, <1>3, <1>4 DEF TreeTyped, arena

LEMMA BuildTyped ==
    ASSUME NEW t, TreeTyped(t), NEW line \in LogLine
    PROVE  TreeTyped(Build(t, line))
<1>1. /\ t.arena \in Seq(Node) /\ t.stack \in Seq(DOMAIN t.arena)
      /\ \A n \in DOMAIN t.arena : t.arena[n].parent < n
      /\ t = [arena |-> t.arena, stack |-> t.stack]
  BY DEF TreeTyped
<1>2. DOMAIN t.arena = 1..Len(t.arena) /\ Len(t.arena) \in Nat
  BY <1>1, LenProperties
<1>3. line.pid \in Programs /\ line.depth \in Depth /\ line.of \in Invocation
  BY DEF LogLine
<1>4. t.stack # <<>> =>
        /\ Top(t.stack) \in DOMAIN t.arena /\ Top(t.stack) \in 1..Len(t.arena)
        /\ t.arena[Top(t.stack)] \in Node
  <2> SUFFICES ASSUME t.stack # <<>>
               PROVE  /\ Top(t.stack) \in DOMAIN t.arena
                      /\ Top(t.stack) \in 1..Len(t.arena)
                      /\ t.arena[Top(t.stack)] \in Node
    OBVIOUS
  <2>1. Top(t.stack) \in DOMAIN t.arena
    BY <1>1, Popped
  <2> QED BY <1>1, <1>2, <2>1, ElementOfSeq
<1> DEFINE top == t.arena[Top(t.stack)]
<1>5. CASE line.kind = "invoke"
  <2> DEFINE raw == Raw(t, line)
             arena == Append(t.arena, raw)
             s == Append(t.stack, Len(t.arena) + 1)
  <2>1. raw \in Node /\ raw.parent < Len(t.arena) + 1
    BY <1>2, <1>3, <1>4 DEF Raw, Node
  <2> HIDE DEF raw
  <2>2. /\ arena \in Seq(Node) /\ DOMAIN arena = 1..(Len(t.arena) + 1)
        /\ \A n \in 1..Len(t.arena) : arena[n] = t.arena[n]
        /\ arena[Len(t.arena) + 1] = raw
    BY <1>1, <2>1, AppendProperties, LenProperties
  <2>3. t.stack \in Seq(1..(Len(t.arena) + 1))
    BY <1>1, <1>2, SeqGrows
  <2>4. s \in Seq(DOMAIN arena)
    BY <1>2, <2>2, <2>3, AppendProperties
  <2>5. Build(t, line) = [arena |-> arena, stack |-> s]
    BY <1>5 DEF Build, Pushed, raw
  <2>6. \A n \in DOMAIN arena : arena[n].parent < n
    BY <1>1, <1>2, <2>1, <2>2
  <2> HIDE DEF arena, s
  <2> QED BY <2>2, <2>4, <2>5, <2>6 DEF TreeTyped
<1>6. CASE line.kind # "invoke" /\ t.stack = <<>>
  BY <1>6 DEF Build
<1>7. CASE line.kind = "instruction" /\ t.stack # <<>>
  <2> DEFINE node == [top EXCEPT !.ix = IF top.ix = 0 THEN line.of ELSE top.ix]
  <2>1. node \in Node /\ node.parent = top.parent
    BY <1>3, <1>4, <1>7 DEF Node
  <2>2. Build(t, line) =
          [arena |-> [t.arena EXCEPT ![Top(t.stack)] = node], stack |-> t.stack]
    BY <1>1, <1>7 DEF Build
  <2> HIDE DEF node
  <2> QED BY <1>4, <1>7, <2>1, <2>2, NodeReplaced
<1>8. CASE line.kind = "consumed" /\ t.stack # <<>>
  <2> DEFINE node == [top EXCEPT !.cu = IF top.pid = line.pid THEN line.of ELSE top.cu]
  <2>1. node \in Node /\ node.parent = top.parent
    BY <1>3, <1>4, <1>8 DEF Node
  <2>2. Build(t, line) =
          [arena |-> [t.arena EXCEPT ![Top(t.stack)] = node], stack |-> t.stack]
    BY <1>1, <1>8 DEF Build
  <2> HIDE DEF node
  <2> QED BY <1>4, <1>8, <2>1, <2>2, NodeReplaced
<1>9. CASE line.kind = "success" /\ t.stack # <<>>
  <2>1. Build(t, line) = [arena |-> t.arena, stack |-> Pop(t.stack)]
    BY <1>1, <1>9 DEF Build
  <2>2. Pop(t.stack) \in Seq(DOMAIN t.arena)
    BY <1>1, PopTyped
  <2> QED BY <1>1, <2>1, <2>2 DEF TreeTyped
<1>10. CASE line.kind = "failed" /\ t.stack # <<>>
  <2> DEFINE node == [top EXCEPT !.failed = TRUE]
  <2>1. node \in Node /\ node.parent = top.parent
    BY <1>4, <1>10 DEF Node
  <2>2. Build(t, line) =
          [arena |-> [t.arena EXCEPT ![Top(t.stack)] = node], stack |-> Pop(t.stack)]
    BY <1>1, <1>10 DEF Build, Fell
  <2> HIDE DEF node
  <2> QED BY <1>4, <1>10, <2>1, <2>2, NodeReplaced
<1> QED
  BY <1>5, <1>6, <1>7, <1>8, <1>9, <1>10 DEF LogLine

LEMMA ReadTyped == TypeInv /\ Read => TypeInv'
<1> SUFFICES ASSUME TypeInv, Read PROVE TypeInv'
  OBVIOUS
<1>1. /\ log \in Seq(LogLine) /\ Len(log) \in Nat /\ pos \in 0..Len(log)
      /\ pos < Len(log) /\ pos' = pos + 1
      /\ UNCHANGED <<frames, open, failing, log, whole, full, phase, note>>
  BY LenProperties DEF TypeInv, TypeOK, Read, runtime
<1>2. pos' \in 1..Len(log) /\ log[pos'] \in LogLine
  BY <1>1, ElementOfSeq
<1>3. walks' = [a \in Allowlists |-> Walk(walks[a], log[pos'], a)]
  BY DEF Read
<1>4. /\ walks' \in [Allowlists -> Walker]
      /\ \A a \in Allowlists : Once(walks'[a].stack, a)
  <2> SUFFICES ASSUME NEW a \in Allowlists
               PROVE  /\ Walk(walks[a], log[pos'], a) \in Walker
                      /\ Once(Walk(walks[a], log[pos'], a).stack, a)
    BY <1>3
  <2>1. walks[a] \in Walker /\ Once(walks[a].stack, a)
    BY DEF TypeInv, TypeOK, OncePerStack, Walker, Entry
  <2> QED BY <1>2, <2>1, WalkTyped
<1>5. TreeTyped(tree')
  BY <1>2, BuildTyped DEF TypeInv, TypeOK, TreeTyped, Read
<1>6. note' = 0
  BY <1>1 DEF TypeInv, NoteAtEnd, Read
<1>7. OncePerStack' /\ NoteAtEnd'
  BY <1>4, <1>6 DEF OncePerStack, NoteAtEnd
<1>8. TypeOK'
  <2>1. walks' \in [Allowlists -> [stack : Seq([pid : Programs, depth : Depth]), found : Found]]
    BY <1>4 DEF Walker, Entry
  <2>2. /\ tree' \in [arena : Seq(Node), stack : Seq(DOMAIN tree'.arena)]
        /\ \A n \in DOMAIN tree'.arena : tree'.arena[n].parent < n
    BY <1>5 DEF TreeTyped
  <2>3. pos' \in 0..Len(log)
    BY <1>1, <1>2
  <2> QED BY <1>1, <1>6, <2>1, <2>2, <2>3 DEF TypeInv, TypeOK
<1> QED
  BY <1>7, <1>8 DEF TypeInv

LEMMA AnnotateTyped == TypeInv /\ Annotate => TypeInv'
<1> SUFFICES ASSUME TypeInv, Annotate PROVE TypeInv'
  OBVIOUS
<1>1. UNCHANGED <<frames, open, failing, log, whole, full, pos, walks, tree>> /\ phase' = "done"
  BY DEF Annotate, runtime, readers
<1>2. DOMAIN tree.arena \in SUBSET Nat
  BY LenProperties DEF TypeInv, TypeOK
<1>3. ASSUME NEW pid, NEW depth PROVE FirstFrame(pid, depth) \in {0} \cup DOMAIN tree.arena
  <2> DEFINE Matching == {n \in DOMAIN tree.arena :
                            tree.arena[n].pid = pid /\ tree.arena[n].depth = depth}
  <2>1. CASE Matching = {}
    BY <2>1 DEF FirstFrame
  <2>2. CASE Matching # {}
    <3>1. \E n \in Matching : \A m \in Matching : n <= m
      BY <1>2, <2>2, LeastExists
    <3> QED BY <2>2, <3>1 DEF FirstFrame
  <2> QED BY <2>1, <2>2
<1>4. note' \in {0} \cup DOMAIN tree.arena
  BY <1>3 DEF Annotate
<1> QED
  BY <1>1, <1>4 DEF TypeInv, TypeOK, OncePerStack, NoteAtEnd

LEMMA TypesInit == Init => TypeInv
<1> SUFFICES ASSUME Init PROVE TypeInv
  OBVIOUS
<1>1. DOMAIN tree.arena = {} /\ Len(log) = 0 /\ Len(frames) = 0
  BY DEF Init
<1>2. /\ frames \in Seq(Frame) /\ open \in Seq(DOMAIN frames) /\ log \in Seq(LogLine)
      /\ tree \in [arena : Seq(Node), stack : Seq(DOMAIN tree.arena)]
  BY EmptySeq DEF Init
<1>3. walks \in [Allowlists -> [stack : Seq(Entry), found : Found]] /\ OncePerStack
  BY EmptySeq DEF Init, Found, Once, OncePerStack
<1>4. walks \in [Allowlists -> [stack : Seq([pid : Programs, depth : Depth]), found : Found]]
  BY <1>3 DEF Entry
<1>5. Len(frames) <= MaxFrames
  BY <1>1, ReentryAssumption
<1>6. whole \in 0..Len(log) /\ pos \in 0..Len(log)
  BY <1>1 DEF Init
<1>7. TypeOK
  BY <1>1, <1>2, <1>4, <1>5, <1>6 DEF Init, TypeOK
<1> QED
  BY <1>3, <1>7 DEF Init, TypeInv, NoteAtEnd

LEMMA TypesNext == TypeInv /\ [Next]_vars => TypeInv'
<1> SUFFICES ASSUME TypeInv, [Next]_vars PROVE TypeInv'
  OBVIOUS
<1>1. CASE \E p \in Programs : Invoke(p)
  BY <1>1, InvokeTyped
<1>2. CASE LogInstruction
  BY <1>2, LogInstructionTyped
<1>3. CASE Consume
  BY <1>3, ConsumeTyped
<1>4. CASE Succeed
  BY <1>4, SucceedTyped
<1>5. CASE Fail
  BY <1>5, FailTyped
<1>6. CASE Return
  BY <1>6 DEF Return, runtime, readers, TypeInv, TypeOK, OncePerStack, NoteAtEnd
<1>7. CASE Read
  BY <1>7, ReadTyped
<1>8. CASE Annotate
  BY <1>8, AnnotateTyped
<1>9. CASE UNCHANGED vars
  BY <1>9 DEF vars, runtime, readers, TypeInv, TypeOK, OncePerStack, NoteAtEnd
<1> QED
  BY <1>1, <1>2, <1>3, <1>4, <1>5, <1>6, <1>7, <1>8, <1>9 DEF Next, Over

\* Every variable keeps its type, in any transaction and with any log: the
\* readers never leave the frames they have seen, whatever lines are missing.
THEOREM TypesAlways == Spec => []TypeOK
<1>1. TypeInv => TypeOK
  BY DEF TypeInv
<1> QED
  BY <1>1, TypesInit, TypesNext, PTL DEF Spec

-----------------------------------------------------------------------------
(* The log.  As far as it is whole, each line follows from what the lines  *)
(* before it leave open and what the transaction did.                      *)

AfterLine(k) == IF k = 0 THEN <<>> ELSE log[k].after
BegunBy(k) == IF k = 0 THEN 0 ELSE log[k].begun

LineTrue(k) ==
    LET line == log[k]  f == log[k].of  s == AfterLine(k - 1)  b == BegunBy(k - 1) IN
    /\ f \in 1..Len(frames) /\ line.begun \in 0..Len(frames)
    /\ line.pid = frames[f].pid /\ line.depth = frames[f].depth
    /\ line.after \in Seq(1..Len(frames))
    /\ \A n \in DOMAIN line.after : frames[line.after[n]].depth = n
    /\ line.kind = "invoke" =>
          /\ f = b + 1 /\ line.begun = b + 1
          /\ line.after = Append(s, f)
          /\ frames[f].above = s /\ frames[f].depth = Len(s) + 1
    /\ line.kind # "invoke" => s # <<>> /\ f = Top(s) /\ line.begun = b
    /\ line.kind = "instruction" => line.after = s /\ frames[f].ix = f
    /\ line.kind = "consumed" => line.after = s /\ frames[f].cu = f
    /\ line.kind = "success" => line.after = Pop(s)
    /\ line.kind = "failed" => line.after = Pop(s) /\ frames[f].failed

LogTrue == \A k \in 1..whole : LineTrue(k)

\* Until a line is lost, the last one is up to date.
LogCurrent ==
    ~full => whole = Len(log) /\ open = AfterLine(whole) /\ Len(frames) = BegunBy(whole)

OpenDepths == \A n \in DOMAIN open : frames[open[n]].depth = n

LogInv == TypeInv /\ LogTrue /\ LogCurrent /\ OpenDepths

\* What no step changes of an invocation.
Grown ==
    /\ Len(frames) <= Len(frames')
    /\ \A f \in DOMAIN frames :
          /\ frames'[f].pid = frames[f].pid /\ frames'[f].depth = frames[f].depth
          /\ frames'[f].above = frames[f].above
          /\ frames[f].ix = f => frames'[f].ix = f
          /\ frames[f].cu = f => frames'[f].cu = f
          /\ frames[f].failed => frames'[f].failed

\* What an event of one kind, about frame f, does to the transaction.
Follows(kind, f) ==
    /\ kind = "invoke" =>
          /\ f = Len(frames) + 1 /\ Len(frames') = f /\ open' = Append(open, f)
          /\ frames'[f].above = open /\ frames'[f].depth = Len(open) + 1
    /\ kind # "invoke" => open # <<>> /\ f = Top(open) /\ Len(frames') = Len(frames)
    /\ kind = "instruction" => open' = open /\ frames'[f].ix = f
    /\ kind = "consumed" => open' = open /\ frames'[f].cu = f
    /\ kind = "success" => open' = Pop(open)
    /\ kind = "failed" => open' = Pop(open) /\ frames'[f].failed

LEMMA LinesStay ==
    ASSUME TypeInv, LogTrue, Grown, Len(frames') \in Nat, Len(log) <= Len(log'),
           \A k \in 1..Len(log) : log'[k] = log[k],
           NEW k \in 1..whole
    PROVE  LineTrue(k)' /\ AfterLine(k)' = AfterLine(k) /\ BegunBy(k)' = BegunBy(k)
<1>1. /\ Len(log) \in Nat /\ whole \in 0..Len(log) /\ log \in Seq(LogLine)
      /\ Len(frames) \in Nat /\ DOMAIN frames = 1..Len(frames) /\ frames \in Seq(Frame)
  BY LenProperties DEF TypeInv, TypeOK
<1>2. k \in 1..Len(log) /\ k - 1 \in 0..Len(log) /\ log'[k] = log[k]
      /\ (k - 1 # 0 => log'[k - 1] = log[k - 1])
  BY <1>1
<1>3. /\ AfterLine(k)' = AfterLine(k) /\ AfterLine(k - 1)' = AfterLine(k - 1)
      /\ BegunBy(k)' = BegunBy(k) /\ BegunBy(k - 1)' = BegunBy(k - 1)
  BY <1>2 DEF AfterLine, BegunBy
<1> DEFINE line == log[k]
           f == log[k].of
<1>4. LineTrue(k)
  BY DEF LogTrue
<1>5. f \in DOMAIN frames /\ f \in 1..Len(frames') /\ line.begun \in 0..Len(frames')
  BY <1>1, <1>4 DEF LineTrue, Grown
<1>6. /\ line.after \in Seq(1..Len(frames'))
      /\ \A n \in DOMAIN line.after : frames'[line.after[n]].depth = n
  <2>1. line.after \in Seq(1..Len(frames))
    BY <1>4 DEF LineTrue
  <2>2. line.after \in Seq(1..Len(frames'))
    BY <1>1, <2>1, SeqGrows DEF Grown
  <2>3. \A n \in DOMAIN line.after : line.after[n] \in DOMAIN frames
    BY <1>1, <2>1, LenProperties, ElementOfSeq
  <2> QED BY <1>4, <2>2, <2>3 DEF LineTrue, Grown
<1>7. /\ frames'[f].pid = frames[f].pid /\ frames'[f].depth = frames[f].depth
      /\ frames'[f].above = frames[f].above
      /\ frames[f].ix = f => frames'[f].ix = f
      /\ frames[f].cu = f => frames'[f].cu = f
      /\ frames[f].failed => frames'[f].failed
  BY <1>5 DEF Grown
<1> QED
  BY <1>2, <1>3, <1>4, <1>5, <1>6, <1>7 DEF LineTrue

LEMMA RuntimeTrue ==
    ASSUME LogInv, TypeInv', Grown, NEW kind \in Kinds, NEW f \in DOMAIN frames',
           Emit(Line(kind, f)), Follows(kind, f), OpenDepths'
    PROVE  LogInv'
<1> DEFINE line == Line(kind, f)
<1>1. /\ Len(log) \in Nat /\ whole \in 0..Len(log) /\ log \in Seq(LogLine)
      /\ full \in BOOLEAN
      /\ Len(frames) \in Nat /\ frames \in Seq(Frame)
      /\ Len(frames') \in Nat /\ DOMAIN frames' = 1..Len(frames')
      /\ open' \in Seq(1..Len(frames')) /\ frames' \in Seq(Frame)
      /\ Len(frames') <= MaxFrames
  BY LenProperties DEF LogInv, TypeInv, TypeOK
<1>2. line \in LogLine
  BY <1>1, LineTyped
<1>3. /\ line.kind = kind /\ line.of = f /\ line.after = open' /\ line.begun = Len(frames')
      /\ line.pid = frames'[f].pid /\ line.depth = frames'[f].depth
  BY DEF Line
<1> HIDE DEF line
<1>4. \/ /\ log' = Append(log, line) /\ full' = full
         /\ whole' = IF full THEN whole ELSE whole + 1
      \/ log' = log /\ whole' = whole /\ full'
  BY DEF Emit, line
<1>5. /\ log' \in Seq(LogLine) /\ Len(log') \in Nat /\ Len(log) <= Len(log')
      /\ \A k \in 1..Len(log) : log'[k] = log[k]
      /\ log' = Append(log, line) => Len(log') = Len(log) + 1 /\ log'[Len(log')] = line
  <2>1. CASE log' = Append(log, line)
    <3>1. /\ log' \in Seq(LogLine) /\ Len(log') = Len(log) + 1
          /\ \A k \in 1..Len(log) : log'[k] = log[k]
          /\ log'[Len(log) + 1] = line
      BY <1>1, <1>2, <2>1, AppendProperties
    <3> QED BY <1>1, <3>1
  <2>2. CASE log' = log /\ log' # Append(log, line)
    BY <1>1, <2>2
  <2> QED BY <1>4, <2>1, <2>2
<1>6. \A k \in 1..whole :
        LineTrue(k)' /\ AfterLine(k)' = AfterLine(k) /\ BegunBy(k)' = BegunBy(k)
  BY <1>1, <1>5, LinesStay DEF LogInv
<1>7. CASE whole' = whole /\ full'
  BY <1>6, <1>7 DEF LogInv, LogTrue, LogCurrent
<1>8. CASE log' = Append(log, line) /\ ~full /\ ~full' /\ whole' = whole + 1
  <2>0. PICK w \in Nat : w = whole
    BY <1>1
  <2>1. /\ w = Len(log) /\ whole' = Len(log') /\ whole' = w + 1 /\ log'[w + 1] = line
        /\ open = AfterLine(w) /\ Len(frames) = BegunBy(w)
    BY <1>1, <1>5, <1>8, <2>0 DEF LogInv, LogCurrent
  <2>2. AfterLine(w)' = open /\ BegunBy(w)' = Len(frames)
    <3>1. CASE w = 0
      BY <2>1, <3>1 DEF AfterLine, BegunBy
    <3>2. CASE w \in 1..whole
      BY <1>6, <2>1, <3>2
    <3> QED BY <2>0, <3>1, <3>2
  <2>3. LogCurrent'
    BY <1>1, <1>3, <1>8, <2>1 DEF LogCurrent, AfterLine, BegunBy
  <2>4. LineTrue(w + 1)'
    <3> DEFINE s == AfterLine(w)'
               b == BegunBy(w)'
    <3>1. /\ f \in 1..Len(frames') /\ line.begun \in 0..Len(frames')
          /\ line.after \in Seq(1..Len(frames'))
          /\ \A n \in DOMAIN line.after : frames'[line.after[n]].depth = n
      BY <1>1, <1>3 DEF OpenDepths
    <3>2. /\ line.kind = "invoke" =>
               /\ f = b + 1 /\ line.begun = b + 1
               /\ line.after = Append(s, f)
               /\ frames'[f].above = s /\ frames'[f].depth = Len(s) + 1
          /\ line.kind # "invoke" => s # <<>> /\ f = Top(s) /\ line.begun = b
          /\ line.kind = "instruction" => line.after = s /\ frames'[f].ix = f
          /\ line.kind = "consumed" => line.after = s /\ frames'[f].cu = f
          /\ line.kind = "success" => line.after = Pop(s)
          /\ line.kind = "failed" => line.after = Pop(s) /\ frames'[f].failed
      BY <1>3, <2>2 DEF Follows
    <3>3. (w + 1) - 1 = w /\ log'[w + 1] = line
      BY <2>1
    <3> HIDE DEF s, b
    <3> QED BY <1>3, <3>1, <3>2, <3>3 DEF LineTrue, s, b
  <2>5. LogTrue'
    <3> SUFFICES ASSUME NEW k \in 1..whole' PROVE LineTrue(k)'
      BY DEF LogTrue
    <3>1. k \in 1..whole \/ k = w + 1
      BY <2>0, <2>1
    <3> QED BY <1>6, <2>4, <3>1
  <2> QED BY <2>3, <2>5 DEF LogInv
<1> QED
  BY <1>1, <1>4, <1>7, <1>8

LEMMA InvokeTrue ==
    ASSUME LogInv, NEW p \in Programs, Invoke(p)
    PROVE  LogInv'
<1> DEFINE new == [pid |-> p, depth |-> Len(open) + 1, above |-> open,
                   ix |-> 0, cu |-> 0, failed |-> FALSE]
           last == Len(frames')
<1>1. TypeInv'
  BY InvokeTyped DEF LogInv
<1>2. /\ Len(frames) \in Nat /\ DOMAIN frames = 1..Len(frames) /\ frames \in Seq(Frame)
      /\ Len(open) \in Nat /\ DOMAIN open = 1..Len(open) /\ open \in Seq(DOMAIN frames)
      /\ \A n \in DOMAIN open : open[n] \in DOMAIN frames
  BY LenProperties, ElementOfSeq DEF LogInv, TypeInv, TypeOK
<1>3. frames' = Append(frames, new) /\ open' = Append(open, last)
      /\ Emit(Line("invoke", last))
  BY DEF Invoke
<1>4. /\ Len(frames') = Len(frames) + 1 /\ DOMAIN frames' = 1..Len(frames')
      /\ \A f \in DOMAIN frames : frames'[f] = frames[f]
      /\ frames'[last] = new
  <2>1. new \in {new} /\ frames \in Seq(Frame \cup {new})
    BY <1>2, SeqMonotonic
  <2> HIDE DEF new
  <2> QED BY <1>2, <1>3, <2>1, AppendProperties, LenProperties
<1>5. new.above = open /\ new.depth = Len(open) + 1
  OBVIOUS
<1> HIDE DEF new
<1>6. Grown /\ Follows("invoke", last) /\ last \in DOMAIN frames' /\ "invoke" \in Kinds
  BY <1>2, <1>3, <1>4, <1>5 DEF Grown, Follows, Kinds
<1> HIDE DEF last
<1>7. OpenDepths'
  <2>1. open \in Seq(DOMAIN frames \cup {last}) /\ last \in DOMAIN frames \cup {last}
    BY <1>2, SeqMonotonic
  <2>2. /\ DOMAIN open' = 1..(Len(open) + 1) /\ open'[Len(open) + 1] = last
        /\ \A n \in 1..Len(open) : open'[n] = open[n]
    BY <1>2, <1>3, <2>1, AppendProperties, LenProperties
  <2>3. \A n \in 1..Len(open) : frames'[open'[n]].depth = n
    BY <1>2, <1>4, <2>2 DEF LogInv, OpenDepths
  <2>4. frames'[open'[Len(open) + 1]].depth = Len(open) + 1
    BY <1>4, <1>5, <2>2
  <2> QED BY <1>2, <2>2, <2>3, <2>4 DEF OpenDepths
<1> QED
  BY <1>1, <1>3, <1>6, <1>7, RuntimeTrue

\* The other actions of the runtime, which put `node' for the frame on top.
LEMMA TopTrue ==
    ASSUME LogInv, TypeInv', open # <<>>, open' \in {open, Pop(open)},
           NEW node, frames' = [frames EXCEPT ![Top(open)] = node],
           node.pid = frames[Top(open)].pid, node.depth = frames[Top(open)].depth,
           node.above = frames[Top(open)].above,
           frames[Top(open)].ix = Top(open) => node.ix = Top(open),
           frames[Top(open)].cu = Top(open) => node.cu = Top(open),
           frames[Top(open)].failed => node.failed
    PROVE  /\ Grown /\ OpenDepths' /\ Len(frames') = Len(frames)
           /\ Top(open) \in DOMAIN frames' /\ frames'[Top(open)] = node
<1> DEFINE i == Top(open)
<1>1. /\ Len(frames) \in Nat /\ DOMAIN frames = 1..Len(frames) /\ frames \in Seq(Frame)
      /\ Len(open) \in Nat /\ DOMAIN open = 1..Len(open) /\ open \in Seq(DOMAIN frames)
      /\ \A n \in DOMAIN open : open[n] \in DOMAIN frames
      /\ frames' \in Seq(Frame) /\ DOMAIN frames' = 1..Len(frames') /\ Len(frames') \in Nat
  BY LenProperties, ElementOfSeq DEF LogInv, TypeInv, TypeOK
<1>2. i \in DOMAIN frames
  BY OpenTop DEF LogInv, TypeInv
<1>3. /\ DOMAIN frames' = DOMAIN frames /\ frames'[i] = node
      /\ \A f \in DOMAIN frames : f # i => frames'[f] = frames[f]
  BY <1>2
<1>4. Len(frames') = Len(frames)
  BY <1>1, <1>3
<1>5. \A f \in DOMAIN frames :
        /\ frames'[f].pid = frames[f].pid /\ frames'[f].depth = frames[f].depth
        /\ frames'[f].above = frames[f].above
        /\ frames[f].ix = f => frames'[f].ix = f
        /\ frames[f].cu = f => frames'[f].cu = f
        /\ frames[f].failed => frames'[f].failed
  <2> SUFFICES ASSUME NEW f \in DOMAIN frames
               PROVE  /\ frames'[f].pid = frames[f].pid /\ frames'[f].depth = frames[f].depth
                      /\ frames'[f].above = frames[f].above
                      /\ frames[f].ix = f => frames'[f].ix = f
                      /\ frames[f].cu = f => frames'[f].cu = f
                      /\ frames[f].failed => frames'[f].failed
    OBVIOUS
  <2>1. CASE f = i
    BY <1>3, <2>1
  <2>2. CASE f # i
    BY <1>3, <2>2
  <2> QED BY <2>1, <2>2
<1>6. DOMAIN open' \subseteq DOMAIN open /\ \A n \in DOMAIN open' : open'[n] = open[n]
  <2>1. CASE open' = Pop(open)
    <3>1. /\ Pop(open) \in Seq(DOMAIN frames) /\ Len(Pop(open)) = Len(open) - 1
          /\ \A n \in 1..(Len(open) - 1) : Pop(open)[n] = open[n]
      BY <1>1, Popped
    <3>2. DOMAIN Pop(open) = 1..(Len(open) - 1)
      BY <3>1, LenProperties
    <3> QED BY <1>1, <2>1, <3>1, <3>2
  <2>2. CASE open' = open
    BY <2>2
  <2> QED BY <2>1, <2>2
<1>7. OpenDepths'
  BY <1>1, <1>5, <1>6 DEF LogInv, OpenDepths
<1> QED
  BY <1>1, <1>2, <1>3, <1>4, <1>5, <1>7 DEF Grown

LEMMA LogInstructionTrue == LogInv /\ LogInstruction => LogInv'
<1> SUFFICES ASSUME LogInv, LogInstruction PROVE LogInv'
  OBVIOUS
<1> DEFINE node == [frames[Top(open)] EXCEPT !.ix = Top(open)]
<1>1. TypeInv' /\ frames[Top(open)] \in Frame
  BY LogInstructionTyped, OpenTop DEF LogInv, TypeInv, LogInstruction
<1>2. /\ open # <<>> /\ open' = open /\ Emit(Line("instruction", Top(open)))
      /\ frames' = [frames EXCEPT ![Top(open)] = node]
  BY DEF LogInstruction
<1>3. /\ node.pid = frames[Top(open)].pid /\ node.depth = frames[Top(open)].depth
      /\ node.above = frames[Top(open)].above
      /\ node.ix = Top(open) /\ node.cu = frames[Top(open)].cu
      /\ node.failed = frames[Top(open)].failed
  BY <1>1 DEF Frame
<1> HIDE DEF node
<1>4. /\ Grown /\ OpenDepths' /\ Len(frames') = Len(frames)
      /\ Top(open) \in DOMAIN frames' /\ frames'[Top(open)] = node
  BY <1>1, <1>2, <1>3, TopTrue
<1>5. Follows("instruction", Top(open)) /\ "instruction" \in Kinds
  BY <1>2, <1>3, <1>4 DEF Follows, Kinds
<1> QED
  BY <1>1, <1>2, <1>4, <1>5, RuntimeTrue

LEMMA ConsumeTrue == LogInv /\ Consume => LogInv'
<1> SUFFICES ASSUME LogInv, Consume PROVE LogInv'
  OBVIOUS
<1> DEFINE node == [frames[Top(open)] EXCEPT !.cu = Top(open)]
<1>1. TypeInv' /\ frames[Top(open)] \in Frame
  BY ConsumeTyped, OpenTop DEF LogInv, TypeInv, Consume
<1>2. /\ open # <<>> /\ open' = open /\ Emit(Line("consumed", Top(open)))
      /\ frames' = [frames EXCEPT ![Top(open)] = node]
  BY DEF Consume
<1>3. /\ node.pid = frames[Top(open)].pid /\ node.depth = frames[Top(open)].depth
      /\ node.above = frames[Top(open)].above
      /\ node.cu = Top(open) /\ node.ix = frames[Top(open)].ix
      /\ node.failed = frames[Top(open)].failed
  BY <1>1 DEF Frame
<1> HIDE DEF node
<1>4. /\ Grown /\ OpenDepths' /\ Len(frames') = Len(frames)
      /\ Top(open) \in DOMAIN frames' /\ frames'[Top(open)] = node
  BY <1>1, <1>2, <1>3, TopTrue
<1>5. Follows("consumed", Top(open)) /\ "consumed" \in Kinds
  BY <1>2, <1>3, <1>4 DEF Follows, Kinds
<1> QED
  BY <1>1, <1>2, <1>4, <1>5, RuntimeTrue

LEMMA SucceedTrue == LogInv /\ Succeed => LogInv'
<1> SUFFICES ASSUME LogInv, Succeed PROVE LogInv'
  OBVIOUS
<1> DEFINE node == frames[Top(open)]
<1>1. TypeInv' /\ frames \in Seq(Frame)
  BY SucceedTyped DEF LogInv, TypeInv, TypeOK
<1>2. /\ open # <<>> /\ open' = Pop(open) /\ Emit(Line("success", Top(open)))
      /\ frames' = frames
  BY DEF Succeed
<1>3. frames' = [frames EXCEPT ![Top(open)] = node]
  BY <1>1, <1>2, LenProperties
<1>4. Grown /\ OpenDepths' /\ Top(open) \in DOMAIN frames'
  BY <1>1, <1>2, <1>3, TopTrue
<1>5. Follows("success", Top(open)) /\ "success" \in Kinds
  BY <1>2 DEF Follows, Kinds
<1> QED
  BY <1>1, <1>2, <1>4, <1>5, RuntimeTrue

LEMMA FailTrue == LogInv /\ Fail => LogInv'
<1> SUFFICES ASSUME LogInv, Fail PROVE LogInv'
  OBVIOUS
<1> DEFINE node == [frames[Top(open)] EXCEPT !.failed = TRUE]
<1>1. TypeInv' /\ frames[Top(open)] \in Frame
  BY FailTyped, OpenTop DEF LogInv, TypeInv, Fail
<1>2. /\ open # <<>> /\ open' = Pop(open) /\ Emit(Line("failed", Top(open)))
      /\ frames' = [frames EXCEPT ![Top(open)] = node]
  BY DEF Fail
<1>3. /\ node.pid = frames[Top(open)].pid /\ node.depth = frames[Top(open)].depth
      /\ node.above = frames[Top(open)].above
      /\ node.cu = frames[Top(open)].cu /\ node.ix = frames[Top(open)].ix
      /\ node.failed
  BY <1>1 DEF Frame
<1> HIDE DEF node
<1>4. /\ Grown /\ OpenDepths' /\ Len(frames') = Len(frames)
      /\ Top(open) \in DOMAIN frames' /\ frames'[Top(open)] = node
  BY <1>1, <1>2, <1>3, TopTrue
<1>5. Follows("failed", Top(open)) /\ "failed" \in Kinds
  BY <1>2, <1>3, <1>4 DEF Follows, Kinds
<1> QED
  BY <1>1, <1>2, <1>4, <1>5, RuntimeTrue

\* The readers, and the end of the transaction, leave the runtime alone.
LEMMA LogUntouched == LogInv /\ TypeInv' /\ UNCHANGED runtime => LogInv'
<1> SUFFICES ASSUME LogInv, TypeInv', UNCHANGED runtime PROVE LogInv'
  OBVIOUS
<1>1. UNCHANGED <<frames, open, log, whole, full>>
  BY DEF runtime
<1>2. \A k : LineTrue(k)' = LineTrue(k)
  BY <1>1 DEF LineTrue, AfterLine, BegunBy
<1>3. LogTrue'
  BY <1>1, <1>2 DEF LogInv, LogTrue
<1> QED
  BY <1>1, <1>3 DEF LogInv, LogCurrent, OpenDepths, AfterLine, BegunBy

LEMMA LogInit == Init => LogInv
<1> SUFFICES ASSUME Init PROVE LogInv
  OBVIOUS
<1>1. TypeInv
  BY TypesInit
<1>2. whole = 0 /\ Len(log) = 0 /\ open = <<>> /\ Len(frames) = 0
  BY DEF Init
<1> QED
  BY <1>1, <1>2 DEF LogInv, LogTrue, LogCurrent, OpenDepths, AfterLine, BegunBy

LEMMA LogNext == LogInv /\ [Next]_vars => LogInv'
<1> SUFFICES ASSUME LogInv, [Next]_vars PROVE LogInv'
  OBVIOUS
<1>1. CASE \E p \in Programs : Invoke(p)
  BY <1>1, InvokeTrue
<1>2. CASE LogInstruction
  BY <1>2, LogInstructionTrue
<1>3. CASE Consume
  BY <1>3, ConsumeTrue
<1>4. CASE Succeed
  BY <1>4, SucceedTrue
<1>5. CASE Fail
  BY <1>5, FailTrue
<1>6. CASE UNCHANGED runtime
  BY <1>6, TypesNext, LogUntouched DEF LogInv
<1>7. Return \/ Read \/ Annotate \/ UNCHANGED vars => UNCHANGED runtime
  BY DEF Return, Read, Annotate, vars
<1> QED
  BY <1>1, <1>2, <1>3, <1>4, <1>5, <1>6, <1>7 DEF Next, Over

-----------------------------------------------------------------------------
(* The tree.                                                               *)

\* Frame f of an arena is that invocation, as far as the lines tell.
NodeTrue(arena, f) ==
    /\ arena[f].pid = frames[f].pid /\ arena[f].depth = frames[f].depth
    /\ arena[f].parent = IF frames[f].above = <<>> THEN 0 ELSE Top(frames[f].above)
    /\ arena[f].ix \in {0, frames[f].ix} /\ arena[f].cu \in {0, frames[f].cu}
    /\ arena[f].failed => frames[f].failed

\* The tree after k lines: its open frames are the ones the log leaves open.
TreeAt(t, k) ==
    /\ t.stack = AfterLine(k) /\ Len(t.arena) = BegunBy(k)
    /\ \A f \in DOMAIN t.arena : NodeTrue(t.arena, f)

\* No line is read before the transaction is over.
Untouched ==
    phase = "running" =>
        /\ pos = 0 /\ tree = [arena |-> <<>>, stack |-> <<>>]
        /\ \A a \in Allowlists : walks[a] = [stack |-> <<>>, found |-> NoReentry]

TreeInv == LogInv /\ Untouched /\ (pos <= whole => TreeAt(tree, pos))

LEMMA BuildTrue ==
    ASSUME LogInv, NEW k \in 1..whole, NEW t, TreeTyped(t), TreeAt(t, k - 1)
    PROVE  TreeAt(Build(t, log[k]), k)
<1> DEFINE line == log[k]
           f == log[k].of
           s == AfterLine(k - 1)
           b == BegunBy(k - 1)
<1>1. /\ k # 0 /\ k \in 1..Len(log) /\ line \in LogLine
      /\ frames \in Seq(Frame) /\ DOMAIN frames = 1..Len(frames) /\ Len(frames) \in Nat
  BY LenProperties, ElementOfSeq DEF LogInv, TypeInv, TypeOK
<1>2. LineTrue(k) /\ AfterLine(k) = line.after /\ BegunBy(k) = line.begun
  BY <1>1 DEF LogInv, LogTrue, AfterLine, BegunBy
<1>3. /\ t.arena \in Seq(Node) /\ t.stack \in Seq(DOMAIN t.arena)
      /\ t = [arena |-> t.arena, stack |-> t.stack]
      /\ Len(t.arena) \in Nat /\ DOMAIN t.arena = 1..Len(t.arena)
      /\ t.stack = s /\ Len(t.arena) = b
      /\ \A g \in DOMAIN t.arena : NodeTrue(t.arena, g)
  BY LenProperties DEF TreeTyped, TreeAt
<1>4. f \in DOMAIN frames /\ line.pid = frames[f].pid /\ line.depth = frames[f].depth
  BY <1>1, <1>2 DEF LineTrue
<1>5. CASE line.kind = "invoke"
  <2> DEFINE raw == Raw(t, line)
             arena == Append(t.arena, raw)
  <2>1. /\ f = b + 1 /\ line.begun = b + 1 /\ line.after = Append(s, f)
        /\ frames[f].above = s
    BY <1>2, <1>5 DEF LineTrue
  <2>2. Build(t, line) = [arena |-> arena, stack |-> Append(t.stack, b + 1)]
    BY <1>3, <1>5 DEF Build, Pushed
  <2>3. /\ raw.pid = line.pid /\ raw.depth = line.depth /\ raw.ix = 0 /\ raw.cu = 0
        /\ raw.failed = FALSE /\ raw.parent = IF s = <<>> THEN 0 ELSE Top(s)
    BY <1>3 DEF Raw
  <2> HIDE DEF raw
  <2>4. /\ Len(arena) = b + 1 /\ DOMAIN arena = 1..(b + 1)
        /\ \A n \in 1..b : arena[n] = t.arena[n]
        /\ arena[b + 1] = raw
    <3>1. t.arena \in Seq(Node \cup {raw}) /\ raw \in Node \cup {raw}
      BY <1>3, SeqMonotonic
    <3> QED BY <1>3, <3>1, AppendProperties, LenProperties
  <2> HIDE DEF arena
  <2>5. NodeTrue(arena, f)
    BY <1>4, <2>1, <2>3, <2>4 DEF NodeTrue
  <2>6. \A g \in 1..b : NodeTrue(arena, g)
    <3> SUFFICES ASSUME NEW g \in 1..b PROVE NodeTrue(arena, g)
      OBVIOUS
    <3>1. NodeTrue(t.arena, g) /\ arena[g] = t.arena[g]
      BY <1>3, <2>4
    <3> QED BY <3>1 DEF NodeTrue
  <2>7. \A g \in DOMAIN arena : NodeTrue(arena, g)
    <3>1. \A g \in 1..(b + 1) : g \in 1..b \/ g = b + 1
      BY <1>3
    <3> QED BY <2>1, <2>4, <2>5, <2>6, <3>1
  <2> QED
    BY <1>2, <1>3, <2>1, <2>2, <2>4, <2>7 DEF TreeAt
<1>6. CASE line.kind # "invoke"
  <2>1. s # <<>> /\ f = Top(s) /\ line.begun = b
    BY <1>2, <1>6 DEF LineTrue
  <2>2. f \in DOMAIN t.arena
    BY <1>3, <2>1, Popped
  <2>3. NodeTrue(t.arena, f) /\ t.arena[f] \in Node
    BY <1>3, <2>2, ElementOfSeq
  <2> DEFINE top == t.arena[f]
  \* What is left to show when the line puts `node' for the innermost frame.
  <2>4. ASSUME NEW node, NEW after, after = line.after,
               Build(t, line) = [arena |-> [t.arena EXCEPT ![f] = node], stack |-> after],
               node.pid = top.pid, node.depth = top.depth, node.parent = top.parent,
               node.ix \in {0, frames[f].ix}, node.cu \in {0, frames[f].cu},
               node.failed => frames[f].failed
        PROVE  TreeAt(Build(t, line), k)
    <3> DEFINE arena == [t.arena EXCEPT ![f] = node]
    <3>1. NodeTrue(arena, f)
      BY <2>2, <2>3, <2>4 DEF NodeTrue
    <3>2. arena \in Seq(Node \cup {node}) /\ Len(arena) = Len(t.arena)
      <4>1. t.arena \in Seq(Node \cup {node}) /\ node \in Node \cup {node}
        BY <1>3, SeqMonotonic
      <4> QED BY <1>3, <2>2, <4>1, ExceptSeq
    <3>3. /\ DOMAIN arena = DOMAIN t.arena
          /\ \A g \in DOMAIN t.arena : g # f => arena[g] = t.arena[g]
          /\ Build(t, line) = [arena |-> arena, stack |-> line.after]
      BY <1>3, <2>4
    <3> HIDE DEF arena
    <3>4. \A g \in DOMAIN arena : NodeTrue(arena, g)
      <4> SUFFICES ASSUME NEW g \in DOMAIN t.arena, g # f PROVE NodeTrue(arena, g)
        BY <3>1, <3>3
      <4>1. NodeTrue(t.arena, g) /\ arena[g] = t.arena[g]
        BY <1>3, <3>3
      <4> QED BY <4>1 DEF NodeTrue
    <3> QED BY <1>2, <1>3, <2>1, <3>2, <3>3, <3>4 DEF TreeAt
  <2>5. CASE line.kind = "instruction"
    <3> DEFINE node == [top EXCEPT !.ix = IF top.ix = 0 THEN f ELSE top.ix]
    <3>1. line.after = s /\ frames[f].ix = f
      BY <1>2, <2>5 DEF LineTrue
    <3>2. Build(t, line) = [arena |-> [t.arena EXCEPT ![f] = node], stack |-> s]
      BY <1>3, <2>1, <2>2, <2>5 DEF Build
    <3>3. /\ node.pid = top.pid /\ node.depth = top.depth /\ node.parent = top.parent
          /\ node.ix \in {f, top.ix} /\ node.cu = top.cu /\ node.failed = top.failed
      BY <2>3 DEF Node
    <3> HIDE DEF node
    <3> QED BY <2>3, <2>4, <3>1, <3>2, <3>3 DEF NodeTrue
  <2>6. CASE line.kind = "consumed"
    <3> DEFINE node == [top EXCEPT !.cu = IF top.pid = line.pid THEN f ELSE top.cu]
    <3>1. line.after = s /\ frames[f].cu = f
      BY <1>2, <2>6 DEF LineTrue
    <3>2. Build(t, line) = [arena |-> [t.arena EXCEPT ![f] = node], stack |-> s]
      BY <1>3, <2>1, <2>2, <2>6 DEF Build
    <3>3. /\ node.pid = top.pid /\ node.depth = top.depth /\ node.parent = top.parent
          /\ node.cu \in {f, top.cu} /\ node.ix = top.ix /\ node.failed = top.failed
      BY <2>3 DEF Node
    <3> HIDE DEF node
    <3> QED BY <2>3, <2>4, <3>1, <3>2, <3>3 DEF NodeTrue
  <2>7. CASE line.kind = "success"
    <3>1. line.after = Pop(s)
      BY <1>2, <2>7 DEF LineTrue
    <3>2. t.arena = [t.arena EXCEPT ![f] = top]
      BY <1>3, <2>2
    <3>3. Build(t, line) = [arena |-> t.arena, stack |-> Pop(s)]
      BY <1>3, <2>1, <2>7 DEF Build
    <3> QED BY <2>3, <2>4, <3>1, <3>2, <3>3 DEF NodeTrue
  <2>8. CASE line.kind = "failed"
    <3> DEFINE node == [top EXCEPT !.failed = TRUE]
    <3>1. line.after = Pop(s) /\ frames[f].failed
      BY <1>2, <2>8 DEF LineTrue
    <3>2. Build(t, line) = [arena |-> [t.arena EXCEPT ![f] = node], stack |-> Pop(s)]
      BY <1>3, <2>1, <2>2, <2>8 DEF Build, Fell
    <3>3. /\ node.pid = top.pid /\ node.depth = top.depth /\ node.parent = top.parent
          /\ node.cu = top.cu /\ node.ix = top.ix
      BY <2>3 DEF Node
    <3> HIDE DEF node
    <3> QED BY <2>3, <2>4, <3>1, <3>2, <3>3 DEF NodeTrue
  <2> QED
    BY <1>1, <1>6, <2>5, <2>6, <2>7, <2>8 DEF LogLine
<1> QED
  BY <1>5, <1>6

\* While the transaction runs, the readers are where they start.
LEMMA StaysUntouched ==
    ASSUME TreeInv, LogInv', Running
    PROVE  TreeInv'
<1>1. UNCHANGED <<phase, pos, walks, tree>> /\ phase = "running"
  BY DEF Running, readers
<1>2. Untouched' /\ pos' = 0 /\ tree' = [arena |-> <<>>, stack |-> <<>>]
  BY <1>1 DEF TreeInv, Untouched
<1>3. TreeAt(tree, pos)'
  BY <1>2 DEF TreeAt, AfterLine, BegunBy
<1> QED
  BY <1>2, <1>3 DEF TreeInv

LEMMA TreeInit == Init => TreeInv
<1> SUFFICES ASSUME Init PROVE TreeInv
  OBVIOUS
<1>1. Untouched /\ pos = 0 /\ tree = [arena |-> <<>>, stack |-> <<>>]
  BY DEF Init, Untouched
<1>2. TreeAt(tree, pos)
  BY <1>1 DEF TreeAt, AfterLine, BegunBy
<1> QED
  BY <1>1, <1>2, LogInit DEF TreeInv

\* A step writes a line, reads one, or leaves both the log and the readers alone.
LEMMA StepKinds ==
    ASSUME [Next]_vars
    PROVE  \/ Running \/ Read
           \/ /\ UNCHANGED <<runtime, pos, readers>>
              /\ phase' = "running" => phase = "running"
              /\ phase' = "done" => phase = "done" \/ pos = Len(log)
<1>1. CASE \E p \in Programs : Invoke(p)
  BY <1>1 DEF Invoke
<1>2. CASE LogInstruction \/ Consume \/ Succeed \/ Fail
  BY <1>2 DEF LogInstruction, Consume, Succeed, Fail
<1>3. CASE Return \/ Annotate \/ UNCHANGED vars
  BY <1>3 DEF Return, Annotate, vars
<1> QED
  BY <1>1, <1>2, <1>3 DEF Next, Over

LEMMA TreeNext == TreeInv /\ [Next]_vars => TreeInv'
<1> SUFFICES ASSUME TreeInv, [Next]_vars PROVE TreeInv'
  OBVIOUS
<1>1. LogInv'
  BY LogNext DEF TreeInv
<1>2. CASE Running
  BY <1>1, <1>2, StaysUntouched
<1>3. CASE Read
  <2>1. /\ pos \in Nat /\ pos' = pos + 1 /\ tree' = Build(tree, log[pos'])
        /\ phase = "reading" /\ phase' = "reading"
        /\ UNCHANGED <<frames, open, log, whole>>
    BY <1>3 DEF Read, runtime, TreeInv, LogInv, TypeInv, TypeOK
  <2>2. ASSUME pos' <= whole' PROVE TreeAt(tree, pos)'
    <3>1. PICK k \in Nat : k = pos + 1
      BY <2>1
    <3>2. whole \in Nat /\ k \in 1..whole /\ k - 1 = pos /\ pos <= whole
      BY <2>1, <2>2, <3>1, LenProperties DEF TreeInv, LogInv, TypeInv, TypeOK
    <3>3. TreeTyped(tree) /\ TreeAt(tree, k - 1) /\ LogInv
      BY <3>2 DEF TreeInv, LogInv, TypeInv, TypeOK, TreeTyped
    <3>4. TreeAt(Build(tree, log[k]), k)
      BY <3>2, <3>3, BuildTrue
    <3>5. tree' = Build(tree, log[k]) /\ pos' = k
      BY <2>1, <3>1
    <3> QED BY <2>1, <3>4, <3>5 DEF TreeAt, NodeTrue, AfterLine, BegunBy
  <2> QED BY <1>1, <2>1, <2>2 DEF TreeInv, Untouched
<1>4. CASE UNCHANGED <<runtime, pos, readers>> /\ (phase' = "running" => phase = "running")
  <2>1. UNCHANGED <<frames, open, log, whole, pos, walks, tree>>
    BY <1>4 DEF runtime, readers
  <2> QED BY <1>1, <1>4, <2>1 DEF TreeInv, Untouched, TreeAt, NodeTrue, AfterLine, BegunBy
<1> QED
  BY <1>2, <1>3, <1>4, StepKinds

\* As far as the log is whole, build_tree has each invocation in its place, with
\* its own name, units and failure and no other's.
THEOREM TreeIsTheInvocationsAlways == Spec => []TreeIsTheInvocations
<1>1. TreeInv => TreeIsTheInvocations
  BY DEF TreeInv, TreeAt, NodeTrue, TreeIsTheInvocations
<1> QED
  BY <1>1, TreeInit, TreeNext, PTL DEF Spec

-----------------------------------------------------------------------------
(* The walk.                                                               *)

\* detect_reentry after k lines: its stack is the log's, frame by frame, until
\* it returns with the first re-entry.
WalkAt(w, a, k) ==
    IF w.found = NoReentry
    THEN /\ Len(w.stack) = Len(AfterLine(k))
         /\ \A n \in 1..Len(w.stack) :
               w.stack[n].pid = frames[AfterLine(k)[n]].pid /\ w.stack[n].depth = n
         /\ \A f \in Begun(k) : ~Reenters(f, a)
    ELSE \E f \in Begun(k) : \E n \in DOMAIN frames[f].above :
            /\ FirstReentry(Begun(k), a, f, n)
            /\ w.found = [pid |-> frames[f].pid, outer |-> n, inner |-> frames[f].depth]

\* Invocations begin in the order of their numbers.
InOrder(k) == Begun(k) = 1..BegunBy(k)

WalkInv ==
    TreeInv /\ (pos <= whole => InOrder(pos) /\ \A a \in Allowlists : WalkAt(walks[a], a, pos))

LEMMA NextInOrder ==
    ASSUME LogInv, NEW k \in 1..whole, InOrder(k - 1)
    PROVE  InOrder(k) /\ BegunBy(k - 1) \in Nat /\ BegunBy(k) \in Nat
<1> DEFINE b == BegunBy(k - 1)
<1>1. k \in Nat /\ k # 0 /\ k - 1 \in Nat /\ k - 1 <= whole /\ whole \in Nat /\ Len(frames) \in Nat
  BY LenProperties DEF LogInv, TypeInv, TypeOK
<1>2. b \in Nat
  <2>1. CASE k - 1 = 0
    BY <2>1 DEF BegunBy
  <2>2. CASE k - 1 # 0
    <3>1. LineTrue(k - 1)
      BY <1>1, <2>2 DEF LogInv, LogTrue
    <3> QED BY <1>1, <2>2, <3>1 DEF LineTrue, BegunBy
  <2> QED BY <2>1, <2>2
<1>3. LineTrue(k) /\ BegunBy(k) = log[k].begun
  BY <1>1 DEF LogInv, LogTrue, BegunBy
<1>4. CASE log[k].kind = "invoke"
  <2>1. Begun(k) = Begun(k - 1) \cup {log[k].of}
    BY <1>1, <1>4 DEF Begun
  <2>2. log[k].of = b + 1 /\ log[k].begun = b + 1
    BY <1>3, <1>4 DEF LineTrue
  <2>3. (1..b) \cup {b + 1} = 1..(b + 1)
    BY <1>2
  <2> QED BY <1>2, <1>3, <2>1, <2>2, <2>3 DEF InOrder
<1>5. CASE log[k].kind # "invoke"
  <2>1. Begun(k) = Begun(k - 1)
    BY <1>1, <1>5 DEF Begun
  <2>2. log[k].begun = b
    BY <1>3, <1>5 DEF LineTrue
  <2> QED BY <1>2, <1>3, <2>1, <2>2 DEF InOrder
<1> QED
  BY <1>2, <1>4, <1>5

\* The first re-entry stays the first.
LEMMA FirstStays ==
    ASSUME NEW b \in Nat, NEW c \in Nat, b <= c, NEW a, NEW f, NEW n,
           FirstReentry(1..b, a, f, n)
    PROVE  FirstReentry(1..c, a, f, n)
BY DEF FirstReentry

LEMMA WalkTrue ==
    ASSUME LogInv, NEW k \in 1..whole, InOrder(k - 1), NEW a,
           NEW w \in Walker, Once(w.stack, a), WalkAt(w, a, k - 1)
    PROVE  WalkAt(Walk(w, log[k], a), a, k)
<1> DEFINE line == log[k]
           f == log[k].of
           s == AfterLine(k - 1)
           b == BegunBy(k - 1)
           new == [pid |-> line.pid, depth |-> line.depth]
<1>1. /\ k # 0 /\ k \in 1..Len(log) /\ line \in LogLine /\ frames \in Seq(Frame)
      /\ DOMAIN frames = 1..Len(frames) /\ Len(frames) \in Nat
  BY LenProperties, ElementOfSeq DEF LogInv, TypeInv, TypeOK
<1>2. LineTrue(k) /\ AfterLine(k) = line.after /\ BegunBy(k) = line.begun
  BY <1>1 DEF LogInv, LogTrue, AfterLine, BegunBy
<1>3. InOrder(k) /\ b \in Nat /\ BegunBy(k) \in Nat /\ Begun(k - 1) = 1..b
  BY NextInOrder DEF InOrder
<1>4. /\ w.stack \in Seq(Entry) /\ w.found \in Found /\ new \in Entry
      /\ Len(w.stack) \in Nat /\ DOMAIN w.stack = 1..Len(w.stack)
      /\ line.pid \in Programs /\ line.depth \in Depth
      /\ f \in DOMAIN frames /\ line.pid = frames[f].pid /\ line.depth = frames[f].depth
  BY <1>1, <1>2, LenProperties DEF Walker, LogLine, Entry, LineTrue
<1>5. s \in Seq(1..Len(frames)) /\ DOMAIN s = 1..Len(s) /\ Len(s) \in Nat
  <2>1. CASE k - 1 = 0
    BY <2>1, EmptySeq, LenProperties DEF AfterLine
  <2>2. CASE k - 1 # 0
    <3>1. k - 1 \in 1..whole
      BY <1>1, <2>2 DEF LogInv, TypeInv, TypeOK
    <3>2. s = log[k - 1].after /\ LineTrue(k - 1)
      BY <2>2, <3>1 DEF LogInv, LogTrue, AfterLine
    <3> QED BY <3>2, LenProperties DEF LineTrue
  <2> QED BY <2>1, <2>2
<1>6. CASE w.found # NoReentry
  <2>1. Walk(w, line, a) = w
    BY <1>6 DEF Walk
  <2>2. PICK g \in 1..b : \E n \in DOMAIN frames[g].above :
           /\ FirstReentry(1..b, a, g, n)
           /\ w.found = [pid |-> frames[g].pid, outer |-> n, inner |-> frames[g].depth]
    BY <1>3, <1>6 DEF WalkAt
  <2>3. b <= BegunBy(k)
    BY <1>2, <1>3 DEF LineTrue
  <2>4. g \in 1..BegunBy(k) /\ \E n \in DOMAIN frames[g].above :
           /\ FirstReentry(1..BegunBy(k), a, g, n)
           /\ w.found = [pid |-> frames[g].pid, outer |-> n, inner |-> frames[g].depth]
    BY <1>3, <2>2, <2>3, FirstStays
  <2> QED BY <1>3, <1>6, <2>1, <2>4 DEF WalkAt, InOrder
<1>7. CASE w.found = NoReentry /\ line.kind = "invoke"
  <2>1. /\ f = b + 1 /\ line.begun = b + 1 /\ line.after = Append(s, f)
        /\ frames[f].above = s /\ frames[f].depth = Len(s) + 1
    BY <1>2, <1>7 DEF LineTrue
  <2>2. /\ Begun(k) = 1..f
        /\ \A g \in 1..f : g \in 1..b \/ g = f
        /\ f \in 1..f /\ \A g \in 1..f : g <= f
    BY <1>2, <1>3, <2>1 DEF InOrder
  <2>3. /\ Len(w.stack) = Len(s)
        /\ \A n \in 1..Len(s) : w.stack[n].pid = frames[s[n]].pid /\ w.stack[n].depth = n
        /\ \A g \in 1..b : ~Reenters(g, a)
    BY <1>3, <1>7 DEF WalkAt
  <2>4. \A n \in 1..Len(s) : Encloses(n, f) <=> w.stack[n].pid = line.pid
    BY <1>4, <2>1, <2>3 DEF Encloses
  <2>5. CASE line.pid \notin a /\ \E n \in 1..Len(s) : w.stack[n].pid = line.pid
    <3>1. PICK n \in 1..Len(s) : w.stack[n].pid = line.pid
      BY <2>5
    <3>2. \A m \in 1..Len(s) : w.stack[m].pid = line.pid => m = n
      BY <1>4, <2>3, <2>5, <3>1 DEF Once
    <3>3. OuterDepth(w.stack, line.pid) = n
      <4>1. w.stack \in Seq(Entry) /\ n \in DOMAIN w.stack
        BY <1>4, <2>3, <3>1
      <4>2. \A m \in DOMAIN w.stack : w.stack[m].pid = w.stack[n].pid => m = n
        BY <1>4, <2>3, <3>1, <3>2
      <4>3. OuterDepth(w.stack, w.stack[n].pid) = w.stack[n].depth
        BY <4>1, <4>2, OuterIs
      <4> QED BY <2>3, <3>1, <4>3
    <3>4. Reenters(f, a)
      BY <1>4, <1>5, <2>1, <2>4, <2>5 DEF Reenters
    <3>5. \A m \in 1..(n - 1) : ~Encloses(m, f)
      <4>1. \A m \in 1..(n - 1) : m \in 1..Len(s) /\ m # n
        BY <1>5, <3>1
      <4> QED BY <2>4, <3>2, <4>1
    <3>6. FirstReentry(1..f, a, f, n)
      BY <1>5, <2>1, <2>2, <2>3, <2>4, <3>1, <3>4, <3>5 DEF FirstReentry
    <3> DEFINE r == [pid |-> line.pid, outer |-> n, inner |-> line.depth]
    <3>7. Walk(w, line, a) = [w EXCEPT !.found = r]
      BY <1>4, <1>7, <2>3, <2>5, <3>3 DEF Walk
    <3>8. r # NoReentry
      <4>1. w.stack[n] \in Entry /\ w.stack[n].depth = n
        BY <1>4, <2>3, <3>1, ElementOfSeq
      <4>2. n \in Depth
        BY <4>1 DEF Entry
      <4> QED BY <1>4, <4>2, ReentryAssumption DEF Depth
    <3>9. Walk(w, line, a).found = r
      BY <3>7 DEF Walker
    <3>10. r = [pid |-> frames[f].pid, outer |-> n, inner |-> frames[f].depth]
      BY <1>4
    <3> HIDE DEF r
    <3> QED BY <1>5, <2>1, <2>2, <3>1, <3>6, <3>8, <3>9, <3>10 DEF WalkAt
  <2>6. CASE line.pid \in a \/ \A n \in 1..Len(s) : w.stack[n].pid # line.pid
    <3>1. Walk(w, line, a) = [w EXCEPT !.stack = Append(w.stack, new)]
      BY <1>4, <1>7, <2>3, <2>6 DEF Walk
    <3>2. Walk(w, line, a).stack = Append(w.stack, new) /\ Walk(w, line, a).found = NoReentry
      BY <1>7, <3>1 DEF Walker
    <3>3. ~Reenters(f, a)
      BY <1>4, <1>5, <2>1, <2>4, <2>6 DEF Reenters
    <3>4. \A g \in Begun(k) : ~Reenters(g, a)
      BY <2>2, <2>3, <3>3
    <3> DEFINE ws == Append(w.stack, new)
               fs == Append(s, f)
    <3>5. /\ Len(ws) = Len(s) + 1 /\ ws[Len(s) + 1] = new
          /\ \A n \in 1..Len(s) : ws[n] = w.stack[n]
      BY <1>4, <2>3, AppendProperties
    <3>6. /\ Len(fs) = Len(s) + 1 /\ fs[Len(s) + 1] = f
          /\ \A n \in 1..Len(s) : fs[n] = s[n]
      BY <1>1, <1>4, <1>5, AppendProperties
    <3>7. new.pid = frames[f].pid /\ new.depth = Len(s) + 1
      BY <1>4, <2>1
    <3>8. \A n \in 1..(Len(s) + 1) : n \in 1..Len(s) \/ n = Len(s) + 1
      BY <1>5
    <3> HIDE DEF ws, fs, new
    <3>9. \A n \in 1..Len(ws) : ws[n].pid = frames[fs[n]].pid /\ ws[n].depth = n
      BY <2>3, <3>5, <3>6, <3>7, <3>8
    <3>10. AfterLine(k) = fs /\ Walk(w, line, a).stack = ws
      BY <1>2, <2>1, <3>2 DEF fs, ws
    <3> QED BY <3>2, <3>4, <3>5, <3>6, <3>9, <3>10 DEF WalkAt
  <2> QED BY <2>5, <2>6
<1>8. CASE w.found = NoReentry /\ line.kind # "invoke"
  <2>1. /\ Len(w.stack) = Len(s)
        /\ \A n \in 1..Len(s) : w.stack[n].pid = frames[s[n]].pid /\ w.stack[n].depth = n
        /\ \A g \in 1..b : ~Reenters(g, a)
    BY <1>3, <1>8 DEF WalkAt
  <2>2. s # <<>> /\ Begun(k) = 1..b
    BY <1>2, <1>3, <1>8 DEF LineTrue, InOrder
  <2>3. CASE line.kind \in {"success", "failed"}
    <3>1. Walk(w, line, a) = [w EXCEPT !.stack = Pop(w.stack)] /\ AfterLine(k) = Pop(s)
      BY <1>2, <1>8, <2>3 DEF Walk, LineTrue
    <3>2. Walk(w, line, a).stack = Pop(w.stack) /\ Walk(w, line, a).found = NoReentry
      BY <1>8, <3>1 DEF Walker
    <3>3. /\ Len(Pop(s)) = Len(s) - 1 /\ Len(s) >= 1
          /\ \A n \in 1..(Len(s) - 1) : Pop(s)[n] = s[n]
      BY <1>5, <2>2, Popped
    <3>4. w.stack # <<>>
      BY <2>1, <3>3, LenProperties
    <3>5. /\ Len(Pop(w.stack)) = Len(s) - 1
          /\ \A n \in 1..(Len(s) - 1) : Pop(w.stack)[n] = w.stack[n]
      <4>1. w.stack \in Seq(Entry)
        BY <1>4
      <4>2. /\ Len(Pop(w.stack)) = Len(w.stack) - 1
            /\ \A n \in 1..(Len(w.stack) - 1) : Pop(w.stack)[n] = w.stack[n]
        BY <3>4, <4>1, Popped
      <4> QED BY <2>1, <4>2
    <3>6. \A n \in 1..(Len(s) - 1) : n \in 1..Len(s)
      BY <1>5
    <3>7. \A n \in 1..Len(Pop(w.stack)) :
            Pop(w.stack)[n].pid = frames[Pop(s)[n]].pid /\ Pop(w.stack)[n].depth = n
      BY <2>1, <3>3, <3>5, <3>6
    <3> QED BY <2>1, <2>2, <3>1, <3>2, <3>3, <3>5, <3>7 DEF WalkAt
  <2>4. CASE line.kind \in {"instruction", "consumed"}
    <3>1. Walk(w, line, a) = w /\ AfterLine(k) = s
      BY <1>2, <1>8, <2>4 DEF Walk, LineTrue
    <3> QED BY <1>8, <2>1, <2>2, <3>1 DEF WalkAt
  <2> QED BY <1>1, <1>8, <2>3, <2>4 DEF LogLine
<1> QED
  BY <1>6, <1>7, <1>8

LEMMA NothingWalked ==
    ASSUME NEW w, NEW a, w.stack = <<>>, w.found = NoReentry
    PROVE  WalkAt(w, a, 0)
<1>1. Begun(0) = {} /\ AfterLine(0) = <<>> /\ Len(<<>>) = 0
  BY DEF Begun, AfterLine
<1>2. 1..0 = {}
  OBVIOUS
<1> QED
  BY <1>1, <1>2 DEF WalkAt

LEMMA WalkInit == Init => WalkInv
<1> SUFFICES ASSUME Init PROVE WalkInv
  OBVIOUS
<1>1. pos = 0 /\ \A a \in Allowlists : walks[a].stack = <<>> /\ walks[a].found = NoReentry
  BY DEF Init
<1>2. InOrder(pos)
  BY <1>1 DEF InOrder, Begun, BegunBy
<1>3. \A a \in Allowlists : WalkAt(walks[a], a, pos)
  BY <1>1, NothingWalked
<1> QED
  BY <1>2, <1>3, TreeInit DEF WalkInv

\* What holds of the new reader and the old log holds in the new state.
LEMMA SameLog ==
    ASSUME UNCHANGED <<frames, log>>, NEW k, k = pos', NEW a, NEW w, w = walks'[a]
    PROVE  (InOrder(k) => InOrder(pos)') /\ (WalkAt(w, a, k) => WalkAt(walks[a], a, pos)')
<1>1. Begun(pos)' = Begun(k)
  BY DEF Begun
<1>2. AfterLine(pos)' = AfterLine(k) /\ BegunBy(pos)' = BegunBy(k)
  BY DEF AfterLine, BegunBy
<1>3. \A f, n : Encloses(n, f)' <=> Encloses(n, f)
  BY DEF Encloses
<1>4. \A f : Reenters(f, a)' <=> Reenters(f, a)
  BY <1>3 DEF Reenters
<1>5. \A f, n : FirstReentry(Begun(k), a, f, n) => FirstReentry(Begun(pos), a, f, n)'
  BY <1>1, <1>3, <1>4 DEF FirstReentry
<1> QED
  BY <1>1, <1>2, <1>4, <1>5 DEF InOrder, WalkAt

LEMMA WalkNext == WalkInv /\ [Next]_vars => WalkInv'
<1> SUFFICES ASSUME WalkInv, [Next]_vars PROVE WalkInv'
  OBVIOUS
<1>1. TreeInv'
  BY TreeNext DEF WalkInv
<1>2. CASE Running
  <2>1. pos' = 0 /\ \A a \in Allowlists : walks'[a].stack = <<>> /\ walks'[a].found = NoReentry
    BY <1>1, <1>2 DEF Running, TreeInv, Untouched
  <2>2. InOrder(0)' /\ \A a \in Allowlists : WalkAt(walks[a], a, 0)'
    <3>1. Begun(0)' = {} /\ BegunBy(0)' = 0 /\ AfterLine(0)' = <<>> /\ Len(<<>>) = 0
      BY DEF Begun, BegunBy, AfterLine
    <3>2. 1..0 = {}
      OBVIOUS
    <3> QED BY <2>1, <3>1, <3>2 DEF InOrder, WalkAt
  <2>3. pos' = 0 => (InOrder(0)' <=> InOrder(pos)')
    BY DEF InOrder, Begun, BegunBy
  <2>4. pos' = 0 => \A a \in Allowlists : WalkAt(walks[a], a, 0)' <=> WalkAt(walks[a], a, pos)'
    BY DEF WalkAt, AfterLine, Begun, FirstReentry
  <2> QED BY <1>1, <2>1, <2>2, <2>3, <2>4 DEF WalkInv
<1>3. CASE Read
  <2>1. /\ pos \in Nat /\ pos' = pos + 1
        /\ walks' = [a \in Allowlists |-> Walk(walks[a], log[pos'], a)]
        /\ UNCHANGED <<frames, open, log, whole>>
    BY <1>3 DEF Read, runtime, WalkInv, TreeInv, LogInv, TypeInv, TypeOK
  <2>2. ASSUME pos' <= whole'
        PROVE  InOrder(pos)' /\ \A a \in Allowlists : WalkAt(walks[a], a, pos)'
    <3>1. PICK k \in Nat : k = pos + 1
      BY <2>1
    <3>2. k \in 1..whole /\ k - 1 = pos /\ pos <= whole /\ pos' = k
      BY <2>1, <2>2, <3>1, LenProperties DEF WalkInv, TreeInv, LogInv, TypeInv, TypeOK
    <3>3. LogInv /\ InOrder(k - 1)
      BY <3>2 DEF WalkInv, TreeInv
    <3>4. InOrder(k)
      BY <3>2, <3>3, NextInOrder
    <3>5. ASSUME NEW a \in Allowlists PROVE WalkAt(walks'[a], a, k)
      <4>1. walks[a] \in Walker /\ Once(walks[a].stack, a) /\ WalkAt(walks[a], a, k - 1)
        BY <3>2, <3>3 DEF WalkInv, LogInv, TypeInv, TypeOK, OncePerStack, Walker, Entry
      <4>2. walks'[a] = Walk(walks[a], log[k], a)
        BY <2>1, <3>2
      <4> QED BY <3>2, <3>3, <4>1, <4>2, WalkTrue
    <3>6. ASSUME NEW a \in Allowlists PROVE InOrder(pos)' /\ WalkAt(walks[a], a, pos)'
      <4>1. PICK w : w = walks'[a]
        OBVIOUS
      <4>2. WalkAt(w, a, k)
        BY <3>5, <4>1
      <4> QED BY <2>1, <3>2, <3>4, <4>1, <4>2, SameLog
    <3> QED BY <3>6, ReentryAssumption
  <2> QED BY <1>1, <2>2 DEF WalkInv
<1>4. CASE UNCHANGED <<runtime, pos, readers>>
  <2>1. UNCHANGED <<frames, log, whole, pos, walks>>
    BY <1>4 DEF runtime, readers
  <2>2. ASSUME pos' <= whole', NEW a \in Allowlists
        PROVE  InOrder(pos)' /\ WalkAt(walks[a], a, pos)'
    <3>1. PICK k, w : k = pos' /\ w = walks'[a]
      OBVIOUS
    <3>2. InOrder(k) /\ WalkAt(w, a, k)
      BY <2>1, <2>2, <3>1 DEF WalkInv
    <3> QED BY <2>1, <3>1, <3>2, SameLog
  <2> QED BY <1>1, <2>2, ReentryAssumption DEF WalkInv
<1> QED
  BY <1>2, <1>3, <1>4, StepKinds

\* As far as the log is whole, detect_reentry has found the first re-entry, and
\* its two depths, under every allowlist; and it has found none if there is none.
THEOREM FindsFirstReentryAlways == Spec => []FindsFirstReentry
<1>1. WalkInv => FindsFirstReentry
  <2> SUFFICES ASSUME WalkInv, pos <= whole, NEW a \in Allowlists
               PROVE  IF \E f \in Begun(pos) : Reenters(f, a)
                      THEN \E f \in Begun(pos) : \E n \in DOMAIN frames[f].above :
                              /\ FirstReentry(Begun(pos), a, f, n)
                              /\ walks[a].found = [pid |-> frames[f].pid, outer |-> n,
                                                   inner |-> frames[f].depth]
                      ELSE walks[a].found = NoReentry
    BY DEF FindsFirstReentry
  <2>1. WalkAt(walks[a], a, pos)
    BY DEF WalkInv
  <2> QED BY <2>1 DEF WalkAt, FirstReentry
<1> QED
  BY <1>1, WalkInit, WalkNext, PTL DEF Spec

-----------------------------------------------------------------------------
(* What was found is kept.                                                 *)

MissInv ==
    /\ WalkInv
    /\ pos >= whole =>
         \A a \in Allowlists :
            (\E f \in Begun(whole) : Reenters(f, a)) => walks[a].found # NoReentry
    /\ phase = "done" => pos = Len(log)

LEMMA MissNext == MissInv /\ [Next]_vars => MissInv'
<1> SUFFICES ASSUME MissInv, [Next]_vars PROVE MissInv'
  OBVIOUS
<1>1. WalkInv' /\ whole' \in Nat /\ whole \in Nat /\ pos \in Nat
  <2>1. WalkInv /\ WalkInv'
    BY WalkNext DEF MissInv
  <2>2. TypeOK /\ TypeOK'
    BY <2>1 DEF WalkInv, TreeInv, LogInv, TypeInv
  <2> QED BY <2>1, <2>2, LenProperties DEF TypeOK
<1>2. CASE Running
  <2>1. pos' = 0 /\ phase' # "done"
    BY <1>1, <1>2 DEF Running, WalkInv, TreeInv, Untouched
  <2>2. whole' = 0 => Begun(whole)' = {}
    BY DEF Begun
  <2> QED BY <1>1, <2>1, <2>2 DEF MissInv
<1>3. CASE Read
  <2>1. /\ pos' = pos + 1 /\ phase' # "done" /\ UNCHANGED <<frames, log, whole>>
        /\ \A a \in Allowlists : walks'[a] = Walk(walks[a], log[pos'], a)
    BY <1>3 DEF Read, runtime
  <2>2. ASSUME NEW a \in Allowlists, pos' >= whole, NEW f \in Begun(whole), Reenters(f, a)
        PROVE  walks'[a].found # NoReentry
    <3>1. CASE pos >= whole
      <4>1. walks[a].found # NoReentry
        BY <2>2, <3>1 DEF MissInv
      <4> QED BY <2>1, <4>1 DEF Walk
    <3>2. CASE pos' = whole
      <4>1. WalkAt(walks[a], a, pos)'
        BY <1>1, <2>1, <3>2 DEF WalkInv
      <4>2. f \in Begun(pos)' /\ Reenters(f, a)'
        BY <2>1, <2>2, <3>2 DEF Begun, Reenters, Encloses
      <4> QED BY <4>1, <4>2 DEF WalkAt
    <3> QED BY <1>1, <2>1, <2>2, <3>1, <3>2
  <2>3. \A f : f \in Begun(whole)' => f \in Begun(whole)
    BY <2>1 DEF Begun
  <2>4. \A f, a : Reenters(f, a)' => Reenters(f, a)
    BY <2>1 DEF Reenters, Encloses
  <2> QED BY <1>1, <2>1, <2>2, <2>3, <2>4 DEF MissInv
<1>4. CASE UNCHANGED <<runtime, pos, readers>>
  <2>1. UNCHANGED <<frames, log, whole, pos, walks>>
    BY <1>4 DEF runtime, readers
  <2>2. phase' = "done" => pos' = Len(log')
    <3>1. CASE phase = "done"
      BY <2>1, <3>1 DEF MissInv
    <3>2. CASE phase # "done"
      BY <2>1, <3>2 DEF Next, Return, Read, Annotate, Over, vars, Invoke, LogInstruction,
         Consume, Succeed, Fail, Running
    <3> QED BY <3>1, <3>2
  <2> QED BY <1>1, <2>1, <2>2 DEF MissInv, Begun, Reenters, Encloses
<1> QED
  BY <1>2, <1>3, <1>4, StepKinds

\* A re-entry the whole part of the log shows is reported at the end, whatever
\* lines are missing after it: what comes later cannot undo it.
THEOREM NoReentryMissedAlways == Spec => []NoReentryMissed
<1>1. Init => MissInv
  <2> SUFFICES ASSUME Init PROVE MissInv
    OBVIOUS
  <2>1. Begun(0) = {} /\ whole = 0 /\ phase # "done"
    BY DEF Begun, Init
  <2> QED BY <2>1, WalkInit DEF MissInv
<1>2. MissInv => NoReentryMissed
  <2>1. MissInv => whole \in 0..Len(log) /\ Len(log) \in Nat
    BY LenProperties DEF MissInv, WalkInv, TreeInv, LogInv, TypeInv, TypeOK
  <2> QED BY <2>1 DEF MissInv, NoReentryMissed
<1> QED
  BY <1>1, <1>2, MissNext, PTL DEF Spec
-----------------------------------------------------------------------------
(* What the transaction said of itself, and what the tree has heard.        *)

Told(lines, kind, f) == \E k \in DOMAIN lines : lines[k].kind = kind /\ lines[k].of = f

\* What frame f of `some' says is its own, and in the lines.
FrameTold(some, lines, f) ==
    /\ some[f].ix \in {0, f} /\ some[f].cu \in {0, f}
    /\ some[f].ix # 0 => Told(lines, "instruction", f)
    /\ some[f].cu # 0 => Told(lines, "consumed", f)
    /\ some[f].failed => Told(lines, "failed", f)

LoggedInv == \A f \in DOMAIN frames : ~full => FrameTold(frames, log, f)

\* Frame g says nothing that it did not say before, but for what a line of one
\* kind, about frame f, tells.
Adds(kind, f, g) ==
    /\ frames'[g].ix # 0 =>
          (g \in DOMAIN frames /\ frames'[g].ix = frames[g].ix) \/ (kind = "instruction" /\ g = f /\ frames'[g].ix = g)
    /\ frames'[g].cu # 0 =>
          (g \in DOMAIN frames /\ frames'[g].cu = frames[g].cu) \/ (kind = "consumed" /\ g = f /\ frames'[g].cu = g)
    /\ frames'[g].failed =>
          (g \in DOMAIN frames /\ frames[g].failed) \/ (kind = "failed" /\ g = f)

LEMMA LoggedStep ==
    ASSUME TypeInv, TypeInv', LoggedInv, NEW kind, NEW f, Line(kind, f) \in LogLine,
           Emit(Line(kind, f)), \A g \in DOMAIN frames' : Adds(kind, f, g)
    PROVE  LoggedInv'
<1> DEFINE line == Line(kind, f)
<1>1. line.kind = kind /\ line.of = f
  BY DEF Line
<1> SUFFICES ASSUME NEW g \in DOMAIN frames', ~full' PROVE FrameTold(frames', log', g)
  BY DEF LoggedInv
<1>2. log' = Append(log, line) /\ ~full
  BY DEF Emit, TypeInv, TypeOK
<1> HIDE DEF line
<1>3. /\ DOMAIN log \subseteq DOMAIN log' /\ \A k \in DOMAIN log : log'[k] = log[k]
      /\ \E k \in DOMAIN log' : log'[k] = line
  <2>1. log \in Seq(LogLine) /\ line \in LogLine
    BY DEF TypeInv, TypeOK, line
  <2>2. /\ log' \in Seq(LogLine) /\ Len(log) \in Nat /\ Len(log') = Len(log) + 1
        /\ DOMAIN log = 1..Len(log) /\ DOMAIN log' = 1..Len(log')
        /\ \A k \in 1..Len(log) : log'[k] = log[k]
        /\ log'[Len(log) + 1] = line
    BY <1>2, <2>1, AppendProperties, LenProperties
  <2> QED BY <2>2
<1>4. \A other, h : Told(log, other, h) => Told(log', other, h)
  BY <1>3 DEF Told
<1>5. Told(log', kind, f)
  BY <1>1, <1>3 DEF Told
<1>6. Adds(kind, f, g) /\ (g \in DOMAIN frames => FrameTold(frames, log, g))
  BY <1>2 DEF LoggedInv
<1> QED BY <1>4, <1>5, <1>6 DEF Adds, FrameTold

\* The innermost frame says something, or nothing.
LEMMA TopAdds ==
    ASSUME LogInv, TypeInv', NEW kind, open # <<>>,
           NEW node, frames' = [frames EXCEPT ![Top(open)] = node],
           node.ix = frames[Top(open)].ix \/ (kind = "instruction" /\ node.ix = Top(open)),
           node.cu = frames[Top(open)].cu \/ (kind = "consumed" /\ node.cu = Top(open)),
           node.failed => frames[Top(open)].failed \/ kind = "failed",
           NEW g \in DOMAIN frames'
    PROVE  Adds(kind, Top(open), g)
<1>1. frames \in Seq(Frame) /\ Top(open) \in DOMAIN frames
  BY OpenTop DEF LogInv, TypeInv, TypeOK
<1>2. /\ DOMAIN frames' = DOMAIN frames /\ frames'[Top(open)] = node
      /\ \A h \in DOMAIN frames : h # Top(open) => frames'[h] = frames[h]
  BY <1>1
<1>3. CASE g = Top(open)
  BY <1>2, <1>3 DEF Adds
<1>4. CASE g # Top(open)
  BY <1>2, <1>4 DEF Adds
<1> QED BY <1>3, <1>4

LEMMA LoggedNext ==
    ASSUME LogInv, LogInv', LoggedInv, [Next]_vars
    PROVE  LoggedInv'
<1>1. /\ TypeInv /\ TypeInv' /\ frames \in Seq(Frame) /\ DOMAIN frames = 1..Len(frames) /\ Len(frames) \in Nat
      /\ frames' \in Seq(Frame) /\ DOMAIN frames' = 1..Len(frames') /\ Len(frames') \in Nat
      /\ open \in Seq(DOMAIN frames) /\ open' \in Seq(DOMAIN frames')
  BY LenProperties DEF LogInv, TypeInv, TypeOK
<1>2. ASSUME NEW kind \in Kinds, NEW f \in DOMAIN frames',
             Emit(Line(kind, f)), \A g \in DOMAIN frames' : Adds(kind, f, g)
      PROVE  LoggedInv'
  <2>1. Line(kind, f) \in LogLine
    BY <1>1, LineTyped DEF TypeInv, TypeOK
  <2> QED BY <1>1, <1>2, <2>1, LoggedStep
<1>3. CASE \E p \in Programs : Invoke(p)
  <2>1. PICK p \in Programs : Invoke(p)
    BY <1>3
  <2> DEFINE new == [pid |-> p, depth |-> Len(open) + 1, above |-> open,
                     ix |-> 0, cu |-> 0, failed |-> FALSE]
             last == Len(frames')
  <2>2. frames' = Append(frames, new) /\ Emit(Line("invoke", last))
    BY <2>1 DEF Invoke
  <2>3. new.ix = 0 /\ new.cu = 0 /\ new.failed = FALSE
    OBVIOUS
  <2> HIDE DEF new
  <2>4. /\ last = Len(frames) + 1 /\ frames'[last] = new
        /\ \A g \in DOMAIN frames : frames'[g] = frames[g]
    <3>1. frames \in Seq(Frame \cup {new}) /\ new \in Frame \cup {new}
      BY <1>1, SeqMonotonic
    <3> QED BY <1>1, <2>2, <3>1, AppendProperties, LenProperties
  <2>5. ASSUME NEW g \in DOMAIN frames' PROVE Adds("invoke", last, g)
    <3>1. g \in DOMAIN frames \/ g = last
      BY <1>1, <2>4
    <3> HIDE DEF last
    <3> QED BY <2>3, <2>4, <3>1 DEF Adds
  <2>6. last \in DOMAIN frames' /\ "invoke" \in Kinds
    BY <1>1, <2>4 DEF Kinds
  <2> QED BY <1>2, <2>2, <2>5, <2>6
<1>4. ASSUME NEW kind \in Kinds, NEW node, open # <<>>,
             frames' = [frames EXCEPT ![Top(open)] = node], Emit(Line(kind, Top(open))),
             node.ix = frames[Top(open)].ix \/ (kind = "instruction" /\ node.ix = Top(open)),
             node.cu = frames[Top(open)].cu \/ (kind = "consumed" /\ node.cu = Top(open)),
             node.failed => frames[Top(open)].failed \/ kind = "failed"
      PROVE  LoggedInv'
  <2>1. Top(open) \in DOMAIN frames'
    BY <1>1, <1>4, OpenTop
  <2>2. \A g \in DOMAIN frames' : Adds(kind, Top(open), g)
    BY <1>1, <1>4, TopAdds
  <2> QED BY <1>2, <1>4, <2>1, <2>2
<1>5. CASE LogInstruction
  <2> DEFINE node == [frames[Top(open)] EXCEPT !.ix = Top(open)]
  <2>1. /\ open # <<>> /\ Emit(Line("instruction", Top(open)))
        /\ frames' = [frames EXCEPT ![Top(open)] = node]
    BY <1>5 DEF LogInstruction
  <2>2. frames[Top(open)] \in Frame
    BY <1>1, <2>1, OpenTop
  <2>3. node.ix = Top(open) /\ node.cu = frames[Top(open)].cu /\ node.failed = frames[Top(open)].failed
    BY <2>2 DEF Frame
  <2> HIDE DEF node
  <2> QED BY <1>4, <2>1, <2>3 DEF Kinds
<1>6. CASE Consume
  <2> DEFINE node == [frames[Top(open)] EXCEPT !.cu = Top(open)]
  <2>1. /\ open # <<>> /\ Emit(Line("consumed", Top(open)))
        /\ frames' = [frames EXCEPT ![Top(open)] = node]
    BY <1>6 DEF Consume
  <2>2. frames[Top(open)] \in Frame
    BY <1>1, <2>1, OpenTop
  <2>3. node.cu = Top(open) /\ node.ix = frames[Top(open)].ix /\ node.failed = frames[Top(open)].failed
    BY <2>2 DEF Frame
  <2> HIDE DEF node
  <2> QED BY <1>4, <2>1, <2>3 DEF Kinds
<1>7. CASE Succeed
  <2> DEFINE node == frames[Top(open)]
  <2>1. open # <<>> /\ Emit(Line("success", Top(open))) /\ frames' = frames
    BY <1>7 DEF Succeed
  <2>2. frames' = [frames EXCEPT ![Top(open)] = node]
    BY <1>1, <2>1
  <2> QED BY <1>4, <2>1, <2>2 DEF Kinds
<1>8. CASE Fail
  <2> DEFINE node == [frames[Top(open)] EXCEPT !.failed = TRUE]
  <2>1. /\ open # <<>> /\ Emit(Line("failed", Top(open)))
        /\ frames' = [frames EXCEPT ![Top(open)] = node]
    BY <1>8 DEF Fail
  <2>2. frames[Top(open)] \in Frame
    BY <1>1, <2>1, OpenTop
  <2>3. node.cu = frames[Top(open)].cu /\ node.ix = frames[Top(open)].ix
    BY <2>2 DEF Frame
  <2> HIDE DEF node
  <2> QED BY <1>4, <2>1, <2>3 DEF Kinds
<1>9. CASE UNCHANGED runtime
  BY <1>9 DEF runtime, LoggedInv
<1>10. Return \/ Read \/ Annotate \/ UNCHANGED vars => UNCHANGED runtime
  BY DEF Return, Read, Annotate, vars
<1> QED
  BY <1>3, <1>5, <1>6, <1>7, <1>8, <1>9, <1>10 DEF Next, Over
\* The arena shows what the line tells.
Heard(arena, line) ==
    LET f == line.of IN
    /\ f \in DOMAIN arena
    /\ line.kind = "instruction" => arena[f].ix = f
    /\ line.kind = "consumed" => arena[f].cu = f
    /\ line.kind = "failed" => arena[f].failed

\* One arena shows what another does.
Keeps(old, new) ==
    /\ DOMAIN old \subseteq DOMAIN new
    /\ \A g \in DOMAIN old : /\ old[g].ix = g => new[g].ix = g
                             /\ old[g].cu = g => new[g].cu = g
                             /\ old[g].failed => new[g].failed

LEMMA NodeKeeps ==
    ASSUME NEW old, NEW f \in DOMAIN old, NEW node, NEW new, new = [old EXCEPT ![f] = node],
           old[f].ix = f => node.ix = f, old[f].cu = f => node.cu = f,
           old[f].failed => node.failed
    PROVE  Keeps(old, new) /\ f \in DOMAIN new /\ new[f] = node
<1>1. DOMAIN new = DOMAIN old /\ new[f] = node /\ \A g \in DOMAIN old : g # f => new[g] = old[g]
  OBVIOUS
<1>2. ASSUME NEW g \in DOMAIN old
      PROVE  /\ old[g].ix = g => new[g].ix = g
             /\ old[g].cu = g => new[g].cu = g
             /\ old[g].failed => new[g].failed
  BY <1>1
<1> QED BY <1>1, <1>2 DEF Keeps

LEMMA BuildHears ==
    ASSUME LogInv, \A g \in DOMAIN frames : frames[g].ix \in {0, g},
           NEW k \in 1..whole, NEW t, TreeTyped(t), TreeAt(t, k - 1)
    PROVE  /\ Keeps(t.arena, Build(t, log[k]).arena)
           /\ Heard(Build(t, log[k]).arena, log[k])
<1> DEFINE line == log[k]
           f == log[k].of
           s == AfterLine(k - 1)
           b == BegunBy(k - 1)
<1>1. /\ k \in 1..Len(log) /\ line \in LogLine
      /\ frames \in Seq(Frame) /\ DOMAIN frames = 1..Len(frames) /\ Len(frames) \in Nat
  BY LenProperties, ElementOfSeq DEF LogInv, TypeInv, TypeOK
<1>2. LineTrue(k)
  BY DEF LogInv, LogTrue
<1>3. /\ t.arena \in Seq(Node) /\ t.stack \in Seq(DOMAIN t.arena)
      /\ t = [arena |-> t.arena, stack |-> t.stack]
      /\ Len(t.arena) \in Nat /\ DOMAIN t.arena = 1..Len(t.arena)
      /\ t.stack = s /\ Len(t.arena) = b
      /\ \A g \in DOMAIN t.arena : NodeTrue(t.arena, g)
  BY LenProperties DEF TreeTyped, TreeAt
<1>4. f \in DOMAIN frames /\ line.pid = frames[f].pid
  BY <1>1, <1>2 DEF LineTrue
<1>5. CASE line.kind = "invoke"
  <2> DEFINE raw == Raw(t, line)
             arena == Append(t.arena, raw)
  <2>1. f = b + 1
    BY <1>2, <1>5 DEF LineTrue
  <2>2. Build(t, line).arena = arena
    BY <1>3, <1>5 DEF Build
  <2> HIDE DEF raw
  <2>3. DOMAIN arena = 1..(b + 1) /\ \A n \in 1..b : arena[n] = t.arena[n]
    <3>1. t.arena \in Seq(Node \cup {raw}) /\ raw \in Node \cup {raw}
      BY <1>3, SeqMonotonic
    <3> QED BY <1>3, <3>1, AppendProperties, LenProperties
  <2> HIDE DEF arena
  <2>4. Keeps(t.arena, arena)
    BY <1>3, <2>3 DEF Keeps
  <2>5. Heard(arena, line)
    BY <1>3, <1>5, <2>1, <2>3 DEF Heard
  <2> QED BY <2>2, <2>4, <2>5
<1>6. CASE line.kind # "invoke"
  <2> DEFINE top == t.arena[f]
  <2>1. s # <<>> /\ f = Top(s)
    BY <1>2, <1>6 DEF LineTrue
  <2>2. f \in DOMAIN t.arena
    BY <1>3, <2>1, Popped
  <2>3. NodeTrue(t.arena, f) /\ top \in Node
    BY <1>3, <2>2, ElementOfSeq
  <2>4. ASSUME NEW node, Build(t, line).arena = [t.arena EXCEPT ![f] = node],
               top.ix = f => node.ix = f, top.cu = f => node.cu = f, top.failed => node.failed,
               line.kind = "instruction" => node.ix = f,
               line.kind = "consumed" => node.cu = f,
               line.kind = "failed" => node.failed
        PROVE  /\ Keeps(t.arena, Build(t, line).arena)
               /\ Heard(Build(t, line).arena, line)
    <3> DEFINE old == t.arena
               new == Build(t, line).arena
               h == f
    <3>1. /\ h \in DOMAIN old /\ new = [old EXCEPT ![h] = node]
          /\ old[h].ix = h => node.ix = h
          /\ old[h].cu = h => node.cu = h
          /\ old[h].failed => node.failed
      BY <2>2, <2>4
    <3> HIDE DEF old, new, h
    <3>2. Keeps(old, new) /\ h \in DOMAIN new /\ new[h] = node
      BY <3>1, NodeKeeps
    <3>3. Heard(new, line)
      BY <2>4, <3>2 DEF Heard, h
    <3> QED BY <3>2, <3>3 DEF old, new
  <2>5. CASE line.kind = "instruction"
    <3> DEFINE node == [top EXCEPT !.ix = IF top.ix = 0 THEN f ELSE top.ix]
    <3>1. Build(t, line).arena = [t.arena EXCEPT ![f] = node]
      <4>1. Build(t, line) = [arena |-> [t.arena EXCEPT ![f] = node], stack |-> s]
        BY <1>3, <2>1, <2>2, <2>5 DEF Build
      <4> QED BY <4>1
    <3>2. top.ix \in {0, f}
      BY <1>4, <2>3 DEF NodeTrue
    <3>3. node.ix = f /\ node.cu = top.cu /\ node.failed = top.failed
      BY <2>3, <3>2 DEF Node
    <3> HIDE DEF node, top
    <3> QED BY <2>4, <2>5, <3>1, <3>3
  <2>6. CASE line.kind = "consumed"
    <3> DEFINE node == [top EXCEPT !.cu = IF top.pid = line.pid THEN f ELSE top.cu]
    <3>1. Build(t, line).arena = [t.arena EXCEPT ![f] = node]
      <4>1. Build(t, line) = [arena |-> [t.arena EXCEPT ![f] = node], stack |-> s]
        BY <1>3, <2>1, <2>2, <2>6 DEF Build
      <4> QED BY <4>1
    <3>2. top.pid = line.pid
      BY <1>4, <2>3 DEF NodeTrue
    <3>3. node.cu = f /\ node.ix = top.ix /\ node.failed = top.failed
      BY <2>3, <3>2 DEF Node
    <3> HIDE DEF node, top
    <3> QED BY <2>4, <2>6, <3>1, <3>3
  <2>7. CASE line.kind = "success"
    <3>1. Build(t, line).arena = [t.arena EXCEPT ![f] = top]
      <4>1. Build(t, line) = [arena |-> t.arena, stack |-> Pop(s)]
        BY <1>3, <2>1, <2>7 DEF Build
      <4>2. t.arena = [t.arena EXCEPT ![f] = top]
        BY <1>3, <2>2
      <4> QED BY <4>1, <4>2
    <3> HIDE DEF top
    <3> QED BY <2>4, <2>7, <3>1
  <2>8. CASE line.kind = "failed"
    <3> DEFINE node == [top EXCEPT !.failed = TRUE]
    <3>1. Build(t, line).arena = [t.arena EXCEPT ![f] = node]
      <4>1. Build(t, line) = [arena |-> [t.arena EXCEPT ![f] = node], stack |-> Pop(s)]
        BY <1>3, <2>1, <2>2, <2>8 DEF Build, Fell
      <4> QED BY <4>1
    <3>2. node.failed /\ node.ix = top.ix /\ node.cu = top.cu
      BY <2>3 DEF Node
    <3> HIDE DEF node, top
    <3> QED BY <2>4, <2>8, <3>1, <3>2
  <2> QED
    BY <1>1, <1>6, <2>5, <2>6, <2>7, <2>8 DEF LogLine
<1> QED
  BY <1>5, <1>6

LEMMA HeardStays ==
    ASSUME NEW old, NEW new, Keeps(old, new), NEW line, Heard(old, line)
    PROVE  Heard(new, line)
BY DEF Keeps, Heard

HeardInv == ~full => \A k \in 1..pos : Heard(tree.arena, log[k])

CompleteInv == MissInv /\ LoggedInv /\ HeardInv

LEMMA HeardNext ==
    ASSUME CompleteInv, MissInv', [Next]_vars
    PROVE  HeardInv'
<1>1. TreeInv /\ TreeInv' /\ LogInv /\ TypeOK /\ TypeOK'
  BY DEF CompleteInv, MissInv, WalkInv, TreeInv, LogInv, TypeInv
<1>2. pos \in Nat /\ pos' \in Nat /\ Len(log) \in Nat
  BY <1>1, LenProperties DEF TypeOK
<1>3. CASE Running
  BY <1>1, <1>2, <1>3 DEF Running, TreeInv, Untouched, HeardInv
<1>4. CASE Read
  <2>1. /\ pos' = pos + 1 /\ pos < Len(log) /\ tree' = Build(tree, log[pos'])
        /\ UNCHANGED <<frames, open, log, whole, full>>
    BY <1>4 DEF Read, runtime
  <2> SUFFICES ASSUME ~full, NEW k \in 1..(pos + 1) PROVE Heard(tree'.arena, log[k])
    BY <2>1 DEF HeardInv
  <2> DEFINE j == pos + 1
  <2>2. whole = Len(log) /\ j \in 1..whole /\ j - 1 = pos /\ pos <= whole
    BY <1>1, <1>2, <2>1 DEF LogInv, LogCurrent
  <2>3. TreeTyped(tree) /\ TreeAt(tree, pos)
    BY <1>1, <2>2 DEF TreeInv, TypeOK, TreeTyped
  <2>4. \A g \in DOMAIN frames : frames[g].ix \in {0, g}
    BY DEF CompleteInv, LoggedInv, FrameTold
  <2>5. tree' = Build(tree, log[j])
    BY <2>1
  <2> HIDE DEF j
  <2>6. TreeAt(tree, j - 1)
    BY <2>2, <2>3
  <2>7. /\ Keeps(tree.arena, Build(tree, log[j]).arena)
        /\ Heard(Build(tree, log[j]).arena, log[j])
    BY <1>1, <2>2, <2>3, <2>4, <2>6, BuildHears
  <2>8. CASE k = j
    BY <2>5, <2>7, <2>8
  <2>9. CASE k # j
    <3>1. k \in 1..pos
      BY <1>2, <2>9 DEF j
    <3>2. Heard(tree.arena, log[k])
      BY <3>1 DEF CompleteInv, HeardInv
    <3> QED BY <2>5, <2>7, <3>2, HeardStays
  <2> QED BY <2>8, <2>9
<1>5. CASE UNCHANGED <<runtime, pos, readers>>
  <2>1. UNCHANGED <<log, full, pos, tree>>
    BY <1>5 DEF runtime, readers
  <2> QED BY <2>1 DEF CompleteInv, HeardInv
<1> QED
  BY <1>3, <1>4, <1>5, StepKinds

\* A log that lost nothing, read to the end, gives all there was: every
\* invocation, with its name, units and failure.
THEOREM WholeTreeIsCompleteAlways == Spec => []WholeTreeIsComplete
<1>1. Init => CompleteInv
  <2> SUFFICES ASSUME Init PROVE CompleteInv
    OBVIOUS
  <2>1. Begun(0) = {} /\ whole = 0 /\ phase # "done" /\ pos = 0 /\ frames = <<>>
    BY DEF Begun, Init
  <2>2. MissInv
    BY <2>1, WalkInit DEF MissInv
  <2> QED BY <2>1, <2>2 DEF CompleteInv, LoggedInv, HeardInv
<1>2. CompleteInv /\ [Next]_vars => CompleteInv'
  <2> SUFFICES ASSUME CompleteInv, [Next]_vars PROVE CompleteInv'
    OBVIOUS
  <2>1. MissInv'
    BY MissNext DEF CompleteInv
  <2>2. LogInv /\ LogInv'
    BY <2>1 DEF CompleteInv, MissInv, WalkInv, TreeInv
  <2>3. LoggedInv'
    BY <2>2, LoggedNext DEF CompleteInv
  <2> QED BY <2>1, <2>3, HeardNext DEF CompleteInv
<1>3. CompleteInv => WholeTreeIsComplete
  <2> SUFFICES ASSUME CompleteInv, phase = "done", ~full
               PROVE  [f \in DOMAIN frames |->
                         <<frames[f].pid, frames[f].ix, frames[f].cu, frames[f].failed>>] =
                      [f \in DOMAIN tree.arena |->
                         <<tree.arena[f].pid, tree.arena[f].ix, tree.arena[f].cu, tree.arena[f].failed>>]
    BY DEF WholeTreeIsComplete
  <2>1. TreeInv /\ LogInv /\ TypeOK /\ pos = Len(log)
    BY DEF CompleteInv, MissInv, WalkInv, TreeInv, LogInv, TypeInv
  <2>2. /\ Len(log) \in Nat /\ DOMAIN log = 1..pos
        /\ frames \in Seq(Frame) /\ DOMAIN frames = 1..Len(frames)
        /\ tree.arena \in Seq(Node) /\ DOMAIN tree.arena = 1..Len(tree.arena)
    BY <2>1, LenProperties DEF TypeOK
  <2>3. TreeAt(tree, pos) /\ Len(frames) = BegunBy(pos)
    BY <2>1, <2>2 DEF TreeInv, LogInv, LogCurrent
  <2>4. DOMAIN frames = DOMAIN tree.arena
    BY <2>2, <2>3 DEF TreeAt
  <2>5. ASSUME NEW kind, NEW f, Told(log, kind, f)
        PROVE  /\ kind = "instruction" => tree.arena[f].ix = f
               /\ kind = "consumed" => tree.arena[f].cu = f
               /\ kind = "failed" => tree.arena[f].failed
    <3>1. PICK k \in 1..pos : log[k].kind = kind /\ log[k].of = f
      BY <2>2, <2>5 DEF Told
    <3>2. Heard(tree.arena, log[k])
      BY DEF CompleteInv, HeardInv
    <3> QED BY <3>1, <3>2 DEF Heard
  <2>6. ASSUME NEW f \in DOMAIN frames
        PROVE  /\ frames[f].pid = tree.arena[f].pid /\ frames[f].ix = tree.arena[f].ix
               /\ frames[f].cu = tree.arena[f].cu /\ frames[f].failed = tree.arena[f].failed
    <3>1. NodeTrue(tree.arena, f)
      BY <2>3, <2>4 DEF TreeAt
    <3>2. FrameTold(frames, log, f)
      BY DEF CompleteInv, LoggedInv
    <3>3. frames[f].failed \in BOOLEAN /\ tree.arena[f].failed \in BOOLEAN
      <4>1. frames[f] \in Frame /\ tree.arena[f] \in Node
        BY <2>2, <2>4, ElementOfSeq
      <4> QED BY <4>1 DEF Frame, Node
    <3>4. frames[f].ix = tree.arena[f].ix /\ frames[f].cu = tree.arena[f].cu
      BY <2>5, <3>1, <3>2 DEF NodeTrue, FrameTold
    <3>5. frames[f].failed <=> tree.arena[f].failed
      BY <2>5, <3>1, <3>2 DEF NodeTrue, FrameTold
    <3>6. frames[f].pid = tree.arena[f].pid
      BY <3>1 DEF NodeTrue
    <3> QED BY <3>3, <3>4, <3>5, <3>6
  <2> QED BY <2>4, <2>6
<1> QED
  BY <1>1, <1>2, <1>3, PTL DEF Spec

=============================================================================
