------------------------------ MODULE Reentry ------------------------------
(***************************************************************************)
(* The readers of a transaction's log: parse_cpi_events and detect_reentry *)
(* of cpi_reentrancy.rs, which look for a program invoked while it is      *)
(* open, and build_tree and annotate of trace.rs, which rebuild the tree   *)
(* of invocations and mark one.                                            *)
(*                                                                         *)
(* The runtime writes the log while the transaction runs.  Once the log is *)
(* full it drops lines, though a shorter one may still fit.  The readers   *)
(* then go through it, line by line; they share nothing.                   *)
(***************************************************************************)
EXTENDS Naturals, Sequences

CONSTANTS
    Programs,
    Allowlists,     \* what CpiReentrancyConfig::allowlist may be
    NoReentry,      \* None of detect_reentry
    Builtins,       \* programs that log no name and consume nothing
    MaxFrames,      \* bound: invocations in a transaction
    MaxLate,        \* bound: lines that still fit after one was lost
    MaxDepth        \* how deep the runtime lets programs invoke others

\* The tree is annotated with an empty allowlist.
ASSUME ReentryAssumption ==
    /\ {} \in Allowlists /\ Allowlists \subseteq SUBSET Programs
    /\ Builtins \subseteq Programs
    /\ MaxFrames \in Nat /\ MaxDepth \in Nat /\ MaxLate \in Nat
    /\ NoReentry \notin [pid : Programs, outer : 1..MaxDepth, inner : 1..MaxDepth]

VARIABLES
    frames,    \* the invocations, in the order they began
    open,      \* the invocations that have not returned, outermost first
    failing,   \* has one failed?  Then the ones around it do.
    log,       \* TxOutcome::logs()
    whole,     \* how many lines were written before one was lost
    full,      \* has one been lost?
    phase,
    pos,       \* the last line read
    walks,     \* detect_reentry under each allowlist
    tree,      \* build_tree: the arena and the stack
    note       \* the annotated frame, or 0

runtime == <<frames, open, failing, log, whole, full>>
readers == <<walks, tree>>
vars == <<runtime, phase, pos, readers, note>>

-----------------------------------------------------------------------------
(* The runtime.                                                            *)

Top(s) == s[Len(s)]
Pop(s) == IF s = <<>> THEN s ELSE SubSeq(s, 1, Len(s) - 1)

Init ==
    /\ frames = <<>> /\ open = <<>> /\ failing = FALSE
    /\ log = <<>> /\ whole = 0 /\ full = FALSE
    /\ phase = "running" /\ pos = 0
    /\ walks = [a \in Allowlists |-> [stack |-> <<>>, found |-> NoReentry]]
    /\ tree = [arena |-> <<>>, stack |-> <<>>]
    /\ note = 0

\* A line about frame f.  `of' stands for what the line says of it, a name or
\* an amount.  The last two are history: the frames open, and how many had
\* begun, once the line was written.
Line(kind, f) ==
    [kind |-> kind, pid |-> frames'[f].pid, depth |-> frames'[f].depth,
     of |-> f, after |-> open', begun |-> Len(frames')]

\* The log takes the line or loses it.
Emit(line) ==
    \/ /\ full => Len(log) < whole + MaxLate
       /\ log' = Append(log, line)
       /\ whole' = IF full THEN whole ELSE whole + 1
       /\ UNCHANGED full
    \/ full' = TRUE /\ UNCHANGED <<log, whole>>

Running == phase = "running" /\ UNCHANGED <<phase, pos, readers, note>>

\* A transaction's instruction at depth 1, or a program's at the next.
Invoke(p) ==
    /\ Running /\ ~failing
    /\ Len(frames) < MaxFrames /\ Len(open) < MaxDepth
    /\ open # <<>> => frames[Top(open)].cu = 0
    /\ frames' = Append(frames, [pid |-> p, depth |-> Len(open) + 1, above |-> open,
                                 ix |-> 0, cu |-> 0, failed |-> FALSE])
    /\ open' = Append(open, Len(frames'))
    /\ Emit(Line("invoke", Len(frames')))
    /\ UNCHANGED failing

Speaks(f) == frames[f].pid \notin Builtins /\ frames[f].cu = 0

\* A handler may log its name before it does anything else.
LogInstruction ==
    /\ Running /\ ~failing /\ open # <<>> /\ Top(open) = Len(frames)
    /\ Speaks(Top(open)) /\ frames[Top(open)].ix = 0
    /\ frames' = [frames EXCEPT ![Top(open)].ix = Top(open)]
    /\ UNCHANGED <<open, failing>>
    /\ Emit(Line("instruction", Top(open)))

\* `consumed N of M compute units' precedes the return.
Consume ==
    /\ Running /\ open # <<>> /\ Speaks(Top(open))
    /\ frames' = [frames EXCEPT ![Top(open)].cu = Top(open)]
    /\ UNCHANGED <<open, failing>>
    /\ Emit(Line("consumed", Top(open)))

Succeed ==
    /\ Running /\ open # <<>> /\ ~failing /\ ~Speaks(Top(open))
    /\ UNCHANGED frames
    /\ open' = Pop(open)
    /\ Emit(Line("success", Top(open)))
    /\ UNCHANGED failing

Fail ==
    /\ Running /\ open # <<>> /\ ~Speaks(Top(open))
    /\ frames' = [frames EXCEPT ![Top(open)].failed = TRUE]
    /\ open' = Pop(open)
    /\ failing' = TRUE
    /\ Emit(Line("failed", Top(open)))

-----------------------------------------------------------------------------
(* The readers.                                                            *)

\* The depth of the first frame on the stack that runs p.
OuterDepth(stack, p) ==
    stack[CHOOSE n \in DOMAIN stack :
              /\ stack[n].pid = p
              /\ \A m \in 1..(n - 1) : stack[m].pid # p].depth

\* Mutants: only the caller is looked at; a success is not popped.
WalkCaller(w, line, allow) ==
    IF w.found # NoReentry THEN w
    ELSE IF line.kind = "invoke"
    THEN IF line.pid \notin allow /\ w.stack # <<>> /\ Top(w.stack).pid = line.pid
         THEN [w EXCEPT !.found = [pid |-> line.pid, outer |-> Top(w.stack).depth,
                                   inner |-> line.depth]]
         ELSE [w EXCEPT !.stack = Append(@, [pid |-> line.pid, depth |-> line.depth])]
    ELSE IF line.kind \in {"success", "failed"} THEN [w EXCEPT !.stack = Pop(@)]
    ELSE w

WalkUnpopped(w, line, allow) ==
    IF w.found # NoReentry THEN w
    ELSE IF line.kind = "invoke"
    THEN IF line.pid \notin allow /\ \E n \in DOMAIN w.stack : w.stack[n].pid = line.pid
         THEN [w EXCEPT !.found = [pid |-> line.pid,
                                   outer |-> OuterDepth(w.stack, line.pid),
                                   inner |-> line.depth]]
         ELSE [w EXCEPT !.stack = Append(@, [pid |-> line.pid, depth |-> line.depth])]
    ELSE IF line.kind = "failed" THEN [w EXCEPT !.stack = Pop(@)]
    ELSE w

\* One line of detect_reentry, which returns at the first re-entry.
Walk(w, line, allow) ==
    IF w.found # NoReentry THEN w
    ELSE IF line.kind = "invoke"
    THEN IF line.pid \notin allow /\ \E n \in DOMAIN w.stack : w.stack[n].pid = line.pid
         THEN [w EXCEPT !.found = [pid |-> line.pid,
                                   outer |-> OuterDepth(w.stack, line.pid),
                                   inner |-> line.depth]]
         ELSE [w EXCEPT !.stack = Append(@, [pid |-> line.pid, depth |-> line.depth])]
    ELSE IF line.kind \in {"success", "failed"} THEN [w EXCEPT !.stack = Pop(@)]
    ELSE w

\* A frame of the arena.  Roots and children are kept as the parent, or 0.
Raw(t, line) ==
    [pid |-> line.pid, depth |-> line.depth, ix |-> 0, cu |-> 0, failed |-> FALSE,
     parent |-> IF t.stack = <<>> THEN 0 ELSE Top(t.stack)]

PushedParent(t, line) == IF t.stack = <<>> THEN 1 ELSE Top(t.stack)

Pushed(t, line) == Len(t.arena) + 1

\* Mutant: the frame is popped first.
FellAfter(t) ==
    [arena |-> IF Len(t.stack) < 2 THEN t.arena
               ELSE [t.arena EXCEPT ![Top(Pop(t.stack))].failed = TRUE],
     stack |-> Pop(t.stack)]

\* The innermost open frame failed.
Fell(t) ==
    [arena |-> [t.arena EXCEPT ![Top(t.stack)].failed = TRUE], stack |-> Pop(t.stack)]

\* One line of build_tree.
Build(t, line) ==
    CASE line.kind = "invoke" ->
            [arena |-> Append(t.arena, Raw(t, line)),
             stack |-> Append(t.stack, Pushed(t, line))]
      [] line.kind # "invoke" /\ t.stack = <<>> -> t
      [] line.kind = "instruction" /\ t.stack # <<>> ->
            [t EXCEPT !.arena[Top(t.stack)].ix = IF @ = 0 THEN line.of ELSE @]
      [] line.kind = "consumed" /\ t.stack # <<>> ->
            [t EXCEPT !.arena[Top(t.stack)].cu =
                IF t.arena[Top(t.stack)].pid = line.pid THEN line.of ELSE @]
      [] line.kind = "success" /\ t.stack # <<>> -> [t EXCEPT !.stack = Pop(@)]
      [] line.kind = "failed" /\ t.stack # <<>> -> Fell(t)

\* The transaction is over.
Return ==
    /\ phase = "running" /\ open = <<>> /\ frames # <<>>
    /\ phase' = "reading"
    /\ UNCHANGED <<runtime, pos, readers, note>>

Read ==
    /\ phase = "reading" /\ pos < Len(log)
    /\ pos' = pos + 1
    /\ walks' = [a \in Allowlists |-> Walk(walks[a], log[pos'], a)]
    /\ tree' = Build(tree, log[pos'])
    /\ UNCHANGED <<runtime, phase, note>>

\* annotate goes through the tree in preorder, which is the order of the
\* arena: a frame is added under the last one open.
FirstFrame(pid, depth) ==
    LET Matching == {n \in DOMAIN tree.arena :
                        tree.arena[n].pid = pid /\ tree.arena[n].depth = depth}
    IN  IF Matching = {} THEN 0
        ELSE CHOOSE n \in Matching : \A m \in Matching : n <= m

\* build_annotated_tree.
Annotate ==
    /\ phase = "reading" /\ pos = Len(log)
    /\ phase' = "done"
    /\ note' = LET r == walks[{}].found IN
               IF r = NoReentry THEN 0 ELSE FirstFrame(r.pid, r.inner)
    /\ UNCHANGED <<runtime, pos, readers>>

Over == phase = "done" /\ UNCHANGED vars

Next ==
    \/ \E p \in Programs : Invoke(p)
    \/ LogInstruction \/ Consume \/ Succeed \/ Fail
    \/ Return \/ Read \/ Annotate \/ Over

Spec == Init /\ [][Next]_vars

-----------------------------------------------------------------------------
(* Properties.                                                             *)

Depth == 1..MaxDepth
Invocation == 1..MaxFrames

Frame ==
    [pid : Programs, depth : Depth, above : Seq(Invocation),
     ix : {0} \cup Invocation, cu : {0} \cup Invocation, failed : BOOLEAN]

LogLine ==
    [kind : {"invoke", "instruction", "consumed", "success", "failed"},
     pid : Programs, depth : Depth, of : Invocation, after : Seq(Invocation),
     begun : Invocation]

Found == [pid : Programs, outer : Depth, inner : Depth] \cup {NoReentry}

Node ==
    [pid : Programs, depth : Depth, ix : {0} \cup Invocation,
     cu : {0} \cup Invocation, failed : BOOLEAN, parent : Nat]

\* Every variable keeps its type, and the stacks of the readers hold frames
\* they have seen, in the order they saw them.
TypeOK ==
    /\ frames \in Seq(Frame) /\ Len(frames) <= MaxFrames
    /\ open \in Seq(DOMAIN frames)
    /\ failing \in BOOLEAN /\ full \in BOOLEAN
    /\ log \in Seq(LogLine) /\ whole \in 0..Len(log) /\ pos \in 0..Len(log)
    /\ phase \in {"running", "reading", "done"}
    /\ walks \in [Allowlists ->
                    [stack : Seq([pid : Programs, depth : Depth]), found : Found]]
    /\ tree \in [arena : Seq(Node), stack : Seq(DOMAIN tree.arena)]
    /\ \A n \in DOMAIN tree.arena : tree.arena[n].parent < n
    /\ note \in {0} \cup DOMAIN tree.arena

\* The frames that began in the first k lines, for k up to `whole'.
Begun(k) == {log[n].of : n \in {m \in 1..k : log[m].kind = "invoke"}}

\* Frame f invokes a program that frame n of the ones around it runs.
Encloses(n, f) == frames[frames[f].above[n]].pid = frames[f].pid

Reenters(f, allow) ==
    /\ frames[f].pid \notin allow
    /\ \E n \in DOMAIN frames[f].above : Encloses(n, f)

\* f re-enters, and is the first of the frames in S to do so; n is the depth of
\* the outermost frame it re-enters.
FirstReentry(S, allow, f, n) ==
    /\ f \in S /\ Reenters(f, allow)
    /\ \A g \in S : Reenters(g, allow) => f <= g
    /\ n \in DOMAIN frames[f].above /\ Encloses(n, f)
    /\ \A m \in 1..(n - 1) : ~Encloses(m, f)

\* As far as the log is whole, detect_reentry has found the first re-entry of
\* the transaction and its two depths, or there was none: under any allowlist,
\* whatever is cut off after.
FindsFirstReentry ==
    pos <= whole =>
        \A a \in Allowlists :
            IF \E f \in Begun(pos) : Reenters(f, a)
            THEN \E f \in Begun(pos) : \E n \in DOMAIN frames[f].above :
                    /\ FirstReentry(Begun(pos), a, f, n)
                    /\ walks[a].found = [pid |-> frames[f].pid, outer |-> n,
                                         inner |-> frames[f].depth]
            ELSE walks[a].found = NoReentry

\* A re-entry in the part of the log that is whole is reported in the end, also
\* when lines are missing after it.
NoReentryMissed ==
    phase = "done" =>
        \A a \in Allowlists :
            (\E f \in Begun(whole) : Reenters(f, a)) => walks[a].found # NoReentry

\* As far as the log is whole, the tree is the tree of invocations: each frame
\* under the one that invoked it, with its own name, units and failure.
TreeIsTheInvocations ==
    pos <= whole =>
        \A f \in DOMAIN tree.arena :
            LET real == frames[f]  node == tree.arena[f] IN
            /\ node.pid = real.pid /\ node.depth = real.depth
            /\ node.parent = IF real.above = <<>> THEN 0 ELSE Top(real.above)
            /\ node.ix \in {0, real.ix} /\ node.cu \in {0, real.cu}
            /\ node.failed => real.failed

\* Read to the end, a log that lost nothing gives all there was.
WholeTreeIsComplete ==
    phase = "done" /\ ~full =>
        [f \in DOMAIN frames |->
            <<frames[f].pid, frames[f].ix, frames[f].cu, frames[f].failed>>] =
        [f \in DOMAIN tree.arena |->
            <<tree.arena[f].pid, tree.arena[f].ix, tree.arena[f].cu, tree.arena[f].failed>>]

=============================================================================
