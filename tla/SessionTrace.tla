---------------------------- MODULE SessionTrace ----------------------------
(***************************************************************************)
(* shared/lib/trace_tree.py: build_trace_tree folds the reported messages  *)
(* of a session into a tree.  A message is a record with a kind, the child *)
(* it is about and its tool id; the tree is kept as the parent of every    *)
(* message that has a node, by position, and the finding of every branch.  *)
(***************************************************************************)
EXTENDS Naturals, Sequences, SequencesExt

Root == <<>>

(* Position 0 stands for none.                                             *)
EmptyTree ==
    [n |-> 0, branches |-> {}, byTask |-> <<>>, active |-> Root, parent |-> <<>>, finding |-> <<>>,
     results |-> <<>>, final |-> 0]

Lookup(f, x, other) == IF x \in DOMAIN f THEN f[x] ELSE other
Extend(f, x, y)     == [z \in DOMAIN f \cup {x} |-> IF z = x THEN y ELSE f[z]]

(* Mutant: a message goes to the branch that was started last.             *)
resolve_msg_parent_Active(tree, m) == tree.active

(* The branch of the parent tool id, or the root when it is unknown.       *)
resolve_msg_parent(tree, m) ==
    IF m.parent \in tree.branches THEN m.parent ELSE Root

(* An Agent call opens a branch; another tool call is a node of its own.   *)
TraceAssistant(tree, m) ==
    LET at == resolve_msg_parent(tree, m) IN
    IF m.kind = "use"
    THEN [tree EXCEPT !.branches = @ \cup {m.tool}, !.active = m.tool,
                      !.parent = Extend(@, tree.n + 1, at)]
    ELSE [tree EXCEPT !.parent = Extend(@, tree.n + 1, at)]

(* task_started ties the task id to the branch of its tool id.             *)
TraceStarted(tree, m) ==
    IF m.tool \in tree.branches
    THEN [tree EXCEPT !.byTask = Extend(@, m.child, m.tool), !.active = m.tool]
    ELSE tree

(* task_notification: the branch by task id, else by tool id; a branch has *)
(* one finding, the latest.                                                *)
TraceNotification(tree, m) ==
    LET byTool == IF m.tool \in tree.branches THEN m.tool ELSE Root
        at     == Lookup(tree.byTask, m.child, byTool)
    IN IF at = Root THEN tree
       ELSE [tree EXCEPT !.byTask = Extend(@, m.child, at),
                         !.finding = Extend(@, at, tree.n + 1)]

(* A tool result of an Agent call has a node only when it is an error.     *)
TraceToolResult(tree, m) ==
    IF m.tool \notin tree.branches THEN [tree EXCEPT !.parent = Extend(@, tree.n + 1, Root)]
    ELSE IF m.kind = "err" THEN [tree EXCEPT !.parent = Extend(@, tree.n + 1, m.tool)]
    ELSE tree

TraceResult(tree, m) ==
    [tree EXCEPT !.results = Append(@, tree.n + 1), !.parent = Extend(@, tree.n + 1, Root)]

(* session_complete: the last result node becomes the final one.           *)
TraceComplete(tree, m) ==
    [tree EXCEPT !.final = IF tree.results = <<>> THEN tree.n + 1 ELSE Last(tree.results)]

TraceStep(tree, m) ==
    LET next == CASE m.kind \in {"use", "send", "said", "user"} -> TraceAssistant(tree, m)
                  [] m.kind = "started"         -> TraceStarted(tree, m)
                  [] m.kind = "note"            -> TraceNotification(tree, m)
                  [] m.kind \in {"err", "empty"} -> TraceToolResult(tree, m)
                  [] m.kind = "result"          -> TraceResult(tree, m)
                  [] m.kind = "complete"        -> TraceComplete(tree, m)
                  [] OTHER                      -> tree
    IN [next EXCEPT !.n = @ + 1]

build_trace_tree(messages) == FoldLeft(TraceStep, EmptyTree, messages)
=============================================================================
