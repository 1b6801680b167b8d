----------------------------- MODULE FileSystem -----------------------------
(***************************************************************************)
(* What the shell is promised of a volume: a tree of directories, and      *)
(* calls that each add, remove, rename or enlarge the one entry they name, *)
(* in one step that is their last, or give up and change nothing, whatever *)
(* fails on the way.  An entry names its data or its directory by the      *)
(* place where that begins (start, 0 for a file that has none).  Once a    *)
(* removal was cut short, or a look-up that failed was taken for "does not *)
(* exist", nothing is promised any more (broken).                          *)
(***************************************************************************)
EXTENDS Integers, Sequences

CONSTANTS Names, NoName, name_to_83, Homes, root

VARIABLES
    tree,      \* the entries of every directory
    call,      \* the call under way: its name, its directory and its argument
    open,      \* the open file: its directory and its 8.3 name
    broken

NoCall == [name |-> "none", d |-> root, n |-> NoName]

Init ==
    /\ tree = [d \in {root} |-> {}]
    /\ call = NoCall /\ open = <<>>
    /\ broken = FALSE

\* A name is met by its long form or by its 8.3 form.
Answers(e, n) == e.long = n \/ e.sfn = name_to_83[n]
Absent(d, n) == \A e \in tree[d] : ~Answers(e, n)
New(kind, n, start) ==
    [kind |-> kind, long |-> n, sfn |-> name_to_83[n], start |-> start, size |-> 0]
Replaced(d, e, f) == [tree EXCEPT ![d] = (@ \ {e}) \cup {f}]

\* What a call does it does in its last step.
Done(name) == call.name = name /\ call'.name = "none" /\ UNCHANGED open

CreateFile ==
    /\ Done("create")
    /\ Absent(call.d, call.n)
    /\ tree' = [tree EXCEPT ![call.d] = @ \cup {New("file", call.n, 0)}]

\* A new directory is empty; a directory is removed only when it is.
CreateDir(place) ==
    /\ Done("mkdir")
    /\ Absent(root, call.n) /\ place \notin DOMAIN tree
    /\ tree' = [d \in DOMAIN tree \cup {place} |->
                  CASE d = place -> {}
                    [] d = root -> tree[root] \cup {New("dir", call.n, place)}
                    [] OTHER -> tree[d]]

DeleteFile(e) ==
    /\ Done("delete")
    /\ Answers(e, call.n) /\ e.kind = "file"
    /\ tree' = [tree EXCEPT ![call.d] = @ \ {e}]

RemoveDir(e) ==
    /\ Done("rmdir")
    /\ Answers(e, call.n) /\ e.kind = "dir" /\ tree[e.start] = {}
    /\ tree' = [d \in DOMAIN tree \ {e.start} |-> IF d = root THEN tree[root] \ {e} ELSE tree[d]]

\* Renaming takes one step.  The long name may be lost, the 8.3 name is the new one.
Rename(d, e, n, m) ==
    /\ Done("none")
    /\ Answers(e, n)
    /\ Absent(d, m) \/ broken'
    /\ \E long \in {m, NoName} :
         tree' = Replaced(d, e, [e EXCEPT !.long = long, !.sfn = name_to_83[m]])

\* A write may enlarge the open file, and gives it its place once.
Write(d, e) ==
    /\ Done("write") \/ Done("append")
    /\ open = <<d, e.sfn>> /\ e.kind = "file"
    /\ \E f \in tree'[d] :
         /\ e.start \in {0, f.start} /\ e.size <= f.size
         /\ f = [e EXCEPT !.start = f.start, !.size = f.size]
         /\ tree' = Replaced(d, e, f)

Open(d, e) ==
    /\ call.name = "none" /\ UNCHANGED call
    /\ open = <<>> /\ open' = <<d, e.sfn>>
    /\ UNCHANGED tree

\* A call begins, goes on or gives up; the file is closed, by its user or by a power loss.
Ask == call.name = "none" /\ UNCHANGED <<tree, open>>
Work == UNCHANGED <<tree, call, open>>
GiveUp == call'.name = "none" /\ UNCHANGED <<tree, open>>
Close == call'.name = "none" /\ open' = <<>> /\ UNCHANGED tree

Next ==
    /\ broken => broken'
    /\ \/ broken
       \/ Ask \/ Work \/ GiveUp \/ Close
       \/ CreateFile
       \/ \E place \in Homes : CreateDir(place)
       \/ \E e \in tree[root] : RemoveDir(e)
       \/ \E e \in tree[call.d] : DeleteFile(e)
       \/ \E d \in DOMAIN tree : \E e \in tree[d] :
            Open(d, e) \/ Write(d, e) \/ (\E n, m \in Names : Rename(d, e, n, m))

Spec == Init /\ [][Next]_<<tree, call, open, broken>>
=============================================================================
