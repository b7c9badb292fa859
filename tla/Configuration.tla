--------------------------- MODULE Configuration ---------------------------
(***************************************************************************)
(* kcmsg::Configuration: the walk over the tree that read_json makes of a  *)
(* configuration file, the Property objects made on the way, and the       *)
(* lookups (src/src/Configuration.cpp, src/src/Property.cpp).              *)
(*                                                                         *)
(* mapProperties calls itself for every child, and everything it is passed *)
(* is a copy: the activations are a stack of frames, each with its own kp, *)
(* vp, num and props.  A node of the tree (external: a boost ptree) is a   *)
(* record of its key, data and kids; a key is the sequence of its parts    *)
(* between dots, empty in an element of an array and in the root, and data *)
(* is the sequence of at most one value, empty in an object or an array.   *)
(***************************************************************************)
EXTENDS Integers, Sequences, SequencesExt

CONSTANTS
    Files,    \* the trees read_json can make of the files there are
    Node,     \* the nodes of these trees, the roots included
    Height,   \* how high the tree below a node is: it is a finite one
    Names,    \* the parts of keys
    Value,    \* the values of properties
    Keys,     \* the keys that callers look up
    UINT_MAX, \* the largest uint, 2^32 - 1 in the code
    MaxCalls  \* bound on the calls of readConfigurationFile

ASSUME ConfigurationAssumption ==
    /\ Files \subseteq Node
    /\ \A n \in Node : /\ n = [key |-> n.key, data |-> n.data, kids |-> n.kids]
                       /\ n.key \in Seq(Names)
                       /\ n.data \in Seq(Value)
                       /\ n.kids \in Seq(Node) /\ Len(n.kids) <= UINT_MAX
                       /\ n.kids # <<>> => n.data = <<>>
                       /\ Height[n] \in Nat
                       /\ \A i \in DOMAIN n.kids : Height[n.kids[i]] < Height[n]
    /\ \A f \in Files : f.key = <<>>
    /\ UINT_MAX \in Nat /\ MaxCalls \in Nat

VARIABLES
    pc,         \* "idle", "visit" or "unwind" (in mapProperties), "crashed"
    file,       \* the root of the tree being read, or read last
    stack,      \* the activations of mapProperties, the running one last
    calls,      \* how many times readConfigurationFile was called
    result,     \* how its last call ended
    inserted,   \* history: what insertProperty allocated a Property for
    deleted,    \* history: deleted[n]: how often the n-th value was deleted
    properties, \* the member: which of the inserted values a key leads to
    answer,     \* what the last lookup returned
    wild        \* something was written or read before the start of num's buffer

vars == <<pc, file, stack, calls, result, inserted, deleted, properties, answer, wild>>

NoProps == [k \in {} |-> 0]
NoAnswer == [found |-> FALSE, values |-> <<>>]

Init ==
    /\ pc = "idle"
    /\ file \in Files
    /\ stack = <<>>
    /\ calls = 0
    /\ result = "none"
    /\ inserted = <<>>
    /\ deleted = <<>>
    /\ properties = NoProps
    /\ answer = NoAnswer
    /\ wild = FALSE

\* A plausible slip (used by no action): the walk begun at the second child.
FrameAtSecond(n, kp, vp, num, props) ==
    [pt |-> n, it |-> 2, kp |-> kp, vp |-> vp, num |-> num, props |-> props]

Frame(n, kp, vp, num, props) ==
    [pt |-> n, it |-> 1, kp |-> kp, vp |-> vp, num |-> num, props |-> props]

Running == pc \in {"visit", "unwind"}

----------------------------------------------------------------------------
(* Property objects.  A map entry is a copy that shares its value with the *)
(* others, and the destructor of each copy deletes it.                     *)

Put(props, key, n) == [k \in DOMAIN props \cup {key} |-> IF k = key THEN n ELSE props[k]]

Overwrite(new, old) ==
    [k \in DOMAIN new \cup DOMAIN old |-> IF k \in DOMAIN new THEN new[k] ELSE old[k]]

Destroy(props, d) ==
    [n \in DOMAIN d |-> d[n] + Cardinality({k \in DOMAIN props : props[k] = n})]

\* A plausible slip (used by no action): a copy of the callee's map passed back.
CopiedBack(callee, caller) == [props |-> callee, destroyed |-> callee]

\* A map passed by value: the caller keeps its own, and the callee's is destroyed.
Returned(callee, caller) == [props |-> caller, destroyed |-> callee]

\* The parts of the keys in kp, joined.
Key(kp) == FlattenSeq(kp)

\* insertProperty, called by a frame that keeps its map props.  Without a value it
\* pops its own copy of kp instead.
insertProperty(kp, vp, props) ==
    IF vp = <<>>
    THEN UNCHANGED <<inserted, deleted>>
    ELSE /\ inserted' = Append(inserted, [call |-> calls, kp |-> kp, vals |-> vp])
         /\ deleted' = Destroy(Returned(Put(props, Key(kp), Len(inserted) + 1), props).destroyed,
                               Append(deleted, 0))

PropsAfterInsert(kp, vp, props) ==
    IF vp = <<>> THEN props
    ELSE Returned(Put(props, Key(kp), Len(inserted) + 1), props).props

----------------------------------------------------------------------------
(* mapProperties.                                                          *)

Top == stack[Len(stack)]
Child == Top.pt.kids[Top.it]
Become(frame) == stack' = [stack EXCEPT ![Len(stack)] = frame]

\* One from a counter of type uint.
Minus1(n) == IF n = 0 THEN UINT_MAX ELSE n - 1

\* A plausible slip (used by no action): the section's first counter counted down.
CountDownFirst(num) ==
    IF num = <<>> THEN num ELSE [num EXCEPT ![1] = Minus1(@)]

\* One child less to come in the innermost section of num.
CountDown(num) ==
    IF num = <<>> THEN num ELSE [num EXCEPT ![Len(num)] = Minus1(@)]

Visiting == pc = "visit" /\ Top.it <= Len(Top.pt.kids)

\* A child with children of its own: its name and their number are pushed.
VisitSection ==
    /\ Visiting
    /\ Len(Child.kids) > 0
    /\ pc' = "unwind"
    /\ Become([Top EXCEPT
                !.num = Append(@, Len(Child.kids)),
                !.kp = IF Child.key = <<>> THEN @ ELSE Append(@, Child.key),
                !.vp = @ \o Child.data])
    /\ UNCHANGED <<file, calls, result, inserted, deleted, properties, answer, wild>>

\* A plausible slip (used by no action): the values kept for the next property.
InsertedKeepsValues(frame, kp, vp) ==
    [frame EXCEPT !.num = CountDown(@), !.vp = vp, !.props = PropsAfterInsert(kp, vp, @)]

\* The frame after insertProperty: no values are left, and one child less is to come.
Inserted(frame, kp, vp) ==
    [frame EXCEPT !.num = CountDown(@), !.vp = <<>>, !.props = PropsAfterInsert(kp, vp, @)]

\* A property: pushed, inserted and popped again, and one is taken from the counter
\* below its own, which need not be there: num.end()[-2] is then before the buffer.
VisitProperty ==
    /\ Visiting
    /\ Child.kids = <<>> /\ Child.key # <<>>
    /\ LET kp == Append(Top.kp, Child.key)
           vp == Top.vp \o Child.data
       IN  /\ insertProperty(kp, vp, Top.props)
           /\ Become(Inserted(Top, kp, vp))
    /\ pc' = "unwind"
    /\ wild' = (wild \/ Top.num = <<>>)
    /\ UNCHANGED <<file, calls, result, properties, answer>>

\* An element of an array whose last element is still to come ...
VisitElement ==
    /\ Visiting
    /\ Child.kids = <<>> /\ Child.key = <<>>
    /\ Top.num # <<>> => Last(CountDown(Top.num)) # 0
    /\ Become([Top EXCEPT !.num = CountDown(@), !.vp = @ \o Child.data])
    /\ pc' = "unwind"
    /\ wild' = (wild \/ Top.num = <<>>)
    /\ UNCHANGED <<file, calls, result, inserted, deleted, properties, answer>>

\* ... and the last one.  Whether a counter before the buffer reads as zero is open.
\* Without a value and a name, insertProperty pops from an empty kp.
VisitLastElement ==
    /\ Visiting
    /\ Child.kids = <<>> /\ Child.key = <<>>
    /\ Top.num # <<>> => Last(CountDown(Top.num)) = 0
    /\ LET vp == Top.vp \o Child.data
       IN  /\ insertProperty(Top.kp, vp, Top.props)
           /\ Become(Inserted(Top, Top.kp, vp))
           /\ pc' = IF vp = <<>> /\ Top.kp = <<>> THEN "crashed" ELSE "unwind"
    /\ wild' = (wild \/ Top.num = <<>>)
    /\ UNCHANGED <<file, calls, result, properties, answer>>

\* A plausible slip (used by no action): a section left with a child still to come.
OneToCome == Top.num # <<>> /\ Last(Top.num) <= 1

SectionComplete == Top.num # <<>> /\ Last(Top.num) = 0

\* A plausible slip (used by no action): num left as it is.
UnwindNames ==
    /\ pc = "unwind" /\ SectionComplete
    /\ UNCHANGED vars

\* One turn of the while loop: a section whose children are all done is popped, and
\* counted in the one around it.  Popping from an empty kp ends the process.
Unwind ==
    /\ pc = "unwind" /\ SectionComplete
    /\ \/ /\ Top.kp # <<>>
          /\ Become([Top EXCEPT !.num = CountDown(Front(@)), !.kp = Front(@)])
          /\ pc' = pc
       \/ /\ Top.kp = <<>>
          /\ pc' = "crashed"
          /\ stack' = stack
    /\ UNCHANGED <<file, calls, result, inserted, deleted, properties, answer, wild>>

\* The call of mapProperties for the child, whether it has children or not.
Descend ==
    /\ pc = "unwind" /\ ~SectionComplete
    /\ stack' = Append(stack, Frame(Child, Top.kp, Top.vp, Top.num, Top.props))
    /\ pc' = "visit"
    /\ UNCHANGED <<file, calls, result, inserted, deleted, properties, answer, wild>>

\* A plausible slip (used by no action): the iterator left where it is.
NotAdvanced(caller, props) == [caller EXCEPT !.props = props]

\* The caller goes on with its next child.
Advanced(caller, props) == [caller EXCEPT !.it = @ + 1, !.props = props]

\* ... and its return: the caller's own kp, vp and num are as they were.
Return ==
    /\ pc = "visit" /\ Top.it > Len(Top.pt.kids)
    /\ Len(stack) > 1
    /\ LET caller == stack[Len(stack) - 1]
           back == Returned(Top.props, caller.props)
       IN  /\ stack' = [Front(stack) EXCEPT ![Len(stack) - 1] = Advanced(caller, back.props)]
           /\ deleted' = Destroy(back.destroyed, deleted)
    /\ UNCHANGED <<pc, file, calls, result, inserted, properties, answer, wild>>

----------------------------------------------------------------------------
(* readConfigurationFile and the lookups.                                  *)

\* Of a process that left num's buffer the model follows only that call.
MayCall == pc = "idle" /\ ~wild

ReadFile ==
    /\ MayCall /\ calls < MaxCalls
    /\ \E f \in Files :
         /\ file' = f
         /\ stack' = <<Frame(f, <<>>, <<>>, <<>>, NoProps)>>
    /\ pc' = "visit"
    /\ calls' = calls + 1
    /\ result' = "none"
    /\ UNCHANGED <<inserted, deleted, properties, answer, wild>>

\* No file, something that is not a regular file, or one that read_json or the file
\* system throws on: properties are left alone.
ReadNoFile ==
    /\ MayCall /\ calls < MaxCalls
    /\ calls' = calls + 1
    /\ result' \in {"ENOENT", "nothing read", "thrown"}
    /\ UNCHANGED <<pc, file, stack, inserted, deleted, properties, answer, wild>>

\* mapProperties is back, and what the local map holds is copied into the member.
ReadDone ==
    /\ pc = "visit" /\ Top.it > Len(Top.pt.kids)
    /\ Len(stack) = 1
    /\ LET back == Returned(Top.props, NoProps)
       IN  /\ properties' = Overwrite(back.props, properties)
           /\ deleted' = Destroy(back.props, Destroy(back.destroyed, deleted))
    /\ pc' = "idle"
    /\ stack' = <<>>
    /\ result' = "read"
    /\ UNCHANGED <<file, calls, inserted, answer, wild>>

\* The heap that was written over is found out, now or later.
Crash ==
    /\ wild /\ pc # "crashed"
    /\ pc' = "crashed"
    /\ UNCHANGED <<file, stack, calls, result, inserted, deleted, properties, answer, wild>>

\* A Property's values; its type says whether it holds one or several.
ValuesOf(key) == IF key \in DOMAIN properties THEN inserted[properties[key]].vals ELSE <<>>

Answer(found, values) ==
    /\ answer' = [found |-> found, values |-> values]
    /\ UNCHANGED <<pc, file, stack, calls, result, inserted, deleted, properties, wild>>

getProperty(key) ==
    Answer(FALSE, IF Len(ValuesOf(key)) = 1 THEN ValuesOf(key) ELSE <<>>)

getPropertyVector(key) ==
    Answer(FALSE, IF Len(ValuesOf(key)) > 1 THEN ValuesOf(key) ELSE <<>>)

propertyExists(key) == Answer(key \in DOMAIN properties, <<>>)

Lookup ==
    /\ MayCall
    /\ \E key \in Keys : getProperty(key) \/ getPropertyVector(key) \/ propertyExists(key)

Walk ==
    \/ VisitSection \/ VisitProperty \/ VisitElement \/ VisitLastElement
    \/ Unwind \/ Descend \/ Return \/ ReadDone

Next == Walk \/ ReadFile \/ ReadNoFile \/ Crash \/ Lookup

\* A call that was made runs on in its thread; calls need not be made.
Spec == Init /\ [][Next]_vars /\ WF_vars(Walk)

----------------------------------------------------------------------------
(* What a file says, and which files the walk gets right.                  *)

IsLeaf(n) == n.kids = <<>>
IsArray(n) == ~IsLeaf(n) /\ \A i \in DOMAIN n.kids : n.kids[i].key = <<>>

\* A property without a name yet, if it has a value.
Held(vals) == IF vals = <<>> THEN <<>> ELSE <<[key |-> <<>>, vals |-> vals]>>

\* The same properties seen from one node further up.
Under(key, props) == [j \in DOMAIN props |-> [key |-> key \o props[j].key, vals |-> props[j].vals]]

\* The properties below a node, in the order of the file: for each its key, from the
\* node on, and its values.
Flatten[n \in Node] ==
    Under(n.key,
        IF IsLeaf(n) THEN Held(n.data)
        ELSE IF IsArray(n) THEN Held(FlattenSeq([i \in DOMAIN n.kids |-> n.kids[i].data]))
        ELSE FlattenSeq([i \in DOMAIN n.kids |-> Flatten[n.kids[i]]]))

\* The nodes of the tree below a node, itself included.
Nodes[n \in Node] == {n} \cup UNION {Nodes[n.kids[i]] : i \in DOMAIN n.kids}

\* No objects or arrays in an array.
SectionsNamed(n) == \A i \in DOMAIN n.kids : n.kids[i].key = <<>> => IsLeaf(n.kids[i])

\* No empty name in an object besides others: what has it is taken for an element.
Unmixed(n) == IsArray(n) \/ \A i \in DOMAIN n.kids : n.kids[i].key # <<>>

\* At most one section in a section, and that the last of its children.
SectionLast(n) == \A i \in DOMAIN n.kids : IsLeaf(n.kids[i]) \/ i = Len(n.kids)

\* Nothing but properties at the top, or objects or arrays in an array, leads the
\* walk astray.
IsPlain(root) ==
    /\ \A i \in DOMAIN root.kids : ~IsLeaf(root.kids[i])
    /\ \A n \in Nodes[root] : SectionsNamed(n)

\* A file that is not just a value, either.
IsRegular(root) == IsPlain(root) /\ root.data = <<>> /\ \A n \in Nodes[root] : Unmixed(n)

IsOrderly(root) == IsRegular(root) /\ \A n \in Nodes[root] : SectionLast(n)

----------------------------------------------------------------------------
(* Properties.                                                             *)

Entry == [call : 1..MaxCalls, kp : Seq(Seq(Names)), vals : Seq(Value) \ {<<>>}]

IsProps(p) == p \in [DOMAIN p -> DOMAIN inserted]

IsFrame(f) ==
    /\ f.pt \in Node /\ f.it \in 1..(Len(f.pt.kids) + 1)
    /\ f.kp \in Seq(Seq(Names)) /\ f.vp \in Seq(Value) /\ f.num \in Seq(0..UINT_MAX)
    /\ IsProps(f.props)

\* Every variable holds a value of its type, a call is running exactly when it has a
\* frame, and every frame but the running one is at the child it called for.
TypeOK ==
    /\ pc \in {"idle", "visit", "unwind", "crashed"}
    /\ file \in Files
    /\ \A d \in DOMAIN stack : IsFrame(stack[d])
    /\ pc = "idle" => stack = <<>>
    /\ Running => stack # <<>> /\ stack[1].pt = file
    /\ pc = "unwind" => Top.it <= Len(Top.pt.kids)
    /\ \A d \in 1..(Len(stack) - 1) :
          stack[d].it <= Len(stack[d].pt.kids) /\ stack[d + 1].pt = stack[d].pt.kids[stack[d].it]
    /\ calls \in 0..MaxCalls
    /\ result \in {"none", "read", "ENOENT", "nothing read", "thrown"}
    /\ inserted \in Seq(Entry)
    /\ deleted \in Seq(Nat) /\ Len(deleted) = Len(inserted)
    /\ IsProps(properties)
    /\ answer \in [found : BOOLEAN, values : Seq(Value)]
    /\ wild \in BOOLEAN

\* num counts the children still to come of the sections the walk is in: none of its
\* counters but the last, while sections are being unwound, is zero, so that none is
\* ever counted down below zero.
CountersPositive ==
    \A d \in DOMAIN stack : \A i \in DOMAIN stack[d].num :
        stack[d].num[i] > 0 \/ (pc # "visit" /\ d = Len(stack) /\ i = Len(stack[d].num))

OfThisCall ==
    LET before == {i \in DOMAIN inserted : inserted[i].call # calls}
    IN  SubSeq(inserted, Cardinality(before) + 1, Len(inserted))

\* A file with no more than one section in each section, the last of its children, is
\* read as it is written: every property under its key, once, in order.
WalkRight ==
    result = "read" /\ IsOrderly(file) =>
        [i \in DOMAIN OfThisCall |-> [key |-> Key(OfThisCall[i].kp), vals |-> OfThisCall[i].vals]]
            = Flatten[file]

\* The values of every regular file are found, once, in order and grouped as in the
\* file, though a property that comes after a section may get a wrong key.
ValuesKept ==
    result = "read" /\ IsRegular(file) =>
        [i \in DOMAIN OfThisCall |-> OfThisCall[i].vals]
            = [i \in DOMAIN Flatten[file] |-> Flatten[file][i].vals]

\* The walk leaves num's buffer, or pops from an empty vector, only for a file with a
\* property at the top or with objects or arrays in an array; a file that begins
\* with a property never gets away without.
AstrayOnlyWhere ==
    /\ wild \/ pc = "crashed" => ~IsPlain(file)
    /\ result = "read" /\ file.kids # <<>> /\ IsLeaf(file.kids[1]) => wild

\* The value of a Property, shared by every copy made of it, is deleted no more than
\* once, and exactly once by the time the call returns; the member holds none that is.
DeletedOnce ==
    /\ \A n \in DOMAIN deleted : deleted[n] <= 1
    /\ pc = "idle" => \A n \in DOMAIN deleted : deleted[n] = 1
    /\ \A k \in DOMAIN properties : deleted[properties[k]] = 0

\* Configuration.cpp:64-65, on the loop at the end of readConfigurationFile: what was
\* read overwrites the existing properties.  After a call that read a file each key it
\* found leads, in the member, to a value of that call.
ValuesLoaded ==
    result = "read" /\ ~wild =>
        \A i \in DOMAIN inserted : inserted[i].call = calls =>
            LET key == Key(inserted[i].kp)
            IN  /\ key \in DOMAIN properties
                /\ inserted[properties[key]].call = calls

\* The places of the frames: which child of which node each is at.
SameChildren(s, t) == Len(t) = Len(s) /\ \A d \in DOMAIN s : t[d].it = s[d].it

\* The walk is further in the file with the frames t than with s: in the first frame
\* that differs at a later child, or in a new frame, below the child it was at.
Further(s, t) ==
    \E d \in DOMAIN t :
        /\ d <= Len(s) + 1
        /\ \A i \in 1..(d - 1) : t[i].it = s[i].it
        /\ d <= Len(s) => t[d].it > s[d].it

\* While a call runs, no step takes the walk back, and none leaves everything as it
\* was: each one leads to a later place in the file, or visits the child, or leaves a
\* section with one counter less.  No node is ever visited twice.
WalkGoesOn ==
    [][Running /\ Running' =>
          \/ Further(stack, stack')
          \/ SameChildren(stack, stack') /\ pc = "visit" /\ pc' = "unwind"
          \/ SameChildren(stack, stack') /\ pc' = pc /\ Len(Top'.num) < Len(Top.num)]_vars

\* A call of readConfigurationFile ends, whatever the file.
ReadReturns == Running ~> ~Running

=============================================================================
