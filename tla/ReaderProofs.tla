----------------------------- MODULE ReaderProofs -----------------------------
(***************************************************************************)
(* That Json::Reader never writes through a pointer to a destroyed Value,  *)
(* refuses a text exactly if it noted an error, and leaves only numbers    *)
(* that convert where they say: for any text, of any length and depth.     *)
(* Also that decodeNumber decodes exactly and never overflows.             *)
(***************************************************************************)
EXTENDS Reader, SequenceTheorems, WellFoundedInduction, TLAPS

\* What decodeString can make, and the keys made of it.
Names == {<<>>} \cup {DecodeString(s) : s \in Seq(STRING)}
Key == {Name(n) : n \in Names} \cup {Index(i) : i \in Nat}
Path == Seq(Key)
FrameType == [object : BOOLEAN, name : Names, index : Nat]

\* Every node of t is a record with a type.
HasTypes(t) == \A q \in DOMAIN t : "type" \in DOMAIN t[q]

-----------------------------------------------------------------------------
LEMMA PopPath ==
  ASSUME NEW S, NEW s \in Seq(S), Len(s) >= 1
  PROVE  /\ Pop(s) \in Seq(S)
         /\ Len(Pop(s)) = Len(s) - 1
         /\ \A i \in 1..(Len(s) - 1) : Pop(s)[i] = s[i]
<1> DEFINE n == Len(s) - 1
<1>1. \A i \in 1..n : s[i] \in S
  BY LenProperties
<1>2. n \in Nat
  BY LenProperties
<1> HIDE DEF n
<1>3. /\ SubSeq(s, 1, n) \in Seq(S)
      /\ Len(SubSeq(s, 1, n)) = IF 1 <= n THEN n - 1 + 1 ELSE 0
      /\ \A i \in 1..(n - 1 + 1) : SubSeq(s, 1, n)[i] = s[1 + i - 1]
  BY <1>1, <1>2, SubSeqProperties
<1> DEFINE r == SubSeq(s, 1, n)
<1> HIDE DEF r
<1>4. r \in Seq(S) /\ Len(r) = n /\ \A i \in 1..n : r[i] = s[i]
  <2>1. r \in Seq(S) /\ Len(r) = IF 1 <= n THEN n - 1 + 1 ELSE 0
    BY <1>3 DEF r
  <2>2. \A i \in 1..(n - 1 + 1) : r[i] = s[1 + i - 1]
    BY <1>3 DEF r
  <2> QED
    BY <2>1, <2>2, <1>2
<1>5. Pop(s) = r
  BY DEF Pop, r, n
<1> QED
  BY <1>4, <1>5 DEF n

LEMMA PopAppend ==
  ASSUME NEW S, NEW s \in Seq(S), NEW e \in S
  PROVE  Pop(Append(s, e)) = s
<1>1. /\ Append(s, e) \in Seq(S) /\ Len(Append(s, e)) = Len(s) + 1
      /\ \A i \in 1..Len(s) : Append(s, e)[i] = s[i]
      /\ Len(s) \in Nat
  BY AppendProperties, LenProperties
<1> DEFINE a == Append(s, e)
<1> HIDE DEF a
<1>2. a \in Seq(S) /\ Len(a) >= 1 /\ Len(a) = Len(s) + 1
  BY <1>1 DEF a
<1>3. /\ Pop(a) \in Seq(S) /\ Len(Pop(a)) = Len(a) - 1
      /\ \A i \in 1..(Len(a) - 1) : Pop(a)[i] = a[i]
  BY <1>2, PopPath, Zenon
<1>4. /\ Len(Pop(a)) = Len(s)
      /\ \A i \in 1..Len(s) : Pop(a)[i] = s[i]
  BY <1>1, <1>2, <1>3 DEF a
<1> QED
  BY <1>3, <1>4, SeqEqual DEF a

LEMMA KeyName == ASSUME NEW n \in Names PROVE Name(n) \in Key
BY DEF Key

LEMMA KeyIndex == ASSUME NEW i \in Nat PROVE Index(i) \in Key
BY DEF Key

\* What comments, assignments and lookups do to the tree.
LEMMA CommentTree ==
  ASSUME NEW t, NEW ps, NEW placement, NEW text, HasTypes(t)
  PROVE  /\ DOMAIN SetComment(t, ps, placement, text) = DOMAIN t
         /\ HasTypes(SetComment(t, ps, placement, text))
         /\ \A q \in DOMAIN t :
              SetComment(t, ps, placement, text)[q].type = t[q].type
BY DEF SetComment, HasTypes

\* The tree once what is below p is destroyed and p has another node.
Replaced(t, p, node) ==
  [q \in {r \in DOMAIN t : ~Below(p, r)} |-> IF q = p THEN node ELSE t[q]]

\* The node of a Value without children, with the comments of another one.
NodeWith(type, num, str, n) == [Node(type, num, str) EXCEPT !.com = n.com]

LEMMA AssignIs ==
  ASSUME NEW t, NEW p \in Path, NEW type, NEW num, NEW str, p \in DOMAIN t
  PROVE  /\ ~Below(p, p)
         /\ Assign(t, p, Leaf(type, num, str))
              = Replaced(t, p, NodeWith(type, num, str, t[p]))
<1> DEFINE v == Leaf(type, num, str)
           kept == {q \in DOMAIN t : ~Below(p, q)}
           node == NodeWith(type, num, str, t[p])
<1>1. ~Below(p, p) /\ p \in kept
  BY LenProperties DEF Below, Path
<1>2. DOMAIN v = {<<>>} /\ [v[<<>>] EXCEPT !.com = t[p].com] = node
  BY DEF Leaf, NodeWith
<1>3. {p \o q : q \in DOMAIN v} = {p}
  BY <1>2, ConcatEmptySeq DEF Path
<1>4. Assign(t, p, v) =
        [q \in kept \cup {p} |->
           IF q = p THEN [v[<<>>] EXCEPT !.com = t[p].com]
           ELSE IF q \in kept THEN t[q]
           ELSE v[SubSeq(q, Len(p) + 1, Len(q))]]
  BY <1>3 DEF Assign
<1> HIDE DEF kept, node
<1>5. Assign(t, p, v) = [q \in kept |-> IF q = p THEN node ELSE t[q]]
  BY <1>1, <1>2, <1>4
<1> QED
  BY <1>1, <1>5 DEF kept, node, Replaced

LEMMA AssignLeaf ==
  ASSUME NEW t, NEW p \in Path, NEW type, NEW num, NEW str,
         HasTypes(t), p \in DOMAIN t
  PROVE  /\ \A q : q \in DOMAIN Assign(t, p, Leaf(type, num, str))
                 <=> q \in DOMAIN t /\ ~Below(p, q)
         /\ HasTypes(Assign(t, p, Leaf(type, num, str)))
         /\ Assign(t, p, Leaf(type, num, str))[p].type = type
         /\ \A q \in DOMAIN t : ~Below(p, q) /\ q # p =>
              Assign(t, p, Leaf(type, num, str))[q] = t[q]
<1> DEFINE a == Assign(t, p, Leaf(type, num, str))
           kept == {q \in DOMAIN t : ~Below(p, q)}
           node == NodeWith(type, num, str, t[p])
<1>1. a = [q \in kept |-> IF q = p THEN node ELSE t[q]] /\ p \in kept
  <2>1. a = Replaced(t, p, node) /\ ~Below(p, p)
    BY AssignIs
  <2> QED
    BY <2>1 DEF Replaced
<1>2. node.type = type /\ "type" \in DOMAIN node
  BY DEF Node, NodeWith
<1> HIDE DEF a, node
<1>3. DOMAIN a = kept /\ a[p].type = type /\ \A q \in kept : q # p => a[q] = t[q]
  BY <1>1, <1>2
<1>4. HasTypes(a)
  <2>1. \A q \in kept : q \in DOMAIN t
    OBVIOUS
  <2> HIDE DEF kept
  <2>2. ASSUME NEW q \in kept PROVE "type" \in DOMAIN a[q]
    <3>1. a[q] = IF q = p THEN node ELSE t[q]
      BY <1>1
    <3> QED
      BY <1>2, <2>1, <3>1 DEF HasTypes
  <2> QED
    BY <1>3, <2>2 DEF HasTypes
<1> QED
  BY <1>3, <1>4 DEF a

-----------------------------------------------------------------------------
Values == {"value", "firstValue"}
Inside == {"member", "colon", "comma", "dropped", "first", "separator", "recover"}
Ends == {"end", "done"}

Typed ==
  /\ nodes \in Seq(Path)
  /\ frames \in Seq(FrameType)
  /\ lastValue \in SUBSET Path
  /\ sameLine \in BOOLEAN
  /\ pc \in Values \cup Inside \cup Ends

\* nodes_ and the calls of readObject and readArray grow and shrink together.
Depth ==
  /\ pc \in Values => Len(nodes) = Len(frames) + 1
  /\ pc \in Inside => Len(frames) >= 1 /\ Len(nodes) = Len(frames)
  /\ pc \in Ends => Len(nodes) = 1 /\ frames = <<>>

Chain ==
  \A i \in 1..Len(nodes) :
    /\ Len(nodes[i]) = i - 1
    /\ i > 1 => nodes[i - 1] = Pop(nodes[i])

\* lastValue_ is no deeper than a child of the innermost open container, so what
\* a value that is read next destroys is never lastValue_.
LastNear ==
  /\ sameLine => lastValue # {}
  /\ \A v \in lastValue :
       Len(v) <= IF pc \in Values THEN Len(nodes) - 1 ELSE Len(nodes)

\* What is pointed to is in t, and the open containers are containers.
Holds(t) ==
  /\ HasTypes(t)
  /\ \A i \in 1..Len(nodes) : nodes[i] \in DOMAIN t
  /\ \A i \in 1..Len(frames) : t[nodes[i]].type # "null"
  /\ lastValue \subseteq DOMAIN t

LiveInv == Typed /\ Depth /\ Chain /\ LastNear /\ Holds(tree)

LEMMA TopFacts ==
  ASSUME LiveInv
  PROVE  /\ Len(nodes) \in Nat /\ Len(nodes) >= 1 /\ Len(frames) \in Nat
         /\ Len(frames) <= Len(nodes)
         /\ Top = nodes[Len(nodes)] /\ Top \in Path /\ Len(Top) = Len(nodes) - 1
         /\ Top \in DOMAIN tree
         /\ \A i \in 1..Len(nodes) : nodes[i] \in Path
         /\ pc \in Inside =>
              Back(frames) \in FrameType /\ frames[Len(frames)] \in FrameType
<1>1. nodes \in Seq(Path) /\ frames \in Seq(FrameType)
  BY DEF LiveInv, Typed
<1>2. /\ Len(nodes) \in Nat /\ Len(frames) \in Nat
      /\ \A i \in 1..Len(nodes) : nodes[i] \in Path
      /\ \A i \in 1..Len(frames) : frames[i] \in FrameType
  BY <1>1, LenProperties
<1>3. Len(nodes) >= 1 /\ Len(frames) <= Len(nodes)
  <2>1. Len(<<>>) = 0
    OBVIOUS
  <2> QED
    BY <2>1, <1>2 DEF LiveInv, Typed, Depth
<1>4. Top = nodes[Len(nodes)]
  BY DEF Top, Back
<1>5. Len(Top) = Len(nodes) - 1
  BY <1>2, <1>3, <1>4 DEF LiveInv, Chain
<1>6. Top \in DOMAIN tree
  BY <1>2, <1>3, <1>4 DEF LiveInv, Holds
<1>7. pc \in Inside => Back(frames) \in FrameType /\ frames[Len(frames)] \in FrameType
  BY <1>2 DEF LiveInv, Depth, Back
<1> QED
  BY <1>2, <1>3, <1>4, <1>5, <1>6, <1>7

LEMMA HoldsComment ==
  ASSUME LiveInv, NEW ps, NEW placement, NEW text
  PROVE  Holds(SetComment(tree, ps, placement, text))
<1>1. /\ Holds(tree) /\ HasTypes(tree)
      /\ Len(frames) \in Nat /\ Len(nodes) \in Nat /\ Len(frames) <= Len(nodes)
  BY TopFacts DEF LiveInv, Holds
<1>2. /\ DOMAIN SetComment(tree, ps, placement, text) = DOMAIN tree
      /\ HasTypes(SetComment(tree, ps, placement, text))
      /\ \A q \in DOMAIN tree :
           SetComment(tree, ps, placement, text)[q].type = tree[q].type
  BY <1>1, CommentTree
<1> QED
  BY <1>1, <1>2 DEF Holds

LEMMA HoldsCommented ==
  ASSUME LiveInv
  PROVE  Holds(Commented)
<1>1. CASE before = <<>>
  BY <1>1 DEF Commented, LiveInv
<1>2. CASE before # <<>>
  BY <1>2, HoldsComment DEF Commented
<1> QED
  BY <1>1, <1>2

\* A value of the innermost call is made.
LEMMA HoldsAssign ==
  ASSUME LiveInv, pc \in Values, NEW type, NEW num, NEW str
  PROVE  /\ Holds(Assign(Commented, Top, Leaf(type, num, str)))
         /\ Assign(Commented, Top, Leaf(type, num, str))[Top].type = type
<1> DEFINE t == Commented
           a == Assign(t, Top, Leaf(type, num, str))
<1>1. /\ Len(nodes) \in Nat /\ Len(nodes) >= 1 /\ Len(frames) \in Nat
      /\ Top = nodes[Len(nodes)] /\ Top \in Path /\ Len(Top) = Len(nodes) - 1
      /\ \A i \in 1..Len(nodes) : nodes[i] \in Path /\ Len(nodes[i]) = i - 1
      /\ Len(nodes) = Len(frames) + 1
  BY TopFacts DEF LiveInv, Depth, Chain
<1>2. Holds(t)
  BY HoldsCommented
<1> HIDE DEF t
<1>3. HasTypes(t) /\ Top \in DOMAIN t
  BY <1>1, <1>2 DEF Holds
<1>4. /\ \A q : q \in DOMAIN a <=> q \in DOMAIN t /\ ~Below(Top, q)
      /\ HasTypes(a)
      /\ a[Top].type = type
      /\ \A q \in DOMAIN t : ~Below(Top, q) /\ q # Top => a[q] = t[q]
  <2>1. HasTypes(t) /\ Top \in Path /\ Top \in DOMAIN t
    BY <1>1, <1>3
  <2> QED
    BY <2>1, AssignLeaf
<1> HIDE DEF a
<1>5. \A i \in 1..Len(nodes) : nodes[i] \in DOMAIN a
  <2> TAKE i \in 1..Len(nodes)
  <2>1. ~Below(Top, nodes[i])
    BY <1>1 DEF Below
  <2> QED
    BY <1>2, <1>4, <2>1 DEF Holds
<1>6. \A i \in 1..Len(frames) : a[nodes[i]].type # "null"
  <2> TAKE i \in 1..Len(frames)
  <2>1. i \in 1..Len(nodes) /\ nodes[i] # Top
    BY <1>1
  <2> QED
    BY <1>2, <1>4, <1>5, <2>1 DEF Holds
<1>7. lastValue \subseteq DOMAIN a
  <2> SUFFICES ASSUME NEW v \in lastValue PROVE v \in DOMAIN a
    OBVIOUS
  <2>1. v \in Path /\ Len(v) <= Len(nodes) - 1
    BY DEF LiveInv, Typed, LastNear
  <2>2. Len(v) \in Nat
    BY <2>1, LenProperties DEF Path
  <2>3. ~Below(Top, v)
    BY <1>1, <2>1, <2>2 DEF Below
  <2> QED
    BY <1>2, <1>4, <2>3 DEF Holds
<1> QED
  BY <1>4, <1>5, <1>6, <1>7 DEF Holds, a, t

\* A member or an element is looked up in the innermost container.
LEMMA HoldsResolve ==
  ASSUME LiveInv, pc \in Inside, NEW k \in Key
  PROVE  /\ Holds(Resolve(tree, Top, k))
         /\ Append(Top, k) \in DOMAIN Resolve(tree, Top, k)
<1>1. /\ Holds(tree) /\ Top = nodes[Len(nodes)]
      /\ Len(frames) >= 1 /\ Len(nodes) = Len(frames) /\ Len(frames) \in Nat
  BY TopFacts DEF LiveInv, Depth
<1>2. tree[Top].type # "null"
  BY <1>1 DEF Holds
<1> DEFINE c == Append(Top, k)
           r == [q \in DOMAIN tree \cup {c} |->
                   IF q \in DOMAIN tree THEN tree[q] ELSE NullNode]
<1>3. Resolve(tree, Top, k) = r
  BY <1>2 DEF Resolve
<1>4. "type" \in DOMAIN NullNode
  BY DEF NullNode, Node
<1>5. HasTypes(r)
  BY <1>1, <1>4 DEF HasTypes, Holds
<1>6. DOMAIN r = DOMAIN tree \cup {c} /\ \A q \in DOMAIN tree : r[q] = tree[q]
  OBVIOUS
<1> HIDE DEF r, c
<1>7. Holds(r)
  BY <1>1, <1>5, <1>6 DEF Holds
<1> QED
  BY <1>3, <1>6, <1>7 DEF c

-----------------------------------------------------------------------------
\* A step that leaves the pointers alone, and the calls but for their locals.
LEMMA Stays ==
  ASSUME LiveInv, Holds(tree'),
         nodes' = nodes, lastValue' = lastValue,
         sameLine' \in BOOLEAN, sameLine' => sameLine,
         frames' \in Seq(FrameType), Len(frames') = Len(frames),
         frames = <<>> => frames' = <<>>,
         \/ pc \in Values /\ pc' \in Values
         \/ pc \in Inside /\ pc' \in Inside
         \/ pc \in Ends /\ pc' \in Ends
  PROVE  LiveInv'
<1>1. Typed'
  BY DEF LiveInv, Typed
<1>2. Depth'
  BY DEF LiveInv, Depth, Values, Inside, Ends
<1>3. Chain'
  BY DEF LiveInv, Chain
<1>4. LastNear'
  BY DEF LiveInv, LastNear, Values, Inside, Ends
<1>5. Holds(tree)'
  BY DEF Holds
<1> QED
  BY <1>1, <1>2, <1>3, <1>4, <1>5 DEF LiveInv

\* readValue returns to one of the calls fs that are left.
LEMMA Resumes ==
  ASSUME LiveInv, Holds(tree'), NEW fs, NEW ok, Resume(fs, ok), frames' = fs,
         \/ pc \in Values /\ fs = frames
         \/ pc \in Inside /\ fs = Pop(frames),
         lastValue' \in SUBSET Path, lastValue' \subseteq DOMAIN tree',
         \A v \in lastValue' : Len(v) <= Len(nodes) - 1,
         sameLine' \in BOOLEAN, sameLine' => lastValue' # {}
  PROVE  LiveInv'
<1>1. /\ nodes \in Seq(Path) /\ frames \in Seq(FrameType)
      /\ Len(nodes) \in Nat /\ Len(frames) \in Nat
      /\ Len(nodes) >= 1 /\ Len(frames) <= Len(nodes)
  BY TopFacts DEF LiveInv, Typed
<1>2. /\ fs \in Seq(FrameType) /\ Len(fs) = Len(nodes) - 1
      /\ Len(fs) <= Len(frames)
  <2>1. CASE pc \in Values /\ fs = frames
    BY <1>1, <2>1 DEF LiveInv, Depth
  <2>2. CASE pc \in Inside /\ fs = Pop(frames)
    <3>1. Len(frames) >= 1 /\ Len(nodes) = Len(frames)
      BY <2>2 DEF LiveInv, Depth
    <3>2. Pop(frames) \in Seq(FrameType) /\ Len(Pop(frames)) = Len(frames) - 1
      BY <1>1, <3>1, PopPath
    <3> QED
      BY <1>1, <2>2, <3>1, <3>2
  <2> QED
    BY <2>1, <2>2
<1>3. CASE fs = <<>>
  <2>1. pc' = "end" /\ nodes' = nodes /\ Len(nodes) = 1 /\ frames' = <<>>
    <3>1. Len(fs) = 0
      BY <1>3
    <3>2. pc' = "end" /\ nodes' = nodes
      BY <1>3 DEF Resume
    <3> QED
      BY <1>1, <1>2, <1>3, <3>1, <3>2
  <2>2. pc' \in Ends /\ pc' \notin Values /\ pc' \notin Inside
    BY <2>1 DEF Ends, Values, Inside
  <2>3. Typed'
    BY <1>1, <1>2, <2>1, <2>2 DEF Typed
  <2>4. Depth'
    BY <2>1, <2>2 DEF Depth
  <2>5. Chain'
    BY <2>1 DEF LiveInv, Chain
  <2>6. LastNear'
    <3>1. \A v \in lastValue' : Len(v) <= Len(nodes')
      BY <2>1, LenProperties DEF Path
    <3> QED
      BY <2>2, <3>1 DEF LastNear
  <2>7. Holds(tree)'
    <3>1. Len(frames') = 0
      BY <2>1
    <3> QED
      BY <2>1, <3>1 DEF Holds
  <2> QED
    BY <2>3, <2>4, <2>5, <2>6, <2>7 DEF LiveInv
<1>4. CASE fs # <<>>
  <2>1. Len(fs) >= 1
    BY <1>2, <1>4, LenProperties, EmptySeq
  <2>2. /\ nodes' = Pop(nodes) /\ nodes' \in Seq(Path)
        /\ Len(nodes') = Len(nodes) - 1
        /\ \A i \in 1..Len(nodes') : nodes'[i] = nodes[i]
    BY <1>1, <1>4, PopPath DEF Resume
  <2>3. pc' \in Inside /\ pc' \notin Values /\ pc' \notin Ends
    BY <1>4 DEF Resume, Ends, Values, Inside
  <2>4. Typed'
    BY <1>2, <2>2, <2>3 DEF Typed
  <2>5. Depth'
    BY <1>1, <1>2, <2>1, <2>2, <2>3 DEF Depth
  <2>6. Chain'
    <3> SUFFICES ASSUME NEW i \in 1..Len(nodes')
                 PROVE  /\ Len(nodes'[i]) = i - 1
                        /\ i > 1 => nodes'[i - 1] = Pop(nodes'[i])
      BY DEF Chain
    <3>1. i \in 1..Len(nodes) /\ nodes'[i] = nodes[i]
      BY <1>1, <2>2
    <3>2. i > 1 => i - 1 \in 1..Len(nodes') /\ nodes'[i - 1] = nodes[i - 1]
      BY <1>1, <2>2
    <3> QED
      BY <3>1, <3>2 DEF LiveInv, Chain
  <2>7. LastNear'
    BY <2>2, <2>3 DEF LastNear
  <2>8. Holds(tree)'
    <3>1. HasTypes(tree')
      BY DEF Holds
    <3>2. \A i \in 1..Len(nodes') : nodes'[i] \in DOMAIN tree'
      BY <1>1, <2>2 DEF Holds
    <3>3. \A i \in 1..Len(frames') : tree'[nodes'[i]].type # "null"
      BY <1>1, <1>2, <2>2 DEF Holds
    <3> QED
      BY <3>1, <3>2, <3>3 DEF Holds
  <2> QED
    BY <2>4, <2>5, <2>6, <2>7, <2>8 DEF LiveInv
<1> QED
  BY <1>3, <1>4

LEMMA Returns ==
  ASSUME LiveInv, Holds(tree'), NEW fs, NEW ok, Return(fs, ok),
         \/ pc \in Values /\ fs = frames
         \/ pc \in Inside /\ fs = Pop(frames)
  PROVE  LiveInv'
<1>1. /\ lastValue' = {Top} /\ sameLine' = TRUE /\ frames' = fs /\ Resume(fs, ok)
  BY DEF Return, LastOf
<1>2. /\ Top \in Path /\ Len(Top) = Len(nodes) - 1 /\ Top = nodes[Len(nodes)]
      /\ Len(nodes) \in Nat /\ Len(nodes) >= 1
  BY TopFacts
<1>3. Top \in DOMAIN tree'
  BY <1>2 DEF Holds
<1>4. /\ lastValue' \in SUBSET Path /\ lastValue' \subseteq DOMAIN tree'
      /\ \A v \in lastValue' : Len(v) <= Len(nodes) - 1
      /\ lastValue' # {}
  BY <1>1, <1>2, <1>3
<1> QED
  BY <1>1, <1>4, Resumes

\* The address of a member or an element is pushed on nodes_.
LEMMA Pushes ==
  ASSUME LiveInv, pc \in Inside, NEW k \in Key, PushMember(k), pc' \in Values,
         frames' \in Seq(FrameType), Len(frames') = Len(frames)
  PROVE  LiveInv'
<1> DEFINE c == Append(Top, k)
<1>1. /\ nodes \in Seq(Path) /\ Len(nodes) \in Nat /\ Len(nodes) >= 1
      /\ Len(frames) \in Nat /\ Len(nodes) = Len(frames)
      /\ Top = nodes[Len(nodes)] /\ Top \in Seq(Key) /\ Len(Top) = Len(nodes) - 1
  BY TopFacts DEF LiveInv, Typed, Depth, Path
<1>2. c \in Path /\ Len(c) = Len(nodes) /\ Pop(c) = Top
  BY <1>1, AppendProperties, PopAppend DEF Path
<1>3. Holds(tree') /\ c \in DOMAIN tree'
  BY HoldsResolve DEF PushMember
<1>4. /\ nodes' = Append(nodes, c)
      /\ lastValue' = lastValue /\ sameLine' = sameLine
  BY DEF PushMember
<1> HIDE DEF c
<1>5. /\ nodes' \in Seq(Path) /\ Len(nodes') = Len(nodes) + 1
      /\ nodes'[Len(nodes) + 1] = c
      /\ \A i \in 1..Len(nodes) : nodes'[i] = nodes[i]
  BY <1>1, <1>2, <1>4, AppendProperties
<1>6. pc' \notin Inside /\ pc' \notin Ends
  BY DEF Values, Inside, Ends
<1>7. Typed'
  BY <1>4, <1>5 DEF LiveInv, Typed
<1>8. Depth'
  BY <1>1, <1>5, <1>6 DEF Depth
<1>9. Chain'
  <2> SUFFICES ASSUME NEW i \in 1..Len(nodes')
               PROVE  /\ Len(nodes'[i]) = i - 1
                      /\ i > 1 => nodes'[i - 1] = Pop(nodes'[i])
    BY DEF Chain
  <2>1. CASE i = Len(nodes) + 1
    <3>1. nodes'[i - 1] = Top
      BY <1>1, <1>5, <2>1
    <3> QED
      BY <1>1, <1>2, <1>5, <2>1, <3>1
  <2>2. CASE i # Len(nodes) + 1
    <3>1. i \in 1..Len(nodes) /\ nodes'[i] = nodes[i]
      BY <1>1, <1>5, <2>2
    <3>2. i > 1 => nodes'[i - 1] = nodes[i - 1]
      BY <1>1, <1>5, <3>1
    <3> QED
      BY <3>1, <3>2 DEF LiveInv, Chain
  <2> QED
    BY <2>1, <2>2
<1>10. LastNear'
  <2>1. pc \notin Values
    BY DEF Values, Inside
  <2> QED
    BY <1>1, <1>4, <1>5, <2>1 DEF LiveInv, LastNear
<1>11. Holds(tree)'
  <2>1. HasTypes(tree') /\ lastValue' \subseteq DOMAIN tree'
    BY <1>3, <1>4 DEF Holds
  <2>2. \A i \in 1..Len(nodes') : nodes'[i] \in DOMAIN tree'
    <3> TAKE i \in 1..Len(nodes')
    <3>1. i = Len(nodes) + 1 \/ i \in 1..Len(nodes)
      BY <1>1, <1>5
    <3> QED
      BY <1>3, <1>5, <3>1 DEF Holds
  <2>3. \A i \in 1..Len(frames') : tree'[nodes'[i]].type # "null"
    BY <1>1, <1>3, <1>5 DEF Holds
  <2> QED
    BY <2>1, <2>2, <2>3 DEF Holds
<1> QED
  BY <1>7, <1>8, <1>9, <1>10, <1>11 DEF LiveInv

\* The steps that end a call, or fail inside one.
LEMMA CallEnds ==
  ASSUME LiveInv, pc \in Inside, Finish
  PROVE  LiveInv'
<1>1. Holds(tree')
  BY DEF Finish, LiveInv
<1> QED
  BY <1>1, Returns DEF Finish

LEMMA CallFails ==
  ASSUME LiveInv, pc \in Inside, Fail
  PROVE  LiveInv'
<1>1. Holds(tree') /\ frames' = frames /\ pc' \in Inside
  BY DEF Fail, LiveInv, Inside
<1> QED
  BY <1>1, Stays DEF Fail, LiveInv, Typed

\* What a scalar token is made into.
LEMMA ScalarLeaf ==
  ASSUME NEW x, x.type \in ScalarToken
  PROVE  \E type, num, str : Scalar(x) = Leaf(type, num, str)
BY DEF Scalar, ScalarToken, DecodeNumber, NewValue

\* The locals of the innermost call change.
LEMMA LocalsTyped ==
  ASSUME LiveInv, pc \in Inside
  PROVE  /\ \A n \in Names :
              LET f == [frames EXCEPT ![Len(frames)].name = n]
              IN f \in Seq(FrameType) /\ Len(f) = Len(frames)
         /\ LET f == [frames EXCEPT ![Len(frames)].index = @ + 1]
            IN f \in Seq(FrameType) /\ Len(f) = Len(frames)
         /\ Back(frames).name \in Names /\ Back(frames).index \in Nat
<1>1. /\ frames \in Seq(FrameType) /\ Len(frames) \in Nat /\ Len(frames) >= 1
      /\ Back(frames) = frames[Len(frames)] /\ frames[Len(frames)] \in FrameType
  BY TopFacts DEF LiveInv, Typed, Depth, Back
<1>2. \A n \in Names : [frames[Len(frames)] EXCEPT !.name = n] \in FrameType
  BY <1>1 DEF FrameType
<1>3. [frames[Len(frames)] EXCEPT !.index = @ + 1] \in FrameType
  BY <1>1 DEF FrameType
<1>4. \A v \in FrameType : LET f == [frames EXCEPT ![Len(frames)] = v]
                           IN f \in Seq(FrameType) /\ Len(f) = Len(frames)
  BY <1>1, ExceptSeq
<1> QED
  BY <1>1, <1>2, <1>3, <1>4 DEF FrameType

LEMMA LiveInit == ParseInit => LiveInv
<1> SUFFICES ASSUME ParseInit PROVE LiveInv
  OBVIOUS
<1>1. /\ nodes = <<<<>>>> /\ frames = <<>> /\ pc = "value" /\ lastValue = {}
      /\ sameLine = FALSE /\ tree = NewValue("null")
  BY DEF ParseInit
<1>2. <<>> \in Path /\ Len(<<>>) = 0 /\ Len(nodes) = 1 /\ nodes[1] = <<>>
  BY <1>1 DEF Path
<1>3. pc \in Values /\ pc \notin Inside /\ pc \notin Ends
  BY <1>1 DEF Values, Inside, Ends
<1>4. Typed
  <2> DEFINE root == <<>>
  <2>1. root \in Path
    BY DEF Path
  <2> HIDE DEF root
  <2>2. <<root>> \in Seq(Path)
    BY <2>1
  <2>3. nodes = <<root>>
    BY <1>1 DEF root
  <2>4. frames \in Seq(FrameType)
    BY <1>1, EmptySeq
  <2>5. lastValue \in SUBSET Path /\ sameLine \in BOOLEAN
    BY <1>1
  <2> QED
    BY <1>3, <2>2, <2>3, <2>4, <2>5 DEF Typed
<1>5. Depth
  BY <1>1, <1>2, <1>3 DEF Depth
<1>6. Chain
  BY <1>2 DEF Chain
<1>7. LastNear
  BY <1>1 DEF LastNear
<1>8. DOMAIN tree = {<<>>} /\ HasTypes(tree)
  BY <1>1 DEF NewValue, Leaf, Node, HasTypes
<1>9. Holds(tree)
  BY <1>1, <1>2, <1>8 DEF Holds
<1> QED
  BY <1>4, <1>5, <1>6, <1>7, <1>9 DEF LiveInv

LEMMA LiveBegin ==
  ASSUME LiveInv, NEW x \in LexemeType, Begin(x)
  PROVE  LiveInv'
<1> DEFINE type == IF x.type = "{" THEN "object" ELSE "array"
           f == [object |-> x.type = "{", name |-> <<>>, index |-> 0]
<1>1. pc \in Values /\ type # "null"
  BY DEF Begin, AtValue, Values
<1>2. /\ nodes \in Seq(Path) /\ frames \in Seq(FrameType)
      /\ Len(nodes) \in Nat /\ Len(nodes) >= 1 /\ Len(frames) \in Nat
      /\ Len(nodes) = Len(frames) + 1 /\ Top = nodes[Len(nodes)]
  BY <1>1, TopFacts DEF LiveInv, Typed, Depth
<1>3. f \in FrameType
  BY DEF FrameType, Names
<1>4. /\ nodes' = nodes /\ lastValue' = lastValue /\ sameLine' = sameLine
      /\ frames' = Append(frames, f)
      /\ tree' = Assign(Commented, Top, Leaf(type, 0, <<>>))
  BY DEF Begin, NewValue
<1>5. pc' \in Inside /\ pc' \notin Values /\ pc' \notin Ends
  BY DEF Begin, Inside, Values, Ends
<1>6. Holds(tree') /\ tree'[Top].type = type
  BY <1>1, <1>4, HoldsAssign
<1> HIDE DEF f, type
<1>7. frames' \in Seq(FrameType) /\ Len(frames') = Len(frames) + 1
  BY <1>2, <1>3, <1>4, AppendProperties
<1>8. Typed'
  BY <1>2, <1>4, <1>5, <1>7 DEF LiveInv, Typed
<1>9. Depth'
  BY <1>2, <1>4, <1>5, <1>7 DEF Depth
<1>10. Chain'
  BY <1>4 DEF LiveInv, Chain
<1>11. LastNear'
  <2>1. \A v \in lastValue : Len(v) \in Nat /\ Len(v) <= Len(nodes) - 1
    BY <1>1, LenProperties DEF LiveInv, Typed, LastNear, Path
  <2> QED
    BY <1>2, <1>4, <1>5, <2>1 DEF LiveInv, LastNear
<1>12. Holds(tree)'
  <2>1. \A i \in 1..Len(frames') : tree'[nodes[i]].type # "null"
    <3> TAKE i \in 1..Len(frames')
    <3>1. i \in 1..Len(frames) \/ nodes[i] = Top
      BY <1>2, <1>7
    <3> QED
      BY <1>1, <1>6, <3>1 DEF Holds
  <2> QED
    BY <1>4, <1>6, <2>1 DEF Holds
<1> QED
  BY <1>8, <1>9, <1>10, <1>11, <1>12 DEF LiveInv

\* A step of the reader on any lexeme.
AnyNext == FirstElement \/ \E x \in LexemeType : Read(x)

LEMMA AnyStep == [ReaderNext]_readerVars => [AnyNext]_readerVars
BY ReaderAssumption, Zenon DEF ReaderNext, AnyNext

LEMMA LiveStep ==
  ASSUME LiveInv, [AnyNext]_readerVars
  PROVE  LiveInv'
<1>1. ASSUME NEW x \in LexemeType, SkipSpaces(x) PROVE LiveInv'
  <2>1. Holds(tree') /\ sameLine' \in BOOLEAN /\ (sameLine' => sameLine)
    BY <1>1 DEF SkipSpaces, LiveInv, Typed
  <2> QED
    BY <1>1, <2>1, Stays DEF SkipSpaces, LiveInv, Typed
<1>2. ASSUME NEW x \in LexemeType, ReadComment(x) PROVE LiveInv'
  <2>1. Holds(tree')
    <3>1. CASE tree' = tree
      BY <3>1 DEF LiveInv
    <3>2. CASE tree' = SetComment(tree, lastValue, "same", x.str)
      BY <3>2, HoldsComment
    <3> QED
      BY <1>2, <3>1, <3>2 DEF ReadComment, AddComment
  <2>2. sameLine' \in BOOLEAN /\ (sameLine' => sameLine)
    BY <1>2 DEF ReadComment, AddComment, LiveInv, Typed
  <2>3. \/ pc \in Values /\ pc' \in Values
        \/ pc \in Inside /\ pc' \in Inside
        \/ pc \in Ends /\ pc' \in Ends
    BY <1>2 DEF ReadComment, LiveInv, Typed, Values, Inside, Ends
  <2> QED
    BY <1>2, <2>1, <2>2, <2>3, Stays DEF ReadComment, LiveInv, Typed
<1>3. ASSUME NEW x \in LexemeType, ReadScalar(x) PROVE LiveInv'
  <2>1. pc \in Values
    BY <1>3 DEF ReadScalar, AtValue, Values
  <2>2. PICK type, num, str : Scalar(x) = Leaf(type, num, str)
    BY <1>3, ScalarLeaf DEF ReadScalar
  <2>3. Holds(tree')
    BY <1>3, <2>1, <2>2, HoldsAssign DEF ReadScalar
  <2> QED
    BY <1>3, <2>1, <2>3, Returns DEF ReadScalar
<1>4. ASSUME NEW x \in LexemeType, DecodeFails(x) PROVE LiveInv'
  <2>1. pc \in Values /\ Holds(tree')
    BY <1>4, HoldsCommented DEF DecodeFails, AtValue, Values
  <2> QED
    BY <1>4, <2>1, Returns DEF DecodeFails
<1>5. ASSUME NEW x \in LexemeType, SyntaxError(x) PROVE LiveInv'
  <2>1. pc \in Values /\ Holds(tree')
    BY <1>5, HoldsCommented DEF SyntaxError, AtValue, Values
  <2>2. /\ lastValue' = lastValue /\ sameLine' = sameLine /\ frames' = frames
        /\ Resume(frames, FALSE)
    BY <1>5 DEF SyntaxError
  <2>3. /\ lastValue \in SUBSET Path /\ lastValue \subseteq DOMAIN tree'
        /\ \A v \in lastValue : Len(v) <= Len(nodes) - 1
        /\ sameLine \in BOOLEAN /\ (sameLine => lastValue # {})
    BY <2>1 DEF LiveInv, Typed, LastNear, Holds
  <2> QED
    BY <2>1, <2>2, <2>3, Resumes
<1>6. ASSUME NEW x \in LexemeType, Begin(x) PROVE LiveInv'
  BY <1>6, LiveBegin
<1>7. ASSUME NEW x \in LexemeType, MemberName(x) PROVE LiveInv'
  <2>1. pc \in Inside
    BY <1>7 DEF MemberName, Inside
  <2>2. CASE Finish
    BY <2>1, <2>2, CallEnds
  <2>3. CASE Fail
    BY <2>1, <2>3, CallFails
  <2>4. CASE /\ x.type = "string"
             /\ frames' = [frames EXCEPT ![Len(frames)].name = DecodeString(x.str)]
             /\ pc' = "colon"
             /\ UNCHANGED <<tree, nodes, lastValue, sameLine, before, errors,
                            successful>>
    <3>1. x.str \in Seq(STRING)
      BY DEF LexemeType, NumeralType
    <3>2. DecodeString(x.str) \in Names
      BY <3>1 DEF Names
    <3>3. frames' \in Seq(FrameType) /\ Len(frames') = Len(frames)
      BY <2>1, <2>4, <3>2, LocalsTyped
    <3>4. /\ Holds(tree') /\ pc' \in Inside
          /\ sameLine' \in BOOLEAN /\ (sameLine' => sameLine)
      BY <2>4 DEF LiveInv, Typed, Inside
    <3>5. frames # <<>>
      BY <2>1 DEF LiveInv, Depth
    <3> QED
      BY <2>1, <2>4, <3>3, <3>4, <3>5, Stays
  <2> QED
    BY <1>7, <2>2, <2>3, <2>4 DEF MemberName
<1>8. ASSUME NEW x \in LexemeType, Colon(x) PROVE LiveInv'
  <2>1. pc \in Inside
    BY <1>8 DEF Colon, Inside
  <2>2. CASE Fail
    BY <2>1, <2>2, CallFails
  <2>3. CASE /\ PushMember(Name(Back(frames).name))
             /\ pc' = "value" /\ frames' = frames
    <3>1. Name(Back(frames).name) \in Key
      BY <2>1, LocalsTyped, KeyName
    <3>2. pc' \in Values /\ frames' \in Seq(FrameType) /\ Len(frames') = Len(frames)
      BY <2>3 DEF LiveInv, Typed, Values
    <3> QED
      BY <2>1, <2>3, <3>1, <3>2, Pushes
  <2> QED
    BY <1>8, <2>2, <2>3 DEF Colon
<1>9. ASSUME NEW x \in LexemeType, Comma(x) PROVE LiveInv'
  <2>1. pc \in Inside
    BY <1>9 DEF Comma, Inside
  <2>2. CASE Finish
    BY <2>1, <2>2, CallEnds
  <2>3. CASE Fail
    BY <2>1, <2>3, CallFails
  <2>4. CASE /\ pc' = "member"
             /\ UNCHANGED <<tree, nodes, frames, lastValue, sameLine, before,
                            errors, successful>>
    <3>1. Holds(tree') /\ pc' \in Inside /\ sameLine' \in BOOLEAN
      BY <2>4 DEF LiveInv, Typed, Inside
    <3> QED
      BY <2>1, <2>4, <3>1, Stays DEF LiveInv, Typed
  <2> QED
    BY <1>9, <2>2, <2>3, <2>4 DEF Comma
<1>10. ASSUME NEW x \in LexemeType, EmptyArray(x) PROVE LiveInv'
  BY <1>10, CallEnds DEF EmptyArray, Inside
<1>11. ASSUME NEW at \in Values, pc \in Inside, NextElement(at) PROVE LiveInv'
  <2>1. Index(Back(frames).index) \in Key
    BY <1>11, LocalsTyped, KeyIndex
  <2>2. frames' \in Seq(FrameType) /\ Len(frames') = Len(frames)
    BY <1>11, LocalsTyped DEF NextElement
  <2>3. PushMember(Index(Back(frames).index)) /\ pc' \in Values
    BY <1>11 DEF NextElement
  <2> QED
    BY <1>11, <2>1, <2>2, <2>3, Pushes
<1>12. ASSUME NEW x \in LexemeType, Separator(x) PROVE LiveInv'
  <2>1. pc \in Inside /\ "value" \in Values
    BY <1>12 DEF Separator, Inside, Values
  <2> QED
    BY <1>11, <1>12, <2>1, CallEnds, CallFails DEF Separator
<1>13. ASSUME NEW x \in LexemeType, Recover(x) PROVE LiveInv'
  <2>1. pc \in Inside /\ Holds(tree')
    BY <1>13 DEF Recover, Inside, LiveInv
  <2>2. CASE Return(Pop(frames), FALSE)
    BY <2>1, <2>2, Returns
  <2>3. CASE UNCHANGED <<frames, nodes, pc, lastValue, sameLine, successful>>
    BY <2>1, <2>3, Stays DEF LiveInv, Typed
  <2> QED
    BY <1>13, <2>2, <2>3 DEF Recover
<1>14. ASSUME NEW x \in LexemeType, End(x) PROVE LiveInv'
  <2>1. Holds(tree')
    <3>1. CASE tree' = tree
      BY <3>1 DEF LiveInv
    <3>2. CASE tree' = SetComment(tree, {<<>>}, "after", before)
      BY <3>2, HoldsComment
    <3> QED
      BY <1>14, <3>1, <3>2 DEF End
  <2>2. pc \in Ends /\ pc' \in Ends
    BY <1>14 DEF End, Ends
  <2> QED
    BY <1>14, <2>1, <2>2, Stays DEF End, LiveInv, Typed
<1>15. CASE FirstElement
  BY <1>11, <1>15 DEF FirstElement, Inside, Values
<1>16. CASE UNCHANGED readerVars
  BY <1>16 DEF readerVars, LiveInv, Typed, Depth, Chain, LastNear, Holds
<1> QED
  BY <1>1, <1>2, <1>3, <1>4, <1>5, <1>6, <1>7, <1>8, <1>9, <1>10, <1>12, <1>13,
     <1>14, <1>15, <1>16 DEF AnyNext, Read

\* The invariant says that no pointer dangles.
LEMMA LiveMeans == LiveInv => NodesLive
<1> SUFFICES ASSUME LiveInv PROVE NodesLive
  OBVIOUS
<1>1. /\ Len(nodes) \in Nat /\ Len(nodes) >= 1
      /\ DOMAIN nodes = 1..Len(nodes) /\ nodes[1] \in Path
  BY TopFacts, LenProperties DEF LiveInv, Typed
<1>2. nodes[1] = <<>>
  <2>1. nodes[1] \in Seq(Key) /\ Len(nodes[1]) = 0
    BY <1>1 DEF LiveInv, Chain, Path
  <2> QED
    BY <2>1, EmptySeq
<1>3. \A i \in DOMAIN nodes :
        /\ nodes[i] \in DOMAIN tree
        /\ i > 1 => Len(nodes[i]) > 0 /\ nodes[i - 1] = Pop(nodes[i])
  BY <1>1 DEF LiveInv, Chain, Holds
<1>4. Len(nodes) = Len(frames) + (IF pc \in {"value", "firstValue"} THEN 1 ELSE 0)
        \/ (frames = <<>> /\ Len(nodes) = 1)
  BY TopFacts DEF LiveInv, Typed, Depth, Values, Inside, Ends
<1> QED
  BY <1>2, <1>3, <1>4 DEF NodesLive, LiveInv, LastNear, Holds

\* For any text, neither nodes_ nor lastValue_ ever points to a destroyed Value,
\* and a comment never meets a lastValue_ of 0 (readValue, addComment).
THEOREM PointersLive == ReaderSpec => []NodesLive
<1>1. LiveInv /\ [ReaderNext]_readerVars => LiveInv'
  BY LiveStep, AnyStep
<1> QED
  BY <1>1, LiveInit, LiveMeans, PTL DEF ReaderSpec

-----------------------------------------------------------------------------
\* Recovering goes on only after an error, and a call that fails has one.
ErrInv ==
  /\ errors \in Nat
  /\ pc = "recover" => errors > 0
  /\ pc \notin {"recover", "end", "done"} => errors = 0
  /\ pc \in {"end", "done"} => (successful <=> errors = 0)

LEMMA ErrReturn ==
  ASSUME NEW fs, NEW ok \in BOOLEAN, Resume(fs, ok), errors' \in Nat,
         ok <=> errors' = 0
  PROVE  ErrInv'
<1>1. \/ pc' = "end" /\ successful' = ok
      \/ pc' = "recover" /\ ~ok
      \/ pc' \in {"comma", "separator"} /\ ok
  BY DEF Resume
<1> QED
  BY <1>1 DEF ErrInv

LEMMA ErrFail ==
  ASSUME ErrInv, Fail
  PROVE  ErrInv'
BY DEF ErrInv, Fail, AddError

LEMMA ErrFinish ==
  ASSUME ErrInv, pc \notin {"recover", "end", "done"}, Finish
  PROVE  ErrInv'
<1>1. Resume(Pop(frames), TRUE) /\ errors' \in Nat /\ errors' = 0
  BY DEF ErrInv, Finish, Return
<1> QED
  BY <1>1, ErrReturn

LEMMA ErrStep ==
  ASSUME ErrInv, [AnyNext]_readerVars
  PROVE  ErrInv'
<1>1. ASSUME NEW x \in LexemeType, SkipSpaces(x) PROVE ErrInv'
  BY <1>1 DEF SkipSpaces, ErrInv
<1>2. ASSUME NEW x \in LexemeType, ReadComment(x) PROVE ErrInv'
  <2>1. \/ /\ pc' = "recover" /\ errors' = errors + 1
        \/ /\ pc = "firstValue" /\ pc' = "value" /\ errors' = errors
        \/ /\ pc = "comma" /\ pc' = "dropped" /\ errors' = errors
        \/ /\ pc' = pc /\ errors' = errors
    BY <1>2 DEF ReadComment, AddError
  <2>2. successful' = successful
    BY <1>2 DEF ReadComment
  <2> QED
    BY <2>1, <2>2 DEF ErrInv
<1>3. ASSUME NEW x \in LexemeType, ReadScalar(x) PROVE ErrInv'
  <2>1. Resume(frames, TRUE) /\ errors' \in Nat /\ errors' = 0
    BY <1>3 DEF ReadScalar, AtValue, Return, ErrInv
  <2> QED
    BY <2>1, ErrReturn
<1>4. ASSUME NEW x \in LexemeType, DecodeFails(x) PROVE ErrInv'
  <2>1. Resume(frames, FALSE) /\ errors' = errors + 1
    BY <1>4 DEF DecodeFails, AtValue, Return, AddError
  <2>2. errors' \in Nat /\ errors' # 0
    BY <2>1 DEF ErrInv
  <2> QED
    BY <2>1, <2>2, ErrReturn
<1>5. ASSUME NEW x \in LexemeType, SyntaxError(x) PROVE ErrInv'
  <2>1. Resume(frames, FALSE) /\ errors' = errors + 1
    BY <1>5 DEF SyntaxError, AddError
  <2>2. errors' \in Nat /\ errors' # 0
    BY <2>1 DEF ErrInv
  <2> QED
    BY <2>1, <2>2, ErrReturn
<1>6. ASSUME NEW x \in LexemeType, Begin(x) PROVE ErrInv'
  BY <1>6 DEF Begin, AtValue, ErrInv
<1>7. ASSUME NEW x \in LexemeType, MemberName(x) PROVE ErrInv'
  <2>1. pc = "member"
    BY <1>7 DEF MemberName
  <2>2. Finish \/ Fail \/ (pc' = "colon" /\ UNCHANGED <<errors, successful>>)
    BY <1>7 DEF MemberName
  <2> QED
    BY <2>1, <2>2, ErrFinish, ErrFail DEF ErrInv
<1>8. ASSUME NEW x \in LexemeType, Colon(x) PROVE ErrInv'
  <2>1. pc = "colon"
    BY <1>8 DEF Colon
  <2>2. Fail \/ (pc' = "value" /\ UNCHANGED <<errors, successful>>)
    BY <1>8 DEF Colon, PushMember
  <2> QED
    BY <2>1, <2>2, ErrFail DEF ErrInv
<1>9. ASSUME NEW x \in LexemeType, Comma(x) PROVE ErrInv'
  <2>1. pc \in {"comma", "dropped"}
    BY <1>9 DEF Comma
  <2>2. Finish \/ Fail \/ (pc' = "member" /\ UNCHANGED <<errors, successful>>)
    BY <1>9 DEF Comma
  <2> QED
    BY <2>1, <2>2, ErrFinish, ErrFail DEF ErrInv
<1>10. ASSUME NEW x \in LexemeType, EmptyArray(x) PROVE ErrInv'
  BY <1>10, ErrFinish DEF EmptyArray
<1>11. ASSUME NEW x \in LexemeType, Separator(x) PROVE ErrInv'
  <2>1. pc = "separator"
    BY <1>11 DEF Separator
  <2>2. Finish \/ Fail \/ (pc' = "value" /\ UNCHANGED <<errors, successful>>)
    BY <1>11 DEF Separator, NextElement, PushMember
  <2> QED
    BY <2>1, <2>2, ErrFinish, ErrFail DEF ErrInv
<1>12. ASSUME NEW x \in LexemeType, Recover(x) PROVE ErrInv'
  <2>1. errors' = errors /\ pc = "recover"
    BY <1>12 DEF Recover
  <2>2. errors \in Nat /\ errors # 0
    BY <2>1 DEF ErrInv
  <2>3. \/ Resume(Pop(frames), FALSE)
        \/ UNCHANGED <<pc, successful>>
    BY <1>12 DEF Recover, Return
  <2> QED
    BY <2>1, <2>2, <2>3, ErrReturn DEF ErrInv
<1>13. ASSUME NEW x \in LexemeType, End(x) PROVE ErrInv'
  BY <1>13 DEF End, ErrInv
<1>14. CASE FirstElement
  BY <1>14 DEF FirstElement, NextElement, PushMember, ErrInv
<1>15. CASE UNCHANGED readerVars
  BY <1>15 DEF readerVars, ErrInv
<1> QED
  BY <1>1, <1>2, <1>3, <1>4, <1>5, <1>6, <1>7, <1>8, <1>9, <1>10, <1>11, <1>12,
     <1>13, <1>14, <1>15 DEF AnyNext, Read

\* For any text, however recoverFromError skips through the containers that are
\* open, parse returns false exactly if addError was called.
THEOREM RefusedIfError == ReaderSpec => []ErrorsTold
<1>1. ParseInit => ErrInv
  BY DEF ParseInit, ErrInv
<1>2. ErrInv /\ [ReaderNext]_readerVars => ErrInv'
  BY ErrStep, AnyStep
<1>3. ErrInv => ErrorsTold
  BY DEF ErrInv, ErrorsTold
<1> QED
  BY <1>1, <1>2, <1>3, PTL DEF ReaderSpec

-----------------------------------------------------------------------------
\* The loop of decodeNumber never overflows: the next value is what it would be
\* in unbounded arithmetic, and of a negative number no further than minInt.
THEOREM DecodeNoWrap ==
  ASSUME NEW minus \in BOOLEAN, NEW value \in Nat, NEW digit \in 0..9,
         AddDigit(minus, value, digit) # TooBig
  PROVE  /\ AddDigit(minus, value, digit) = value * 10 + digit
         /\ value * 10 + digit <= MaxUInt
         /\ minus => value * 10 + digit <= MaxInt + 1
<1>1. MaxInt \in Nat
  BY ValueAssumption
<1> DEFINE limit == IF minus THEN MaxInt + 1 ELSE MaxUInt
<1>2. limit \in Nat /\ limit <= MaxUInt /\ (minus => limit = MaxInt + 1)
  BY <1>1 DEF MaxUInt
<1>3. Threshold(minus) = (limit \div 10)
  BY DEF Threshold
<1>4. /\ value < Threshold(minus)
      /\ AddDigit(minus, value, digit) = ((value * 10 + digit) % (MaxUInt + 1))
  <2>1. ~(value = TooBig \/ value >= Threshold(minus))
    BY DEF AddDigit
  <2>2. Threshold(minus) \in Int
    BY <1>2, <1>3
  <2> QED
    BY <2>1, <2>2 DEF AddDigit
<1> HIDE DEF limit
<1>5. value + 1 <= (limit \div 10)
  BY <1>2, <1>3, <1>4
<1>6. 10 * (limit \div 10) <= limit
  BY <1>2
<1>7. value * 10 + digit <= limit
  BY <1>2, <1>5, <1>6
<1>8. ((value * 10 + digit) % (MaxUInt + 1)) = value * 10 + digit
  <2>1. MaxUInt \in Nat /\ value * 10 + digit \in 0..MaxUInt
    BY <1>1, <1>2, <1>7 DEF MaxUInt
  <2> QED
    BY <2>1
<1> DEFINE next == value * 10 + digit
<1>9. next \in Int /\ next <= limit
  BY <1>7
<1>10. AddDigit(minus, value, digit) = next
  BY <1>4, <1>8
<1> HIDE DEF next
<1>11. next <= MaxUInt /\ (minus => next <= MaxInt + 1)
  BY <1>1, <1>2, <1>9 DEF MaxUInt
<1> QED
  BY <1>10, <1>11 DEF next

-----------------------------------------------------------------------------
(***************************************************************************)
(* Induction for sets, which can be cited where the library's theorems,    *)
(* which take an operator, cannot.                                         *)
(***************************************************************************)
LEMMA SetInduction ==
  ASSUME NEW S, 0 \in S, \A n \in Nat : n \in S => n + 1 \in S
  PROVE  Nat \subseteq S
<1> DEFINE T == Nat \ S
<1> SUFFICES ASSUME T # {} PROVE FALSE
  OBVIOUS
<1>1. PICK x \in T : \A y \in T : ~ (<<y, x>> \in OpToRel(<,Nat))
  <2>1. T \subseteq Nat
    OBVIOUS
  <2> HIDE DEF T
  <2> QED
    BY <2>1, WFMin, NatLessThanWellFounded
<1>2. x \in Nat /\ x \notin S /\ x # 0
  OBVIOUS
<1>3. x - 1 \in Nat /\ (x - 1) + 1 = x /\ x - 1 < x
  BY <1>2
<1>4. x - 1 \in T
  BY <1>2, <1>3
<1>5. <<x - 1, x>> \in OpToRel(<,Nat)
  BY <1>2, <1>3 DEF OpToRel
<1> QED
  BY <1>1, <1>4, <1>5

\* The first value of v is d, and rule s makes the next of each.
Follows(v, n, D, d, s) ==
  /\ v \in [0..n -> D]
  /\ v[0] = d
  /\ \A k \in 0..(n - 1) : v[k + 1] = s[k][v[k]]

\* There is such a function of any length.
LEMMA Recursion ==
  ASSUME NEW D, NEW d \in D, NEW s \in [Nat -> [D -> D]], NEW m \in Nat
  PROVE  \E v : Follows(v, m, D, d, s)
<1> USE DEF Follows
<1> DEFINE Good(n, v) == Follows(v, n, D, d, s)
           S == {n \in Nat : \E v \in [0..n -> D] : Good(n, v)}
<1>1. 0 \in S
  <2> DEFINE v == [k \in 0..0 |-> d]
  <2>1. v \in [0..0 -> D] /\ Good(0, v)
    OBVIOUS
  <2> QED
    BY <2>1
<1>2. ASSUME NEW n \in Nat, n \in S PROVE n + 1 \in S
  <2>1. PICK v \in [0..n -> D] : Good(n, v)
    BY <1>2
  <2> DEFINE u == [k \in 0..(n + 1) |-> IF k = n + 1 THEN s[n][v[n]] ELSE v[k]]
  <2>2. n \in 0..n /\ v[n] \in D /\ s[n][v[n]] \in D
    OBVIOUS
  <2>3. /\ u \in [0..(n + 1) -> D] /\ u[n + 1] = s[n][v[n]]
        /\ \A k \in 0..n : u[k] = v[k]
    <3>1. \A k \in 0..(n + 1) : k = n + 1 \/ k \in 0..n
      OBVIOUS
    <3>2. n + 1 \in 0..(n + 1) /\ \A k \in 0..n : k \in 0..(n + 1) /\ k # n + 1
      OBVIOUS
    <3> QED
      BY <2>2, <3>1, <3>2
  <2> HIDE DEF u
  <2>4. u[0] = d
    BY <2>1, <2>3
  <2>5. ASSUME NEW k \in 0..n PROVE u[k + 1] = s[k][u[k]]
    <3>1. CASE k = n
      BY <2>3, <3>1
    <3>2. CASE k # n
      <4>1. k \in 0..(n - 1) /\ k + 1 \in 0..n
        BY <3>2
      <4> QED
        BY <2>1, <2>3, <4>1
    <3> QED
      BY <3>1, <3>2
  <2>6. Good(n + 1, u)
    <3>1. (n + 1) - 1 = n
      OBVIOUS
    <3>2. \A k \in 0..((n + 1) - 1) : u[k + 1] = s[k][u[k]]
      BY <2>5, <3>1
    <3>3. u \in [0..(n + 1) -> D]
      BY <2>3
    <3> QED
      BY <2>4, <3>2, <3>3, Zenon DEF Follows
  <2> HIDE DEF Follows
  <2>7. n + 1 \in Nat
    OBVIOUS
  <2>8. \E w \in [0..(n + 1) -> D] : Good(n + 1, w)
    BY <2>3, <2>6
  <2> QED
    BY <2>7, <2>8, Zenon
<1> HIDE DEF S
<1>3. Nat \subseteq S
  BY <1>1, <1>2, SetInduction
<1> QED
  BY <1>3 DEF S

-----------------------------------------------------------------------------
(***************************************************************************)
(* decodeNumber, of all the digits.                                        *)
(***************************************************************************)
\* What a round of its loop leaves.
Decoded(minus) == {TooBig} \cup 0..(IF minus THEN MaxInt + 1 ELSE MaxUInt)

\* The values after each round.
Rounds(g, minus, digits) ==
  /\ g \in [0..Len(digits) -> Decoded(minus)]
  /\ g[0] = 0
  /\ \A k \in 0..(Len(digits) - 1) :
       g[k + 1] = AddDigit(minus, g[k], digits[k + 1])

LEMMA RoundDecoded ==
  ASSUME NEW minus \in BOOLEAN, NEW value \in Decoded(minus), NEW digit \in 0..9
  PROVE  AddDigit(minus, value, digit) \in Decoded(minus)
<1>1. MaxInt \in Nat
  BY ValueAssumption
<1>2. CASE AddDigit(minus, value, digit) = TooBig
  BY <1>2 DEF Decoded
<1>3. CASE AddDigit(minus, value, digit) # TooBig
  <2>1. value # TooBig
    BY <1>3 DEF AddDigit
  <2>2. value \in Nat
    BY <1>1, <2>1 DEF Decoded, MaxUInt
  <2> DEFINE next == AddDigit(minus, value, digit)
  <2>3. next \in Nat /\ next <= MaxUInt /\ (minus => next <= MaxInt + 1)
    BY <1>3, <2>2, DecodeNoWrap
  <2> HIDE DEF next
  <2> QED
    BY <1>1, <2>3 DEF Decoded, MaxUInt, next
<1> QED
  BY <1>2, <1>3

LEMMA IntegerRounds ==
  ASSUME NEW minus \in BOOLEAN, NEW digits \in Seq(0..9)
  PROVE  \E g : Rounds(g, minus, digits) /\ IntegerOf(minus, digits) = g[Len(digits)]
<1> DEFINE N == Len(digits)
           D == Decoded(minus)
           Makes(g) == g = [k \in 0..N |->
                              IF k = 0 THEN 0
                              ELSE AddDigit(minus, g[k - 1], digits[k])]
           G == CHOOSE g : Makes(g)
           s == [k \in Nat |-> [x \in D |->
                   IF k < N THEN AddDigit(minus, x, digits[k + 1]) ELSE x]]
<1>1. IntegerOf(minus, digits) = G[N]
  BY DEF IntegerOf
<1>2. N \in Nat /\ \A k \in 1..N : digits[k] \in 0..9
  OBVIOUS
<1>3. 0 \in D /\ \A x \in D, d \in 0..9 : AddDigit(minus, x, d) \in D
  <2>1. 0 \in D
    BY ValueAssumption DEF Decoded, MaxUInt
  <2> HIDE DEF D
  <2> QED
    BY <2>1, RoundDecoded DEF D
<1> HIDE DEF D, N
<1>4. s \in [Nat -> [D -> D]]
  <2>1. ASSUME NEW k \in Nat, NEW x \in D
        PROVE  (IF k < N THEN AddDigit(minus, x, digits[k + 1]) ELSE x) \in D
    <3>1. k < N => k + 1 \in 1..N
      BY <1>2
    <3> QED
      BY <1>2, <1>3, <3>1
  <2> QED
    BY <2>1
<1>5. \A k \in 0..(N - 1), x \in D : s[k][x] = AddDigit(minus, x, digits[k + 1])
  BY <1>2
<1> HIDE DEF s
<1>6. PICK v : Follows(v, N, D, 0, s)
  BY <1>2, <1>3, <1>4, Recursion
<1>7. v \in [0..N -> D] /\ v[0] = 0
  BY <1>6 DEF Follows
<1>8. ASSUME NEW k \in 0..(N - 1)
      PROVE  v[k + 1] = AddDigit(minus, v[k], digits[k + 1])
  <2>1. v[k] \in D
    BY <1>2, <1>7
  <2>2. v[k + 1] = s[k][v[k]]
    BY <1>6 DEF Follows
  <2> QED
    BY <1>5, <2>1, <2>2
<1>9. Makes(v)
  <2>1. ASSUME NEW k \in 0..N
        PROVE  v[k] = IF k = 0 THEN 0 ELSE AddDigit(minus, v[k - 1], digits[k])
    <3>1. CASE k = 0
      BY <1>7, <3>1
    <3>2. CASE k # 0
      <4>1. k - 1 \in 0..(N - 1) /\ (k - 1) + 1 = k
        BY <1>2, <3>2
      <4>2. v[(k - 1) + 1] = AddDigit(minus, v[k - 1], digits[(k - 1) + 1])
        BY <1>8, <4>1
      <4> QED
        BY <3>2, <4>1, <4>2
    <3> QED
      BY <3>1, <3>2
  <2>2. v = [k \in 0..N |-> v[k]]
    BY <1>7
  <2> QED
    BY <2>1, <2>2
<1>10. Makes(G)
  <2> HIDE DEF Makes
  <2> QED
    BY <1>9
<1> HIDE DEF G
<1>11. ASSUME NEW k \in 0..N
       PROVE  G[k] = IF k = 0 THEN 0 ELSE AddDigit(minus, G[k - 1], digits[k])
  BY <1>10
<1>12. G = v
  <2> DEFINE S == {k \in Nat : k <= N => G[k] = v[k]}
  <2>1. 0 \in S
    BY <1>2, <1>7, <1>11
  <2>2. ASSUME NEW k \in Nat, k \in S PROVE k + 1 \in S
    <3> SUFFICES ASSUME k + 1 <= N PROVE G[k + 1] = v[k + 1]
      OBVIOUS
    <3>1. /\ k \in 0..(N - 1) /\ k + 1 \in 0..N /\ (k + 1) - 1 = k /\ k + 1 # 0
          /\ k <= N
      BY <1>2
    <3>2. G[k + 1] = AddDigit(minus, G[(k + 1) - 1], digits[k + 1])
      BY <1>11, <3>1
    <3> QED
      BY <1>8, <2>2, <3>1, <3>2
  <2> HIDE DEF S
  <2>3. Nat \subseteq S
    BY <2>1, <2>2, SetInduction
  <2>4. \A k \in 0..N : G[k] = v[k]
    BY <1>2, <2>3 DEF S
  <2>5. G = [k \in 0..N |-> G[k]] /\ v = [k \in 0..N |-> v[k]]
    BY <1>7, <1>10
  <2> QED
    BY <2>4, <2>5
<1>13. Rounds(v, minus, digits)
  BY <1>7, <1>8 DEF Rounds, N, D
<1> QED
  BY <1>1, <1>12, <1>13 DEF N

\* The values of the first digits, in unbounded arithmetic.
Decimals(v, digits) ==
  /\ v \in [0..Len(digits) -> Nat]
  /\ v[0] = 0
  /\ \A k \in 0..(Len(digits) - 1) : v[k + 1] = v[k] * 10 + digits[k + 1]

LEMMA DecimalsExist ==
  ASSUME NEW digits \in Seq(0..9)
  PROVE  \E v : Decimals(v, digits)
<1> DEFINE N == Len(digits)
           s == [k \in Nat |-> [x \in Nat |->
                   IF k < N THEN x * 10 + digits[k + 1] ELSE x]]
<1>1. N \in Nat /\ \A k \in 1..N : digits[k] \in 0..9
  OBVIOUS
<1> HIDE DEF N
<1>2. s \in [Nat -> [Nat -> Nat]]
  <2>1. ASSUME NEW k \in Nat, NEW x \in Nat
        PROVE  (IF k < N THEN x * 10 + digits[k + 1] ELSE x) \in Nat
    <3>1. k < N => digits[k + 1] \in 0..9
      BY <1>1
    <3> QED
      BY <3>1
  <2> QED
    BY <2>1
<1>3. \A k \in 0..(N - 1), x \in Nat : s[k][x] = x * 10 + digits[k + 1]
  BY <1>1
<1> HIDE DEF s
<1>4. PICK v : Follows(v, N, Nat, 0, s)
  BY <1>1, <1>2, Recursion
<1>5. v \in [0..N -> Nat] /\ v[0] = 0
  BY <1>4 DEF Follows
<1>6. ASSUME NEW k \in 0..(N - 1) PROVE v[k + 1] = v[k] * 10 + digits[k + 1]
  <2>1. v[k] \in Nat
    BY <1>1, <1>5
  <2>2. v[k + 1] = s[k][v[k]]
    BY <1>4 DEF Follows
  <2> QED
    BY <1>3, <2>1, <2>2
<1> QED
  BY <1>5, <1>6 DEF Decimals, N

\* Of digits of any number, decodeNumber makes the integer they stand for, which
\* an unsigned int holds (of a negative one, an int), or leaves them to
\* decodeDouble.
THEOREM DecodesExactly ==
  ASSUME NEW minus \in BOOLEAN, NEW digits \in Seq(0..9),
         IntegerOf(minus, digits) # TooBig
  PROVE  /\ \E v : Decimals(v, digits) /\ IntegerOf(minus, digits) = v[Len(digits)]
         /\ IntegerOf(minus, digits)
              \in 0..(IF minus THEN MaxInt + 1 ELSE MaxUInt)
<1> DEFINE N == Len(digits)
<1>1. PICK g : Rounds(g, minus, digits) /\ IntegerOf(minus, digits) = g[N]
  BY IntegerRounds
<1>2. PICK v : Decimals(v, digits)
  BY DecimalsExist
<1>3. N \in Nat /\ \A k \in 1..N : digits[k] \in 0..9
  OBVIOUS
<1>4. /\ \A k \in 0..N : g[k] \in Decoded(minus) /\ v[k] \in Nat
      /\ \A k \in 0..(N - 1) : g[k + 1] = AddDigit(minus, g[k], digits[k + 1])
      /\ \A k \in 0..(N - 1) : v[k + 1] = v[k] * 10 + digits[k + 1]
      /\ g[0] = 0 /\ v[0] = 0
  BY <1>1, <1>2 DEF Rounds, Decimals
<1> HIDE DEF N
<1>5. g[N] = v[N]
  <2> DEFINE S == {k \in Nat : k <= N => g[k] = TooBig \/ g[k] = v[k]}
  <2>1. 0 \in S
    BY <1>3, <1>4
  <2>2. ASSUME NEW k \in Nat, k \in S PROVE k + 1 \in S
    <3> SUFFICES ASSUME k + 1 <= N, g[k + 1] # TooBig
                 PROVE  g[k + 1] = v[k + 1]
      OBVIOUS
    <3>1. k \in 0..(N - 1) /\ k \in 0..N /\ k <= N /\ k + 1 \in 1..N
      BY <1>3
    <3>2. g[k + 1] = AddDigit(minus, g[k], digits[k + 1])
      BY <1>4, <3>1
    <3>3. g[k] # TooBig
      BY <3>2 DEF AddDigit
    <3>4. g[k] = v[k] /\ v[k] \in Nat /\ digits[k + 1] \in 0..9
      BY <1>3, <1>4, <2>2, <3>1, <3>3
    <3>5. AddDigit(minus, v[k], digits[k + 1]) # TooBig
      BY <3>2, <3>4
    <3>6. AddDigit(minus, v[k], digits[k + 1]) = v[k] * 10 + digits[k + 1]
      BY <3>4, <3>5, DecodeNoWrap
    <3> QED
      BY <1>4, <3>1, <3>2, <3>4, <3>6
  <2> HIDE DEF S
  <2>3. Nat \subseteq S
    BY <2>1, <2>2, SetInduction
  <2>4. N \in Nat /\ N <= N /\ g[N] # TooBig
    BY <1>1, <1>3
  <2> QED
    BY <2>3, <2>4 DEF S
<1>6. g[N] \in 0..(IF minus THEN MaxInt + 1 ELSE MaxUInt)
  BY <1>1, <1>3, <1>4 DEF Decoded
<1> QED
  BY <1>1, <1>2, <1>5, <1>6 DEF N

-----------------------------------------------------------------------------
(***************************************************************************)
(* What the reader leaves in the tree converts where it says it does.      *)
(***************************************************************************)
\* A number is in the range of its type, and an unsigned one is no int.
GoodNode(n) ==
  /\ n = [type |-> n.type, num |-> n.num, str |-> n.str, com |-> n.com]
  /\ n.type \in Types
  /\ n.type = "int" => n.num \in MinInt..MaxInt
  /\ n.type = "uint" => n.num \in (MaxInt + 1)..MaxUInt
  /\ n.type = "bool" => n.num \in {0, 1}

GoodNodes(t) == \A q \in DOMAIN t : GoodNode(t[q])

LEMMA GoodComment ==
  ASSUME NEW t, NEW ps, NEW placement, NEW text, GoodNodes(t)
  PROVE  GoodNodes(SetComment(t, ps, placement, text))
<1>1. ASSUME NEW n, GoodNode(n)
      PROVE  GoodNode([n EXCEPT !.com[placement] = text])
  BY <1>1 DEF GoodNode
<1> QED
  BY <1>1 DEF GoodNodes, SetComment

LEMMA GoodCommented ==
  ASSUME GoodNodes(tree)
  PROVE  GoodNodes(Commented)
BY GoodComment DEF Commented

LEMMA GoodAssign ==
  ASSUME NEW t, NEW p \in Path, NEW type, NEW num, NEW str, p \in DOMAIN t,
         GoodNodes(t), GoodNode(Node(type, num, str))
  PROVE  GoodNodes(Assign(t, p, Leaf(type, num, str)))
<1> DEFINE a == Assign(t, p, Leaf(type, num, str))
           node == NodeWith(type, num, str, t[p])
<1>1. a = Replaced(t, p, node)
  BY AssignIs
<1>2. GoodNode(node)
  BY DEF GoodNode, Node, NodeWith
<1> HIDE DEF a, node
<1>3. GoodNodes(a)
  BY <1>1, <1>2 DEF GoodNodes, Replaced
<1> QED
  BY <1>3 DEF a

LEMMA GoodContainer ==
  ASSUME NEW type \in {"null", "object", "array"}
  PROVE  GoodNode(Node(type, 0, <<>>))
BY DEF GoodNode, Node, Types

LEMMA GoodResolve ==
  ASSUME NEW t, NEW p, NEW k, t[p].type # "null", GoodNodes(t)
  PROVE  GoodNodes(Resolve(t, p, k))
<1> DEFINE c == Append(p, k)
<1>1. Resolve(t, p, k) = [q \in DOMAIN t \cup {c} |->
                            IF q \in DOMAIN t THEN t[q] ELSE NullNode]
  BY DEF Resolve
<1>2. GoodNode(NullNode)
  BY GoodContainer DEF NullNode
<1> HIDE DEF c
<1> QED
  BY <1>1, <1>2 DEF GoodNodes

\* The value of a token that can be read is in the range of its type.
LEMMA GoodScalar ==
  ASSUME NEW x \in LexemeType, x.type \in ScalarToken
  PROVE  \E type, num, str :
           Scalar(x) = Leaf(type, num, str) /\ GoodNode(Node(type, num, str))
<1> DEFINE Fits(type, num, str) ==
             Scalar(x) = Leaf(type, num, str) /\ GoodNode(Node(type, num, str))
<1>1. CASE x.type = "number"
  <2> DEFINE value == IntegerOf(x.num.minus, x.num.digits)
  <2>1. x.num.minus \in BOOLEAN /\ x.num.digits \in Seq(0..9)
    BY DEF LexemeType, NumeralType
  <2>2. Scalar(x) = DecodeNumber(x.num)
    BY <1>1 DEF Scalar
  <2>3. CASE IsDouble(x.num)
    <3>1. Scalar(x) = Leaf("real", DoubleOf(x.num), <<>>)
      BY <2>2, <2>3 DEF DecodeNumber
    <3>2. GoodNode(Node("real", DoubleOf(x.num), <<>>))
      BY DEF GoodNode, Node, Types
    <3> QED
      BY <3>1, <3>2
  <2>4. CASE ~IsDouble(x.num)
    <3>1. value \in 0..(IF x.num.minus THEN MaxInt + 1 ELSE MaxUInt)
      BY <2>1, <2>4, DecodesExactly DEF IsDouble
    <3>2. MaxInt \in Nat \ {0}
      BY ValueAssumption
    <3>3. Scalar(x) = IF x.num.minus THEN Leaf("int", -value, <<>>)
                      ELSE IF value <= MaxInt THEN Leaf("int", value, <<>>)
                      ELSE Leaf("uint", value, <<>>)
      BY <2>2, <2>4 DEF DecodeNumber, FitsInt
    <3> HIDE DEF value
    <3>4. CASE x.num.minus
      <4>1. -value \in MinInt..MaxInt
        BY <3>1, <3>2, <3>4 DEF MinInt
      <4>2. Fits("int", -value, <<>>)
        BY <3>3, <3>4, <4>1 DEF GoodNode, Node, Types
      <4> QED
        BY <4>2
    <3>5. CASE ~x.num.minus /\ value <= MaxInt
      <4>1. value \in MinInt..MaxInt
        BY <3>1, <3>2, <3>5 DEF MinInt, MaxUInt
      <4>2. Fits("int", value, <<>>)
        BY <3>3, <3>5, <4>1 DEF GoodNode, Node, Types
      <4> QED
        BY <4>2
    <3>6. CASE ~x.num.minus /\ ~(value <= MaxInt)
      <4>1. value \in (MaxInt + 1)..MaxUInt
        BY <3>1, <3>2, <3>6 DEF MaxUInt
      <4>2. Fits("uint", value, <<>>)
        BY <3>3, <3>6, <4>1 DEF GoodNode, Node, Types
      <4> QED
        BY <4>2
    <3> QED
      BY <3>4, <3>5, <3>6
  <2> QED
    BY <2>3, <2>4
<1>2. CASE x.type = "string"
  <2>1. Fits("string", 0, DecodeString(x.str))
    BY <1>2 DEF Scalar, GoodNode, Node, Types
  <2> QED
    BY <2>1
<1>3. CASE x.type \in {"true", "false"}
  <2>1. Fits("bool", IF x.type = "true" THEN 1 ELSE 0, <<>>)
    BY <1>3 DEF Scalar, GoodNode, Node, Types
  <2> QED
    BY <2>1
<1>4. CASE x.type = "null"
  <2>1. Fits("null", 0, <<>>)
    BY <1>4, GoodContainer DEF Scalar, NewValue
  <2> QED
    BY <2>1
<1> QED
  BY <1>1, <1>2, <1>3, <1>4 DEF ScalarToken

\* The tree of a step: what readValue makes, what is looked up, what comments do.
LEMMA GoodMade ==
  ASSUME LiveInv, GoodNodes(tree), pc \in Values, NEW type, NEW num, NEW str,
         GoodNode(Node(type, num, str))
  PROVE  GoodNodes(Assign(Commented, Top, Leaf(type, num, str)))
<1>1. Top \in Path /\ Top \in DOMAIN Commented
  <2>1. Top \in Path /\ Top \in DOMAIN tree
    BY TopFacts
  <2> QED
    BY <2>1 DEF Commented, SetComment
<1>2. GoodNodes(Commented)
  BY GoodCommented
<1> HIDE DEF Commented
<1> QED
  BY <1>1, <1>2, GoodAssign

LEMMA GoodPush ==
  ASSUME LiveInv, GoodNodes(tree), pc \in Inside, NEW k, PushMember(k)
  PROVE  GoodNodes(tree')
<1>1. tree[Top].type # "null"
  BY TopFacts DEF LiveInv, Depth, Holds
<1> QED
  BY <1>1, GoodResolve DEF PushMember

LEMMA GoodStep ==
  ASSUME LiveInv, GoodNodes(tree), [AnyNext]_readerVars
  PROVE  GoodNodes(tree')
<1>1. CASE UNCHANGED tree
  BY <1>1
<1>2. CASE tree' = Commented
  BY <1>2, GoodCommented
<1>3. ASSUME NEW ps, NEW placement, NEW text,
             tree' = SetComment(tree, ps, placement, text)
      PROVE  GoodNodes(tree')
  BY <1>3, GoodComment
<1>4. ASSUME NEW x \in LexemeType, ReadScalar(x) PROVE GoodNodes(tree')
  <2>1. x.type \in ScalarToken /\ pc \in Values
        /\ tree' = Assign(Commented, Top, Scalar(x))
    BY <1>4 DEF ReadScalar, AtValue, Values
  <2>2. PICK type, num, str :
          Scalar(x) = Leaf(type, num, str) /\ GoodNode(Node(type, num, str))
    BY <2>1, GoodScalar
  <2> QED
    BY <2>1, <2>2, GoodMade
<1>5. ASSUME NEW x \in LexemeType, Begin(x) PROVE GoodNodes(tree')
  <2> DEFINE type == IF x.type = "{" THEN "object" ELSE "array"
  <2>1. pc \in Values /\ tree' = Assign(Commented, Top, Leaf(type, 0, <<>>))
    BY <1>5 DEF Begin, AtValue, Values, NewValue
  <2>2. type \in {"null", "object", "array"}
    OBVIOUS
  <2> HIDE DEF type
  <2> QED
    BY <2>1, <2>2, GoodContainer, GoodMade
<1>6. ASSUME NEW x \in LexemeType, Colon(x) PROVE GoodNodes(tree')
  <2>1. pc \in Inside
    BY <1>6 DEF Colon, Inside
  <2>2. UNCHANGED tree \/ PushMember(Name(Back(frames).name))
    BY <1>6 DEF Colon, Fail
  <2> QED
    BY <1>1, <2>1, <2>2, GoodPush
<1>7. ASSUME pc \in Inside, NEW at, NextElement(at) PROVE GoodNodes(tree')
  BY <1>7, GoodPush DEF NextElement
<1>8. CASE FirstElement
  BY <1>7, <1>8 DEF FirstElement, Inside
<1>9. ASSUME NEW x \in LexemeType, Separator(x) PROVE GoodNodes(tree')
  BY <1>1, <1>7, <1>9 DEF Separator, Finish, Fail, Inside
<1>10. ASSUME NEW x \in LexemeType, End(x) PROVE GoodNodes(tree')
  BY <1>1, <1>3, <1>10 DEF End
<1>11. ASSUME NEW x \in LexemeType, ReadComment(x) PROVE GoodNodes(tree')
  <2>1. AddComment(x)
    BY <1>11 DEF ReadComment
  <2> QED
    BY <1>1, <1>3, <2>1 DEF AddComment
<1>12. ASSUME NEW x \in LexemeType, SkipSpaces(x) \/ MemberName(x) \/ Comma(x)
                                 \/ EmptyArray(x) \/ Recover(x)
       PROVE  GoodNodes(tree')
  BY <1>1, <1>12 DEF SkipSpaces, MemberName, Comma, EmptyArray, Recover, Finish, Fail
<1>13. ASSUME NEW x \in LexemeType, DecodeFails(x) \/ SyntaxError(x)
       PROVE  GoodNodes(tree')
  BY <1>2, <1>13 DEF DecodeFails, SyntaxError
<1>14. CASE UNCHANGED readerVars
  BY <1>1, <1>14 DEF readerVars
<1> QED
  BY <1>4, <1>5, <1>6, <1>8, <1>9, <1>10, <1>11, <1>12, <1>13, <1>14
     DEF AnyNext, Read

LEMMA GoodConverts == GoodNodes(tree) => NumbersConvert
<1> SUFFICES ASSUME GoodNodes(tree), NEW p \in DOMAIN tree
             PROVE  /\ AsInt(tree[p]).throws <=> ~IsConvertibleTo(tree, p, "int")
                    /\ AsUInt(tree[p]).throws <=> ~IsConvertibleTo(tree, p, "uint")
                    /\ AsDouble(tree[p]).throws <=> ~IsConvertibleTo(tree, p, "real")
  BY DEF NumbersConvert
<1> DEFINE n == tree[p]
<1>1. GoodNode(n) /\ MaxInt \in Nat \ {0}
  BY ValueAssumption DEF GoodNodes
<1> USE DEF AsInt, AsUInt, AsDouble, Converted, Throws, MinInt, MaxUInt
<1>2. CASE n.type = "null"
  BY <1>2 DEF IsConvertibleTo
<1>3. CASE n.type = "int"
  BY <1>1, <1>3 DEF IsConvertibleTo, GoodNode
<1>4. CASE n.type = "uint"
  BY <1>1, <1>4 DEF IsConvertibleTo, GoodNode
<1>5. CASE n.type = "bool"
  BY <1>1, <1>5 DEF IsConvertibleTo, GoodNode
<1>6. CASE n.type = "real"
  BY <1>6 DEF IsConvertibleTo
<1>7. CASE n.type = "string"
  BY <1>7 DEF IsConvertibleTo
<1>8. CASE n.type \in {"array", "object"}
  BY <1>8 DEF IsConvertibleTo
<1> QED
  BY <1>1, <1>2, <1>3, <1>4, <1>5, <1>6, <1>7, <1>8 DEF GoodNode, Types

\* Of every text, asInt, asUInt and asDouble throw for exactly the Values that
\* isConvertibleTo denies.
THEOREM ConvertsAsTold == ReaderSpec => []NumbersConvert
<1>1. ParseInit => GoodNodes(tree)
  BY GoodContainer DEF ParseInit, NewValue, Leaf, GoodNodes
<1>2. LiveInv /\ [ReaderNext]_readerVars => LiveInv'
  BY LiveStep, AnyStep
<1>3. LiveInv /\ GoodNodes(tree) /\ [ReaderNext]_readerVars => GoodNodes(tree)'
  BY GoodStep, AnyStep DEF GoodNodes
<1> QED
  BY <1>1, <1>2, <1>3, LiveInit, GoodConverts, PTL DEF ReaderSpec
=============================================================================
