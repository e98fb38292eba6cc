----------------------------- MODULE SoapArray -----------------------------
(***************************************************************************)
(* QtSoapArray, a sparse array of one to five dimensions: a hash from the  *)
(* absolute position to the item, its iterator, and what is written of it  *)
(* and read again.  Items are of a type each; an item that is an array     *)
(* itself is known by whether it is empty.                                 *)
(***************************************************************************)
EXTENDS Integers, Sequences, FiniteSets, SequencesExt

CONSTANTS
  Shape,          \* sizes of the dimensions an array is constructed with
  Item,           \* records of a type and a value
  ArrayDocument,  \* what others send as an array
  Position,       \* absolute positions an item is inserted at
  Stray,          \* coordinates that may be out of range
  MaxItems,       \* bound: items of an array
  MaxIndex        \* bound: lastIndex, which append() counts up

ArrayTypes == {"Other"} \cup {item.type : item \in Item}

ASSUME ArrayAssumption ==
  /\ \A s \in Shape : s \in Seq(Nat \ {0}) /\ Len(s) \in 1..5
  /\ \A item \in Item : DOMAIN item = {"type", "value"} /\ item.type # "Other"
  /\ \A doc \in ArrayDocument : doc \in Seq(ToSet(doc)) /\
       \A n \in ToSet(doc) : n.node = "item" => n.item \in Item /\ n.at \in Seq(Int)
  /\ Position \subseteq Nat /\ Stray \subseteq Seq(Nat) /\ {MaxItems, MaxIndex} \subseteq Nat

VARIABLES
  array,    \* order, sizes, lastIndex, the type of its items, and the items
  hung,     \* toDomElement() does not come back
  placed,   \* ghost: the items by their coordinates
  several,  \* ghost: the items written with several coordinates each (or with none that
            \* was set) that this array was read of, as long as nothing was put into it
  counted   \* ghost: filled by append() and insert() alone, with one dimension

arrayVars == <<array, hung, placed, several, counted>>

NoItems == [p \in {} |-> 0]
NewArray(sizes, type) ==
  [order |-> Len(sizes), sizes |-> sizes, lastIndex |-> 0, type |-> type, items |-> NoItems]

ArrayInit ==
  /\ \E sizes \in Shape, type \in ArrayTypes : array = NewArray(sizes, type)
  /\ hung = FALSE /\ placed = NoItems /\ several = {}
  /\ counted = (array.order = 1)

-----------------------------------------------------------------------------
(* Coordinates: one for each size *)

\* Mutant: the sizes are taken one dimension early.
AbsoluteShifted(sizes, c) ==
  FoldLeft(LAMBDA p, k : p * sizes[IF k = 1 THEN 1 ELSE k - 1] + c[k], 0, [k \in DOMAIN c |-> k])

\* The position insert() and at() compute of coordinates.
Absolute(sizes, c) == FoldLeft(LAMBDA p, k : p * sizes[k] + c[k], 0, [k \in DOMAIN c |-> k])

\* What the iterator divides by to get the coordinate k.  With five dimensions it is
\* the size before the one it should be, for the last but one.
Product(s) == FoldLeft(LAMBDA w, size : w * size, 1, s)
Weight(sizes, k) ==
  IF Len(sizes) = 5 /\ k = 4 THEN sizes[4] ELSE Product(SubSeq(sizes, k + 1, Len(sizes)))

\* QtSoapArrayIterator::pos.
IteratorPos(sizes, p) ==
  IF Len(sizes) = 1 THEN <<p>>
  ELSE [k \in DOMAIN sizes |-> (IF k = 1 THEN p ELSE p % Weight(sizes, k - 1)) \div Weight(sizes, k)]

\* at(), with no item where there is none.
NoItem == [type |-> "NIL", value |-> "NIL"]
ItemAt(p) == IF p \in DOMAIN array.items THEN array.items[p] ELSE NoItem

\* For reference: the coordinates in range, and how many of them come before.
InShape(sizes) ==
  {c \in [DOMAIN sizes -> UNION {(0 .. sizes[k]) \ {sizes[k]} : k \in DOMAIN sizes}] :
     \A k \in DOMAIN sizes : c[k] < sizes[k]}
Before(c, d) == \E k \in DOMAIN c : c[k] < d[k] /\ \A j \in 1 .. k - 1 : c[j] = d[j]
Rank(among, c) == Cardinality({d \in among : Before(d, c)})
CoordinatesOf(sizes, p) ==
  LET all == InShape(sizes)
  IN IF Len(sizes) = 1 THEN {<<p>>} ELSE {c \in all : Rank(all, c) = p}
Noted(sizes, items) ==
  LET all == InShape(sizes)
  IN IF Len(sizes) = 1 THEN [c \in {<<p>> : p \in DOMAIN items} |-> items[c[1]]]
     ELSE [c \in {d \in all : Rank(all, d) \in DOMAIN items} |-> items[Rank(all, c)]]

-----------------------------------------------------------------------------
(* Filling *)

HasRoom == ~hung /\ Cardinality(DOMAIN array.items) < MaxItems

Put(f, x, v) == [y \in DOMAIN f \cup {x} |-> IF y = x THEN v ELSE f[y]]
Place(coordinates, item) ==
  placed' = [c \in coordinates \cup DOMAIN placed |-> IF c \in coordinates THEN item ELSE placed[c]]

\* An item of the type of the array, or the first of an array without a type.
Fits(item) == array.type \in {"Other", item.type}

\* insert(pos): an array that was cleared becomes one of one dimension, and does not
\* note the position.
Inserted(p, item) ==
  [order |-> IF array.order = -1 THEN 1 ELSE array.order, sizes |-> array.sizes,
   lastIndex |-> IF array.order = 1 /\ p > array.lastIndex THEN p ELSE array.lastIndex,
   type |-> item.type, items |-> Put(array.items, p, item)]

InsertItem(p, item) ==
  /\ HasRoom /\ Fits(item)
  /\ array' = Inserted(p, item)
  /\ Place(CoordinatesOf(array.sizes, p), item)
  /\ several' = {}
  /\ UNCHANGED <<hung, counted>>

\* insert() with a coordinate for each dimension, which are compared with the sizes if
\* they are two or three.  Others are those of another position, or of none.
InsertAmong(c, item) ==
  /\ HasRoom /\ Fits(item)
  /\ array.order > 1 /\ Len(c) = array.order
  /\ array.order <= 3 => c \in InShape(array.sizes)
  /\ array' = Inserted(Absolute(array.sizes, c), item)
  /\ Place(IF c \in InShape(array.sizes) THEN {c}
           ELSE CoordinatesOf(array.sizes, Absolute(array.sizes, c)), item)
  /\ several' = {}
  /\ UNCHANGED <<hung, counted>>

\* append(): the type is not looked at.
AppendItem(item) ==
  /\ HasRoom /\ array.order = 1 /\ array.lastIndex < MaxIndex
  /\ LET p == IF array.items = NoItems THEN 0 ELSE array.lastIndex + 1
     IN /\ array' = [order |-> 1, sizes |-> array.sizes, type |-> array.type,
                     lastIndex |-> IF array.items = NoItems THEN array.lastIndex ELSE p,
                     items |-> Put(array.items, p, item)]
        /\ Place({<<p>>}, item)
  /\ several' = {}
  /\ UNCHANGED <<hung, counted>>

ClearArray ==
  /\ ~hung
  /\ array' = [NewArray(<<0>>, "Other") EXCEPT !.order = -1]
  /\ placed' = NoItems /\ several' = {} /\ counted' = FALSE
  /\ UNCHANGED hung

\* The copy constructor, which leaves the type of the items as it happens to be.
CopyArray ==
  /\ ~hung
  /\ \E type \in ArrayTypes : array' = [array EXCEPT !.type = type]
  /\ UNCHANGED <<hung, placed, several, counted>>

-----------------------------------------------------------------------------
(* Writing and reading *)

\* toDomElement(): the items in the order of the hash, each with its coordinates.  They
\* are not set for an array that was cleared and has not become one of one dimension.
Writings ==
  {[i \in DOMAIN ps |-> [node |-> "item", item |-> array.items[ps[i]],
                         at |-> IF array.order = -1 THEN <<unset>> ELSE IteratorPos(array.sizes, ps[i])]] :
     ps \in SetToSeqs(DOMAIN array.items), unset \in Position}

\* arrayTypeString() looks at the first item again and again, as long as that is an
\* array with items in it.
Endless == array.type = "Array" /\ \E p \in DOMAIN array.items : array.items[p] = [type |-> "Array", value |-> "full"]
CanEnd == array.type = "Array" => array.items = NoItems
            \/ \E p \in DOMAIN array.items : array.items[p] # [type |-> "Array", value |-> "full"]

\* parse(): the position an item is written with, if it is one number (more of them
\* are read as 0), or the one behind the item before.
ReadNode(read, n) ==
  IF read.failed \/ n.node = "comment" THEN read
  ELSE IF n.node # "item" THEN [read EXCEPT !.failed = TRUE]
  ELSE LET p == IF n.at = <<>> THEN read.pos ELSE IF Len(n.at) = 1 THEN n.at[1] ELSE 0
       IN [items |-> Put(read.items, p, n.item), pos |-> p + 1, failed |-> FALSE]
ReadNodes(doc) == FoldLeft(ReadNode, [items |-> NoItems, pos |-> 0, failed |-> FALSE], doc)

\* The items of a document that all say several coordinates.
SeveralSaid(doc) ==
  IF \A n \in ToSet(doc) : n.node = "comment" \/ (n.node = "item" /\ Len(n.at) > 1)
  THEN {n.item : n \in {m \in ToSet(doc) : m.node = "item"}} ELSE {}

\* An array that is read keeps order, sizes, lastIndex and type.
ParseArray(doc) ==
  /\ ~hung
  /\ array' = [array EXCEPT !.items = ReadNodes(doc).items]
  /\ placed' = Noted(array.sizes, array'.items)
  /\ several' = SeveralSaid(doc)
  /\ counted' = FALSE
  /\ UNCHANGED hung

\* Another array, new, of what this one writes.
SendArray ==
  /\ ~hung /\ CanEnd
  /\ \E doc \in Writings :
       array' = [NewArray(<<0>>, "Other") EXCEPT !.items = ReadNodes(doc).items]
  /\ IF array.order = 1 THEN UNCHANGED <<placed, several>>
     ELSE placed' = Noted(<<0>>, array'.items) /\ several' = {array.items[p] : p \in DOMAIN array.items}
  /\ counted' = FALSE
  /\ UNCHANGED hung

WriteForever ==
  /\ ~hung /\ Endless
  /\ hung' = TRUE
  /\ UNCHANGED <<array, placed, several, counted>>

-----------------------------------------------------------------------------
ArrayNext ==
  \/ \E p \in Position, item \in Item : InsertItem(p, item)
  \/ \E c \in InShape(array.sizes) \cup Stray, item \in Item : InsertAmong(c, item)
  \/ \E item \in Item : AppendItem(item)
  \/ ClearArray \/ CopyArray
  \/ \E doc \in ArrayDocument : ParseArray(doc)
  \/ SendArray \/ WriteForever

ArraySpec == ArrayInit /\ [][ArrayNext]_arrayVars

-----------------------------------------------------------------------------
(* Properties *)

\* The variables have their types.
ArrayTypeOK ==
  /\ array.order \in {-1} \cup 1..5
  /\ array.type \in ArrayTypes /\ array.lastIndex \in Nat
  /\ \A p \in DOMAIN array.items : p \in Int /\ array.items[p] \in Item
  /\ {hung, counted} \subseteq BOOLEAN /\ several \subseteq Item

\* What was inserted at some coordinates, whether they were given one by one or as an
\* absolute position counted in their order, is found there, and nothing else is: no two
\* coordinates share a position.  An array of one dimension comes as it was sent.
ItemsFound ==
  \A c \in IF array.order > 1 THEN InShape(array.sizes) ELSE {<<p>> : p \in Position} :
    ItemAt(Absolute(array.sizes, c)) = IF c \in DOMAIN placed THEN placed[c] ELSE NoItem

\* An array of two to five dimensions does not: of all its items one arrives, whichever
\* the hash has last, since parse() takes "[1,2]" for 0.  Neither does one that was
\* cleared and read, whose items are all written with the same unset number.  The class
\* promises "up to 5 dimensions" (qtsoap.cpp:344-360), and parse() the content (:1258).
OneOfSeveral ==
  several # {} => \E p \in DOMAIN array.items : DOMAIN array.items = {p} /\ array.items[p] \in several

\* The iterator tells the coordinates of every item, but of five dimensions only the
\* first three: the fourth is told in steps of its own size, not of the fifth, so that
\* it and the fifth are right together only where these sizes are equal.  Its comment
\* says that it "populates" all five (:1567-1572).
CoordinatesTold ==
  array.order > 1 =>
    \A p \in DOMAIN array.items : \A c \in CoordinatesOf(array.sizes, p) :
      LET told == IteratorPos(array.sizes, p)
          sizes == array.sizes
      IN /\ \A k \in DOMAIN sizes :
              k <= 3 \/ array.order # 5 \/ sizes[4] = sizes[5] => told[k] = c[k]
         /\ array.order = 5 =>
              told[4] * sizes[4] + told[5] = c[4] * sizes[5] + c[5] /\ told[5] < sizes[4]

\* What becomes of the items of an array: those of one dimension are found where they were
\* put, also after the array was sent; those of more are found until it is sent, which
\* leaves one of them; the iterator tells where each is, up to the last two of five
\* coordinates; and what is appended goes behind all the others, as long as the array
\* was never cleared or read.
ArrayHolds ==
  /\ ItemsFound /\ OneOfSeveral /\ CoordinatesTold
  /\ counted => \A p \in DOMAIN array.items : p <= array.lastIndex
=============================================================================
