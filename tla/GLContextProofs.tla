--------------------------- MODULE GLContextProofs ---------------------------
(***************************************************************************)
(* Theorems about GLContext, for every value of its constants: it          *)
(* implements GLCommands, the version is known to an app that has its gl   *)
(* object, and the futures of object ids are resolved.                     *)
(*                                                                         *)
(* A command that was issued and not performed is in the copy of the GL    *)
(* thread, in the backlog or in the next batch.  Their numbers, taken in   *)
(* this order, are consecutive (Numbering); everything else only depends   *)
(* on the set of these commands (Line).                                    *)
(***************************************************************************)
EXTENDS GLContext, SequenceTheorems, TLAPS

Elements(s) == {s[i] : i \in 1..Len(s)}
Line == Elements(gl.copy) \cup Elements(backlog) \cup Elements(nextBatch)

\* the commands of s are numbered consecutively, after k
From(s, k) == \A i \in 1..Len(s) : s[i].n = k + i

Numbering ==
  LET c == performed + Len(gl.copy)
      b == c + Len(backlog)
      last == b + Len(nextBatch)
  IN /\ From(gl.copy, performed) /\ From(backlog, c) /\ From(nextBatch, b)
     /\ last <= issued
     /\ context = "live" => last = issued

\* where commands may be
Phase ==
  /\ context = "none" => issued = 0 /\ performed = 0 /\ gl.pc \in {"ready", "stopped"}
  /\ context = "live" => issued >= 1
  /\ context # "live" => nextBatch = <<>> /\ backlog = <<>>
  /\ gl.pc # "run" => gl.copy = <<>>

\* a command that JavaScript waits for is its last one, and done means performed
Waiting ==
  /\ js.pc = "wait" => js.op.kind = "get"
  /\ js.pc \in {"flush", "wait"} /\ js.op.kind = "get"
       => js.op.n \in 1..issued /\ (js.done => js.op.n <= performed)
  /\ js.pc = "method" => ~js.done
  /\ \A op \in Line : op.kind = "get"
       => js.pc \in {"flush", "wait"} /\ js.op.kind = "get" /\ js.op.n = op.n

\* the first command computes supportsWebGL2
Version ==
  /\ \A op \in Line : op.n = 1 => op.kind = "init"
  /\ context = "live" /\ performed >= 1 => supports
  /\ js.gl => performed >= 1

Ids ==
  /\ nextObjectId >= 1
  /\ \A obj \in objects \cup native \cup futures : obj < nextObjectId
  /\ native \cap futures = {}
  /\ js.pc = "method" /\ js.op.kind = "bind" => js.op.obj < nextObjectId
  /\ \A op \in Line : op.kind = "bind" => op.obj < nextObjectId

\* each future is mapped once, by the command that creates its object
Creates(op, obj) == op.kind = "create" /\ op.obj = obj
Futures ==
  /\ context = "none" => futures = {}
  /\ \A op \in Line : op.kind = "create" => op.obj \in futures /\ op.obj \notin objects
  /\ \A op1, op2 \in Line : op1.kind = "create" /\ Creates(op2, op1.obj) => op1 = op2
  /\ context = "live" =>
       /\ \A obj \in futures \ objects : \E op \in Line : Creates(op, obj)
       /\ \A use \in Line : use.kind = "bind" /\ use.obj \in futures \ objects
            => \E op \in Line : Creates(op, use.obj) /\ op.n < use.n

\* The inductive invariant.
IInv == TypeOK /\ Phase /\ Numbering /\ Waiting /\ Version /\ Ids /\ Futures

-----------------------------------------------------------------------------
(***************************************************************************)
(* Sequences of commands and the set of their elements.                    *)
(***************************************************************************)
LEMMA ElementsEmpty == Elements(<<>>) = {}
BY DEF Elements

LEMMA ElementsAppend ==
  ASSUME NEW s \in Seq(Op), NEW op \in Op
  PROVE  Elements(Append(s, op)) = Elements(s) \cup {op}
<1>1. /\ Len(Append(s, op)) = Len(s) + 1 /\ Len(s) \in Nat
      /\ \A i \in 1..Len(s) : Append(s, op)[i] = s[i]
      /\ Append(s, op)[Len(s) + 1] = op
  BY AppendProperties, LenProperties
<1>2. 1..Len(s) + 1 = (1..Len(s)) \cup {Len(s) + 1}
  BY <1>1
<1> HIDE DEF Op
<1> QED BY <1>1, <1>2 DEF Elements

LEMMA ElementsConcat ==
  ASSUME NEW s \in Seq(Op), NEW t \in Seq(Op)
  PROVE  Elements(s \o t) = Elements(s) \cup Elements(t)
<1>1. /\ Len(s \o t) = Len(s) + Len(t) /\ Len(s) \in Nat /\ Len(t) \in Nat
      /\ \A i \in 1..Len(s) + Len(t) :
           (s \o t)[i] = IF i <= Len(s) THEN s[i] ELSE t[i - Len(s)]
  BY ConcatProperties, LenProperties
<1>2. ASSUME NEW i \in 1..Len(s) PROVE s[i] \in Elements(s \o t)
  BY <1>1 DEF Elements
<1>3. ASSUME NEW i \in 1..Len(t) PROVE t[i] \in Elements(s \o t)
  <2>1. Len(s) + i \in 1..Len(s) + Len(t) /\ (s \o t)[Len(s) + i] = t[i]
    BY <1>1
  <2> QED BY <1>1, <2>1 DEF Elements
<1>4. ASSUME NEW i \in 1..Len(s) + Len(t) PROVE (s \o t)[i] \in Elements(s) \cup Elements(t)
  <2>1. CASE i <= Len(s)
    BY <1>1, <2>1 DEF Elements
  <2>2. CASE ~(i <= Len(s))
    <3>1. i - Len(s) \in 1..Len(t) /\ (s \o t)[i] = t[i - Len(s)]
      BY <1>1, <2>2
    <3> QED BY <3>1 DEF Elements
  <2> QED BY <2>1, <2>2
<1> QED BY <1>1, <1>2, <1>3, <1>4 DEF Elements

LEMMA ElementsTail ==
  ASSUME NEW s \in Seq(Op), s # <<>>
  PROVE  /\ Head(s) \in Elements(s) /\ Head(s) = s[1] /\ Len(s) >= 1
         /\ Elements(s) = Elements(Tail(s)) \cup {Head(s)}
<1>1. /\ Len(s) \in Nat \ {0} /\ Len(Tail(s)) = Len(s) - 1
      /\ \A i \in 1..Len(Tail(s)) : Tail(s)[i] = s[i + 1]
  BY EmptySeq, HeadTailProperties
<1>2. Head(s) = s[1]
  OBVIOUS
<1>3. ASSUME NEW i \in 2..Len(s) PROVE s[i] \in Elements(Tail(s))
  <2>1. i - 1 \in 1..Len(Tail(s)) /\ Tail(s)[i - 1] = s[i]
    BY <1>1
  <2> QED BY <2>1 DEF Elements
<1>4. ASSUME NEW i \in 1..Len(Tail(s)) PROVE Tail(s)[i] \in Elements(s)
  <2>1. i + 1 \in 1..Len(s) /\ Tail(s)[i] = s[i + 1]
    BY <1>1
  <2> QED BY <2>1 DEF Elements
<1>5. 1..Len(s) = {1} \cup 2..Len(s)
  BY <1>1
<1> QED BY <1>1, <1>2, <1>3, <1>4, <1>5 DEF Elements

LEMMA FromEmpty == ASSUME NEW k PROVE From(<<>>, k)
BY DEF From

LEMMA FromAppend ==
  ASSUME NEW s \in Seq(Op), NEW op \in Op, NEW k \in Nat, From(s, k), op.n = k + Len(s) + 1
  PROVE  From(Append(s, op), k) /\ Len(Append(s, op)) = Len(s) + 1
BY AppendProperties, LenProperties, SMTT(30) DEF From

LEMMA FromConcat ==
  ASSUME NEW s \in Seq(Op), NEW t \in Seq(Op), NEW k \in Nat, From(s, k), From(t, k + Len(s))
  PROVE  From(s \o t, k) /\ Len(s \o t) = Len(s) + Len(t)
<1>1. Len(s) \in Nat /\ Len(t) \in Nat
  BY LenProperties
<1>2. ASSUME NEW i \in 1..Len(s) + Len(t) PROVE (s \o t)[i].n = k + i
  <2>1. (s \o t)[i] = IF i <= Len(s) THEN s[i] ELSE t[i - Len(s)]
    BY ConcatProperties
  <2>2. CASE i <= Len(s)
    BY <1>1, <2>1, <2>2 DEF From
  <2>3. CASE ~(i <= Len(s))
    <3>1. i - Len(s) \in 1..Len(t)
      BY <1>1, <2>3
    <3>2. t[i - Len(s)].n = k + Len(s) + (i - Len(s))
      BY <3>1 DEF From
    <3> QED BY <1>1, <2>1, <2>3, <3>2
  <2> QED BY <2>2, <2>3
<1> QED BY <1>2, ConcatProperties DEF From

LEMMA FromTail ==
  ASSUME NEW s \in Seq(Op), s # <<>>, NEW k \in Nat, From(s, k)
  PROVE  /\ Head(s).n = k + 1 /\ From(Tail(s), k + 1)
         /\ Len(Tail(s)) = Len(s) - 1 /\ Len(s) \in Nat \ {0}
<1>1. /\ Len(s) \in Nat \ {0} /\ Len(Tail(s)) = Len(s) - 1
      /\ \A i \in 1..Len(Tail(s)) : Tail(s)[i] = s[i + 1]
  BY EmptySeq, HeadTailProperties
<1>2. Head(s).n = k + 1
  BY <1>1, ElementsTail DEF From
<1>3. ASSUME NEW i \in 1..Len(Tail(s)) PROVE Tail(s)[i].n = k + 1 + i
  <2>1. i + 1 \in 1..Len(s) /\ Tail(s)[i] = s[i + 1]
    BY <1>1
  <2> QED BY <2>1 DEF From
<1> QED BY <1>1, <1>2, <1>3 DEF From

\* the commands not performed yet are numbered above the last one performed
LEMMA LineNumbers ==
  ASSUME TypeOK, Numbering
  PROVE  \A op \in Line : op \in Op /\ op.n > performed /\ op.n <= issued
<1>1. /\ performed \in Nat /\ issued \in Nat
      /\ gl.copy \in Seq(Op) /\ backlog \in Seq(Op) /\ nextBatch \in Seq(Op)
  BY DEF TypeOK, GLThread
<1>2. Len(gl.copy) \in Nat /\ Len(backlog) \in Nat /\ Len(nextBatch) \in Nat
  BY <1>1, LenProperties
<1>3. ASSUME NEW i \in 1..Len(gl.copy)
      PROVE  gl.copy[i] \in Op /\ gl.copy[i].n > performed /\ gl.copy[i].n <= issued
  <2>1. gl.copy[i] \in Op
    BY <1>1, ElementOfSeq
  <2> QED BY <1>1, <1>2, <2>1 DEF Numbering, From
<1>4. ASSUME NEW i \in 1..Len(backlog)
      PROVE  backlog[i] \in Op /\ backlog[i].n > performed /\ backlog[i].n <= issued
  <2>1. backlog[i] \in Op
    BY <1>1, ElementOfSeq
  <2> QED BY <1>1, <1>2, <2>1 DEF Numbering, From
<1>5. ASSUME NEW i \in 1..Len(nextBatch)
      PROVE  nextBatch[i] \in Op /\ nextBatch[i].n > performed /\ nextBatch[i].n <= issued
  <2>1. nextBatch[i] \in Op
    BY <1>1, ElementOfSeq
  <2> QED BY <1>1, <1>2, <2>1 DEF Numbering, From
<1> QED BY <1>3, <1>4, <1>5 DEF Line, Elements

-----------------------------------------------------------------------------
(***************************************************************************)
(* What the actions do to the commands not performed yet.                  *)
(***************************************************************************)
\* all actions but those that move commands
Quiet ==
  /\ gl'.copy = gl.copy /\ backlog' = backlog /\ nextBatch' = nextBatch
  /\ issued' = issued /\ performed' = performed /\ context' = context

LEMMA QuietLine == ASSUME Quiet PROVE Line' = Line
BY DEF Quiet, Line, Elements

\* JavaScript adds one command, in a context that exists
Adds(op) ==
  /\ op \in Op /\ op.n = issued + 1
  /\ Line' = Line \cup {op}
  /\ issued' = issued + 1 /\ performed' = performed
  /\ context = "live" /\ context' = context
  /\ gl' = gl

LEMMA TypedQueues ==
  ASSUME TypeOK
  PROVE  /\ gl.copy \in Seq(Op) /\ backlog \in Seq(Op) /\ nextBatch \in Seq(Op)
         /\ Len(gl.copy) \in Nat /\ Len(backlog) \in Nat /\ Len(nextBatch) \in Nat
         /\ performed \in Nat /\ issued \in Nat
         /\ js \in JSThread /\ gl \in GLThread
BY LenProperties DEF TypeOK, GLThread

LEMMA NumberedType ==
  ASSUME TypeOK
  PROVE  /\ Numbered \in Op /\ Numbered.n = issued + 1
         /\ Numbered.kind = js.op.kind /\ Numbered.obj = js.op.obj
<1>1. js.op \in Op /\ issued + 1 \in Nat
  BY TypedQueues DEF JSThread
<1> QED BY <1>1 DEF Op, Numbered

LEMMA AddToNextBatchLine ==
  ASSUME TypeOK, AddToNextBatch
  PROVE  Adds(Numbered)
<1>1. Elements(nextBatch)' = Elements(nextBatch) \cup {Numbered}
  <2>1. nextBatch' = Append(nextBatch, Numbered)
    BY DEF AddToNextBatch
  <2>2. Elements(Append(nextBatch, Numbered)) = Elements(nextBatch) \cup {Numbered}
    BY TypedQueues, NumberedType, ElementsAppend
  <2> QED BY <2>1, <2>2 DEF Elements
<1>2. Elements(gl.copy)' = Elements(gl.copy) /\ Elements(backlog)' = Elements(backlog)
  BY DEF AddToNextBatch, Elements
<1> QED BY <1>1, <1>2, NumberedType DEF AddToNextBatch, Adds, Line

LEMMA AddFutureLine ==
  ASSUME TypeOK, AddFutureToNextBatch
  PROVE  LET op == [Numbered EXCEPT !.obj = nextObjectId]
         IN Adds(op) /\ op.kind = "create" /\ op.obj = nextObjectId
<1> DEFINE op == [Numbered EXCEPT !.obj = nextObjectId]
<1>1. op \in Op /\ op.n = issued + 1 /\ op.kind = "create" /\ op.obj = nextObjectId
  BY NumberedType DEF AddFutureToNextBatch, Op, TypeOK
<1>2. Elements(nextBatch)' = Elements(nextBatch) \cup {op}
  <2>1. nextBatch' = Append(nextBatch, op)
    BY DEF AddFutureToNextBatch
  <2>2. Elements(Append(nextBatch, op)) = Elements(nextBatch) \cup {op}
    BY <1>1, TypedQueues, ElementsAppend
  <2> QED BY <2>1, <2>2 DEF Elements
<1>3. Elements(gl.copy)' = Elements(gl.copy) /\ Elements(backlog)' = Elements(backlog)
  BY DEF AddFutureToNextBatch, Elements
<1> QED BY <1>1, <1>2, <1>3 DEF AddFutureToNextBatch, Adds, Line

LEMMA EndNextBatchLine ==
  ASSUME TypeOK, EndNextBatch
  PROVE  Adds(Numbered)
<1>1. Elements(backlog)' = Elements(backlog) \cup Elements(nextBatch) \cup {Numbered}
  <2>1. backlog' = backlog \o Append(nextBatch, Numbered)
    BY DEF EndNextBatch
  <2>2. Append(nextBatch, Numbered) \in Seq(Op)
    BY TypedQueues, NumberedType, AppendProperties
  <2>3. Elements(backlog \o Append(nextBatch, Numbered))
          = Elements(backlog) \cup Elements(Append(nextBatch, Numbered))
    BY <2>2, TypedQueues, ElementsConcat
  <2>4. Elements(Append(nextBatch, Numbered)) = Elements(nextBatch) \cup {Numbered}
    BY TypedQueues, NumberedType, ElementsAppend
  <2> QED BY <2>1, <2>3, <2>4 DEF Elements
<1>2. Elements(nextBatch)' = {}
  BY ElementsEmpty DEF EndNextBatch, Elements
<1>3. Elements(gl.copy)' = Elements(gl.copy)
  BY DEF EndNextBatch, Elements
<1> QED BY <1>1, <1>2, <1>3, NumberedType DEF EndNextBatch, Adds, Line

LEMMA CreateLine ==
  ASSUME TypeOK, Phase, Create
  PROVE  Line' = {[kind |-> "init", obj |-> 0, n |-> 1]}
<1>1. gl.copy = <<>> /\ gl' = gl /\ backlog = <<>> /\ backlog' = backlog
  BY DEF Phase, Create
<1>2. nextBatch' = <<[kind |-> "init", obj |-> 0, n |-> 1]>>
  BY DEF Create
<1>3. Elements(<<[kind |-> "init", obj |-> 0, n |-> 1]>>) = {[kind |-> "init", obj |-> 0, n |-> 1]}
  BY DEF Elements
<1>4. Elements(nextBatch)' = {[kind |-> "init", obj |-> 0, n |-> 1]}
  BY <1>2, <1>3 DEF Elements
<1>5. Elements(gl.copy)' = {} /\ Elements(backlog)' = {}
  BY <1>1, ElementsEmpty DEF Elements
<1> QED BY <1>4, <1>5 DEF Line

LEMMA SwapLine ==
  ASSUME TypeOK, Phase, Swap
  PROVE  Line' = Line
<1>1. gl.copy = <<>> /\ gl'.copy = backlog /\ backlog' = <<>> /\ nextBatch' = nextBatch
  BY TypedQueues DEF Phase, Swap, GLThread
<1>2. /\ Elements(gl.copy)' = Elements(backlog) /\ Elements(backlog)' = {}
      /\ Elements(nextBatch)' = Elements(nextBatch) /\ Elements(gl.copy) = {}
  BY <1>1, ElementsEmpty DEF Elements
<1> QED BY <1>2 DEF Line

\* the first command of the copy is the next one to perform
LEMMA PerformLine ==
  ASSUME TypeOK, Numbering, Perform
  PROVE  LET op == Head(gl.copy)
         IN /\ op \in Line /\ op \in Op /\ op.n = performed + 1 /\ performed' = op.n
            /\ performed < issued
            /\ Line' \subseteq Line /\ Line \subseteq Line' \cup {op} /\ op \notin Line'
<1> DEFINE op == Head(gl.copy)
<1>1. gl.copy # <<>> /\ gl'.copy = Tail(gl.copy) /\ backlog' = backlog /\ nextBatch' = nextBatch
  BY TypedQueues DEF Perform, GLThread, queueVars
<1>2. /\ From(gl.copy, performed) /\ From(backlog, performed + Len(gl.copy))
      /\ From(nextBatch, performed + Len(gl.copy) + Len(backlog))
  BY DEF Numbering
<1>3. /\ op \in Elements(gl.copy) /\ Elements(gl.copy) = Elements(Tail(gl.copy)) \cup {op}
      /\ op.n = performed + 1 /\ From(Tail(gl.copy), performed + 1)
      /\ Len(gl.copy) >= 1
  BY <1>1, <1>2, TypedQueues, ElementsTail, FromTail
<1>4. op \in Line /\ op \in Op /\ op.n <= issued
  BY <1>3, LineNumbers DEF Line
<1>5. performed' = op.n /\ performed < issued
  BY <1>3, <1>4, TypedQueues DEF Perform
<1>6. Elements(gl.copy)' = Elements(Tail(gl.copy)) /\ Elements(backlog)' = Elements(backlog)
      /\ Elements(nextBatch)' = Elements(nextBatch)
  BY <1>1 DEF Elements
<1>7. op \notin Elements(Tail(gl.copy)) /\ op \notin Elements(backlog)
      /\ op \notin Elements(nextBatch)
  <2>1. op \notin Elements(Tail(gl.copy))
    <3>1. ASSUME NEW i \in 1..Len(Tail(gl.copy)) PROVE Tail(gl.copy)[i].n > performed + 1
      <4>1. Tail(gl.copy)[i].n = performed + 1 + i
        BY <1>3 DEF From
      <4> QED BY <4>1, TypedQueues
    <3> QED BY <1>3, <3>1, TypedQueues DEF Elements
  <2>2. op \notin Elements(backlog)
    <3>1. ASSUME NEW i \in 1..Len(backlog) PROVE backlog[i].n > performed + 1
      <4>1. backlog[i].n = performed + Len(gl.copy) + i
        BY <1>2 DEF From
      <4> QED BY <4>1, <1>3, TypedQueues
    <3> QED BY <1>3, <3>1, TypedQueues DEF Elements
  <2>3. op \notin Elements(nextBatch)
    <3>1. ASSUME NEW i \in 1..Len(nextBatch) PROVE nextBatch[i].n > performed + 1
      <4>1. nextBatch[i].n = performed + Len(gl.copy) + Len(backlog) + i
        BY <1>2 DEF From
      <4> QED BY <4>1, <1>3, TypedQueues
    <3> QED BY <1>3, <3>1, TypedQueues DEF Elements
  <2> QED BY <2>1, <2>2, <2>3
<1>8. Line' = Elements(Tail(gl.copy)) \cup Elements(backlog) \cup Elements(nextBatch)
  BY <1>6 DEF Line
<1> QED BY <1>3, <1>4, <1>5, <1>7, <1>8 DEF Line

\* deleting the context
LEMMA DeleteLine ==
  ASSUME TypeOK, EndDestroy \/ DestroyAndroid
  PROVE  /\ Line' \subseteq Line /\ context' # "live" /\ gl'.copy = gl.copy
         /\ issued' = issued /\ performed' = performed /\ js' = js /\ supports' = supports
         /\ nextBatch' = <<>> /\ backlog' = <<>> /\ objects' = {}
         /\ nextObjectId' = nextObjectId /\ native' = native /\ futures' = futures
<1>1. /\ context' # "live" /\ gl'.copy = gl.copy
      /\ issued' = issued /\ performed' = performed /\ js' = js /\ supports' = supports
      /\ nextBatch' = <<>> /\ backlog' = <<>> /\ objects' = {}
      /\ nextObjectId' = nextObjectId /\ native' = native /\ futures' = futures
  BY TypedQueues DEF EndDestroy, DestroyAndroid, Delete, GLThread, flagVars
<1>2. /\ Elements(gl.copy)' = Elements(gl.copy)
      /\ Elements(backlog)' = {} /\ Elements(nextBatch)' = {}
  BY <1>1, ElementsEmpty DEF Elements
<1> QED BY <1>1, <1>2 DEF Line

-----------------------------------------------------------------------------
(***************************************************************************)
(* Each part of the invariant is kept by every action.                     *)
(***************************************************************************)
LEMMA TypeInit == Init => TypeOK
<1> SUFFICES ASSUME Init PROVE TypeOK
  OBVIOUS
<1>1. NoOp \in Op /\ "flush" \in Events
  BY DEF NoOp, Op, Kinds, Events
<1>2. js \in JSThread /\ gl \in GLThread /\ view \in View
  BY <1>1, EmptySeq DEF Init, JSThread, GLThread, View
<1>3. <<>> \in Seq(Op) /\ <<>> \in Seq(Events)
  BY EmptySeq
<1>4. /\ platform \in Platforms /\ context \in {"none", "live", "deleted"}
      /\ supports \in BOOLEAN /\ redraw \in BOOLEAN
      /\ objects \subseteq Nat /\ native \subseteq Nat /\ futures \subseteq Nat
  BY DEF Init
<1>5. {issued, nextObjectId, performed, destroys} \subseteq Nat
  BY DEF Init
<1>6. nextBatch \in Seq(Op) /\ backlog \in Seq(Op) /\ events \in Seq(Events)
  BY <1>3 DEF Init
<1> QED BY <1>2, <1>4, <1>5, <1>6 DEF TypeOK

LEMMA EventsType ==
  ASSUME TypeOK
  PROVE  /\ events \in Seq(Events)
         /\ Append(events, "flush") \in Seq(Events) /\ Append(events, "destroy") \in Seq(Events)
         /\ events # <<>> => Tail(events) \in Seq(Events) /\ Head(events) \in Events
<1>1. events \in Seq(Events) /\ "flush" \in Events /\ "destroy" \in Events
  BY DEF TypeOK, Events
<1> QED BY <1>1, AppendProperties, HeadTailProperties

LEMMA TypeStep ==
  ASSUME TypeOK, [Next]_vars
  PROVE  TypeOK'
<1> USE DEF TypeOK, queueVars, objectVars, flagVars
<1>1. CASE Create
  <2>1. [kind |-> "init", obj |-> 0, n |-> 1] \in Op
    BY DEF Op, Kinds
  <2>2. <<[kind |-> "init", obj |-> 0, n |-> 1]>> \in Seq(Op)
    BY <2>1
  <2> QED BY <1>1, <2>2 DEF Create
<1>2. CASE EnterMethod
  <2>1. ASSUME NEW kind \in Kinds, NEW obj \in Nat, Enter(kind, obj) PROVE TypeOK'
    <3>1. [kind |-> kind, obj |-> obj, n |-> 0] \in Op
      BY DEF Op
    <3> QED BY <2>1, <3>1 DEF Enter, JSThread
  <2> QED BY <1>2, <2>1, SMTT(30) DEF EnterMethod, Kinds
<1>3. CASE AddToNextBatch
  <2>1. Append(nextBatch, Numbered) \in Seq(Op)
    BY TypedQueues, NumberedType, AppendProperties
  <2>2. js' \in JSThread
    BY <1>3 DEF AddToNextBatch, JSThread
  <2> QED BY <1>3, <2>1, <2>2 DEF AddToNextBatch
<1>4. CASE AddFutureToNextBatch
  <2>1. [Numbered EXCEPT !.obj = nextObjectId] \in Op
    BY NumberedType DEF Op
  <2>2. Append(nextBatch, [Numbered EXCEPT !.obj = nextObjectId]) \in Seq(Op)
    BY <2>1, TypedQueues, AppendProperties
  <2>3. js' \in JSThread
    BY <1>4 DEF AddFutureToNextBatch, JSThread
  <2> QED BY <1>4, <2>2, <2>3, SMTT(30) DEF AddFutureToNextBatch
<1>5. CASE EndNextBatch
  <2>1. backlog \o Append(nextBatch, Numbered) \in Seq(Op) /\ <<>> \in Seq(Op)
    BY TypedQueues, NumberedType, AppendProperties, ConcatProperties
  <2>2. js' \in JSThread
    BY <1>5, NumberedType DEF EndNextBatch, JSThread
  <2> QED BY <1>5, <2>1, <2>2 DEF EndNextBatch
<1>6. CASE MethodOfDeleted
  BY <1>6 DEF MethodOfDeleted, JSThread
<1>7. CASE FlushOnGLThread
  BY <1>7, EventsType DEF FlushOnGLThread, JSThread
<1>8. CASE Return
  BY <1>8 DEF Return, JSThread
<1>9. CASE TakeEvent
  BY <1>9, EventsType DEF TakeEvent, GLThread
<1>10. CASE Swap
  BY <1>10, EmptySeq DEF Swap, GLThread
<1>11. CASE Perform
  <2> DEFINE op == Head(gl.copy)
  <2>1. gl.copy # <<>> /\ gl.copy \in Seq(Op)
    BY <1>11 DEF Perform, GLThread
  <2>2. op \in Op /\ Tail(gl.copy) \in Seq(Op)
    BY <2>1, HeadTailProperties
  <2>3. op.n \in Nat /\ op.obj \in Nat
    BY <2>2 DEF Op
  <2>4. gl' \in GLThread
    BY <1>11, <2>2 DEF Perform, GLThread
  <2>5. js' \in JSThread
    BY <1>11 DEF Perform, JSThread
  <2>6. objects' \subseteq Nat /\ supports' \in BOOLEAN /\ redraw' \in BOOLEAN /\ performed' \in Nat
    BY <1>11, <2>3 DEF Perform
  <2> QED BY <1>11, <2>4, <2>5, <2>6 DEF Perform
<1>12. CASE EndFlush
  BY <1>12 DEF EndFlush, GLThread, View
<1>13. CASE EndDestroy
  BY <1>13, EmptySeq DEF EndDestroy, Delete, GLThread
<1>14. CASE Stop
  BY <1>14 DEF Stop, GLThread
<1>15. CASE UIStep
  <2>1. view' \in View
    BY <1>15 DEF UIStep, Draw, DrawEnded, View
  <2> QED BY <1>15, <2>1 DEF UIStep, Draw, DrawEnded
<1>16. CASE DestroyIOS
  BY <1>16, EventsType DEF DestroyIOS
<1>17. CASE DestroyAndroid
  <2>1. gl' \in GLThread
    BY <1>17 DEF DestroyAndroid, GLThread
  <2>2. context' \in {"none", "live", "deleted"} /\ nextBatch' = <<>> /\ backlog' = <<>> /\ objects' = {}
    BY <1>17 DEF DestroyAndroid, Delete
  <2>3. <<>> \in Seq(Op)
    BY EmptySeq
  <2>4. {issued, nextObjectId, performed, destroys}' \subseteq Nat
    BY <1>17 DEF DestroyAndroid
  <2> QED BY <1>17, <2>1, <2>2, <2>3, <2>4 DEF DestroyAndroid
<1>18. CASE NativeCreate
  <2>1. nextObjectId \in Nat /\ native' \subseteq Nat
    BY <1>18 DEF NativeCreate
  <2>2. {issued, nextObjectId, performed, destroys}' \subseteq Nat
    BY <1>18, <2>1 DEF NativeCreate
  <2> QED BY <1>18, <2>1, <2>2 DEF NativeCreate
<1>19. ASSUME NEW obj \in native, NativeMap(obj) \/ NativeDestroy(obj)
       PROVE  TypeOK'
  BY <1>19 DEF NativeMap, NativeDestroy
<1>20. CASE UNCHANGED vars
  BY <1>20 DEF vars
<1> QED
  BY <1>1, <1>2, <1>3, <1>4, <1>5, <1>6, <1>7, <1>8, <1>9, <1>10, <1>11, <1>12, <1>13, <1>14,
     <1>15, <1>16, <1>17, <1>18, <1>19, <1>20
  DEF Next, JSStep, GLStep

\* the actions that move no command
QuietNext ==
  \/ EnterMethod \/ MethodOfDeleted \/ FlushOnGLThread \/ Return
  \/ TakeEvent \/ EndFlush \/ Stop \/ UIStep \/ DestroyIOS \/ NativeCreate
  \/ \E obj \in native : NativeMap(obj) \/ NativeDestroy(obj)
  \/ UNCHANGED vars

LEMMA QuietActions == ASSUME TypeOK, QuietNext PROVE Quiet
<1> USE TypedQueues DEF Quiet, queueVars
<1>1. CASE EnterMethod
  BY <1>1 DEF EnterMethod, Enter
<1>2. CASE MethodOfDeleted \/ FlushOnGLThread \/ Return
  BY <1>2 DEF MethodOfDeleted, FlushOnGLThread, Return
<1>3. CASE TakeEvent \/ Stop
  BY <1>3 DEF TakeEvent, Stop, GLThread
<1>4. CASE EndFlush
  BY <1>4 DEF EndFlush, GLThread
<1>5. CASE UIStep \/ DestroyIOS \/ NativeCreate
  BY <1>5 DEF UIStep, Draw, DrawEnded, DestroyIOS, NativeCreate
<1>6. ASSUME NEW obj \in native, NativeMap(obj) \/ NativeDestroy(obj) PROVE Quiet
  BY <1>6 DEF NativeMap, NativeDestroy
<1>7. CASE UNCHANGED vars
  BY <1>7 DEF vars
<1> QED BY <1>1, <1>2, <1>3, <1>4, <1>5, <1>6, <1>7 DEF QuietNext

LEMMA NextCases ==
  ASSUME [Next]_vars
  PROVE  \/ Create \/ AddToNextBatch \/ AddFutureToNextBatch \/ EndNextBatch
         \/ Swap \/ Perform \/ EndDestroy \/ DestroyAndroid \/ QuietNext
BY DEF Next, JSStep, GLStep, QuietNext

LEMMA PhaseStep ==
  ASSUME TypeOK, Numbering, Phase, [Next]_vars
  PROVE  Phase'
<1> USE TypedQueues DEF Phase, queueVars
<1>1. CASE Create
  BY <1>1 DEF Create
<1>2. CASE AddToNextBatch \/ AddFutureToNextBatch \/ EndNextBatch
  BY <1>2 DEF AddToNextBatch, AddFutureToNextBatch, EndNextBatch
<1>3. CASE Swap
  <2>1. gl'.pc = "run" /\ backlog' = <<>> /\ nextBatch' = nextBatch
        /\ context' = context /\ issued' = issued /\ gl.pc = "swap"
    BY <1>3 DEF Swap, GLThread
  <2> QED BY <2>1
<1>4. CASE Perform
  <2>1. /\ gl.pc = "run" /\ gl'.pc = "run" /\ backlog' = backlog /\ nextBatch' = nextBatch
        /\ context' = context /\ issued' = issued
    BY <1>4 DEF Perform, GLThread
  <2> QED BY <2>1
<1>5. CASE EndDestroy \/ DestroyAndroid
  <2>1. /\ context = "none" => context' = "none"
        /\ gl'.pc = gl.pc \/ (gl.pc = "run" /\ gl'.pc = "ready" /\ gl.copy = <<>>)
    BY <1>5 DEF EndDestroy, DestroyAndroid, Delete, GLThread
  <2>2. context' = "none" => context = "none"
    BY <1>5 DEF EndDestroy, DestroyAndroid, Delete
  <2> QED BY <1>5, <2>1, <2>2, DeleteLine
<1>6. CASE QuietNext
  <2>1. Quiet
    BY <1>6, QuietActions
  <2>2. \/ gl'.pc = gl.pc
        \/ gl.pc = "ready" /\ (gl'.pc \in {"ready", "stopped"} \/ context = "live")
        \/ gl.pc = "run" /\ gl.copy = <<>> /\ gl'.pc = "ready"
    <3>1. CASE TakeEvent \/ Stop
      BY <3>1 DEF TakeEvent, Stop, GLThread
    <3>2. CASE EndFlush
      BY <3>2 DEF EndFlush, GLThread
    <3>3. CASE gl' = gl
      BY <3>3
    <3> QED
      BY <1>6, <3>1, <3>2, <3>3
      DEF QuietNext, EnterMethod, Enter, MethodOfDeleted, FlushOnGLThread, Return, UIStep, Draw,
          DrawEnded, DestroyIOS, NativeCreate, NativeMap, NativeDestroy, vars
  <2> QED BY <2>1, <2>2 DEF Quiet
<1> QED BY NextCases, <1>1, <1>2, <1>3, <1>4, <1>5, <1>6

LEMMA NumberingStep ==
  ASSUME TypeOK, Numbering, Phase, [Next]_vars
  PROVE  Numbering'
<1> USE TypedQueues
<1>0. /\ From(gl.copy, performed) /\ From(backlog, performed + Len(gl.copy))
      /\ From(nextBatch, performed + Len(gl.copy) + Len(backlog))
      /\ performed + Len(gl.copy) + Len(backlog) + Len(nextBatch) <= issued
      /\ context = "live"
           => performed + Len(gl.copy) + Len(backlog) + Len(nextBatch) = issued
  BY DEF Numbering
<1>00. /\ Len(<<>>) = 0 /\ \A k : From(<<>>, k)
  BY FromEmpty
<1>1. CASE Create
  <2>1. /\ gl.copy = <<>> /\ backlog = <<>> /\ performed = 0 /\ gl' = gl /\ backlog' = backlog
        /\ performed' = performed /\ issued' = 1
    BY <1>1 DEF Create, Phase
  <2>2. nextBatch' = <<[kind |-> "init", obj |-> 0, n |-> 1]>>
    BY <1>1 DEF Create
  <2>3. From(nextBatch', 0) /\ Len(nextBatch') = 1
    BY <2>2 DEF From
  <2> QED BY <2>1, <2>3, <1>00 DEF Numbering, From
<1>2. ASSUME NEW op \in Op, op.n = issued + 1, context = "live",
             nextBatch' = Append(nextBatch, op),
             UNCHANGED <<gl, backlog, performed, context>>, issued' = issued + 1
      PROVE  Numbering'
  <2>1. From(nextBatch', performed + Len(gl.copy) + Len(backlog)) /\ Len(nextBatch') = Len(nextBatch) + 1
    BY <1>0, <1>2, FromAppend
  <2> QED BY <1>0, <1>2, <2>1, SMTT(30) DEF Numbering, From
<1>3. CASE AddToNextBatch
  BY <1>2, <1>3, NumberedType DEF AddToNextBatch
<1>4. CASE AddFutureToNextBatch
  <2>1. [Numbered EXCEPT !.obj = nextObjectId] \in Op
        /\ [Numbered EXCEPT !.obj = nextObjectId].n = issued + 1
    BY NumberedType DEF Op, TypeOK
  <2> QED BY <1>2, <1>4, <2>1 DEF AddFutureToNextBatch
<1>5. CASE EndNextBatch
  <2> DEFINE t == Append(nextBatch, Numbered)
  <2>1. t \in Seq(Op)
    BY NumberedType, AppendProperties
  <2>2. From(t, performed + Len(gl.copy) + Len(backlog)) /\ Len(t) = Len(nextBatch) + 1
    BY <1>0, <1>5, NumberedType, FromAppend, SMTT(30) DEF EndNextBatch
  <2> DEFINE c == performed + Len(gl.copy)
  <2>c. c \in Nat /\ From(backlog, c) /\ From(t, c + Len(backlog))
    BY <1>0, <2>2
  <2> HIDE DEF t, c
  <2>d. From(backlog \o t, c) /\ Len(backlog \o t) = Len(backlog) + Len(t)
    BY <2>c, <2>1, FromConcat
  <2>3. From(backlog \o t, performed + Len(gl.copy)) /\ Len(backlog \o t) = Len(backlog) + Len(t)
    BY <2>d DEF c
  <2>4. backlog' = backlog \o t /\ nextBatch' = <<>>
        /\ UNCHANGED <<gl, performed, context>> /\ issued' = issued + 1
    BY <1>5 DEF EndNextBatch, t
  <2> QED BY <1>0, <1>00, <1>5, <2>2, <2>3, <2>4, SMTT(30) DEF Numbering, From, EndNextBatch
<1>6. CASE Swap
  <2>1. gl.copy = <<>> /\ gl'.copy = backlog /\ backlog' = <<>> /\ nextBatch' = nextBatch
        /\ UNCHANGED <<issued, performed, context>>
    BY <1>6 DEF Swap, Phase, GLThread
  <2> QED BY <1>0, <1>00, <2>1 DEF Numbering, From
<1>7. CASE Perform
  <2>1. gl.copy # <<>> /\ gl'.copy = Tail(gl.copy) /\ UNCHANGED <<backlog, nextBatch, issued, context>>
    BY <1>7 DEF Perform, GLThread, queueVars
  <2>2. From(Tail(gl.copy), performed + 1) /\ Len(Tail(gl.copy)) = Len(gl.copy) - 1
    BY <1>0, <2>1, FromTail
  <2>3. performed' = performed + 1
    BY <1>7, PerformLine
  <2> DEFINE k == Len(gl.copy)
             l == Len(gl'.copy)
  <2>4. k \in Nat /\ l = k - 1
    BY <2>1, <2>2
  <2> HIDE DEF k, l
  <2>5. performed' + l = performed + k
    BY <2>3, <2>4
  <2> USE DEF k, l
  <2>6. /\ From(gl'.copy, performed') /\ From(backlog', performed' + Len(gl'.copy))
        /\ From(nextBatch', performed' + Len(gl'.copy) + Len(backlog'))
    BY <1>0, <2>1, <2>2, <2>3, <2>5
  <2>7. /\ performed' + Len(gl'.copy) + Len(backlog') + Len(nextBatch') <= issued'
        /\ context' = "live"
             => performed' + Len(gl'.copy) + Len(backlog') + Len(nextBatch') = issued'
    BY <1>0, <2>1, <2>5
  <2> QED BY <2>6, <2>7 DEF Numbering, From
<1>8. CASE EndDestroy \/ DestroyAndroid
  <2>1. /\ gl'.copy = gl.copy /\ nextBatch' = <<>> /\ backlog' = <<>> /\ context' # "live"
        /\ UNCHANGED <<issued, performed>>
    BY <1>8, DeleteLine
  <2>2. /\ From(gl'.copy, performed') /\ From(backlog', performed' + Len(gl'.copy))
        /\ From(nextBatch', performed' + Len(gl'.copy) + Len(backlog'))
    BY <1>0, <1>00, <2>1
  <2>3. performed' + Len(gl'.copy) + Len(backlog') + Len(nextBatch') <= issued'
    BY <1>0, <1>00, <2>1
  <2> QED BY <2>1, <2>2, <2>3 DEF Numbering, From
<1>9. CASE QuietNext
  BY <1>0, <1>9, QuietActions DEF Numbering, From, Quiet
<1> QED BY NextCases, <1>1, <1>3, <1>4, <1>5, <1>6, <1>7, <1>8, <1>9

LEMMA WaitingStep ==
  ASSUME TypeOK, Numbering, Phase, Waiting, [Next]_vars
  PROVE  Waiting'
<1> USE TypedQueues
<1>0. \A op \in Line : op \in Op /\ op.n > performed /\ op.n <= issued
  BY LineNumbers
<1>1. CASE Create
  <2>1. Line' = {[kind |-> "init", obj |-> 0, n |-> 1]} /\ js' = js /\ performed' = performed
        /\ issued = 0 /\ issued' = 1
    BY <1>1, CreateLine DEF Create, Phase
  <2> QED BY <2>1 DEF Waiting
<1>2. CASE AddToNextBatch
  <2>1. Adds(Numbered) /\ Numbered.kind # "get"
    BY <1>2, AddToNextBatchLine, NumberedType DEF AddToNextBatch
  <2>2. js.pc = "method" /\ js'.pc = "idle" /\ js'.gl = js.gl
    BY <1>2 DEF AddToNextBatch, JSThread
  <2> QED BY <2>1, <2>2 DEF Waiting, Adds
<1>3. CASE AddFutureToNextBatch
  <2> DEFINE op == [Numbered EXCEPT !.obj = nextObjectId]
  <2>1. Adds(op) /\ op.kind = "create"
    BY <1>3, AddFutureLine
  <2>2. js.pc = "method" /\ js'.pc = "idle"
    BY <1>3 DEF AddFutureToNextBatch, JSThread
  <2> HIDE DEF op
  <2> QED BY <2>1, <2>2 DEF Waiting, Adds
<1>4. CASE EndNextBatch
  <2>1. Adds(Numbered)
    BY <1>4, EndNextBatchLine
  <2>2. /\ js.pc = "method" /\ js'.pc = "flush" /\ js'.op = Numbered /\ js'.done = js.done
        /\ js'.gl = js.gl
    BY <1>4 DEF EndNextBatch, JSThread
  <2>3. Numbered.n \in 1..issued'
    BY <2>1 DEF Adds
  <2> QED BY <2>1, <2>2, <2>3 DEF Waiting, Adds
<1>5. CASE Swap
  BY <1>5, SwapLine DEF Waiting, Swap
<1>6. CASE Perform
  <2> DEFINE op == Head(gl.copy)
  <2>1. /\ op \in Line /\ Line' \subseteq Line /\ op.n = performed + 1 /\ performed' = op.n
        /\ issued' = issued
    BY <1>6, PerformLine DEF Perform, queueVars
  <2>2. CASE op.kind = "get"
    <3>1. js' = [js EXCEPT !.done = TRUE]
      BY <1>6, <2>2 DEF Perform
    <3>2. js'.pc = js.pc /\ js'.op = js.op /\ js'.gl = js.gl
      BY <3>1 DEF JSThread
    <3>3. js.pc \in {"flush", "wait"} /\ js.op.kind = "get" /\ js.op.n = op.n
      BY <2>1, <2>2 DEF Waiting
    <3> HIDE DEF op
    <3> QED BY <2>1, <3>2, <3>3 DEF Waiting
  <2>3. CASE op.kind # "get"
    <3>1. js' = js
      BY <1>6, <2>3 DEF Perform
    <3> HIDE DEF op
    <3>2. js.op.n <= performed => js.op.n <= performed'
      BY <2>1 DEF JSThread, Op
    <3> QED BY <2>1, <3>1, <3>2 DEF Waiting
  <2> QED BY <2>2, <2>3
<1>7. CASE EndDestroy \/ DestroyAndroid
  BY <1>7, DeleteLine DEF Waiting
<1>8. CASE QuietNext
  <2>1. Line' = Line /\ issued' = issued /\ performed' = performed
    BY <1>8, QuietActions, QuietLine DEF Quiet
  <2>2. CASE EnterMethod
    <3>1. js.pc = "idle" /\ js'.pc = "method" /\ ~js'.done /\ js'.gl = js.gl
      BY <2>2 DEF EnterMethod, Enter, JSThread
    <3> QED BY <2>1, <3>1 DEF Waiting
  <2>3. CASE MethodOfDeleted
    <3>1. js.pc = "method" /\ js'.pc \in {"hung", "idle"} /\ js'.gl = js.gl
      BY <2>3 DEF MethodOfDeleted, JSThread
    <3> QED BY <2>1, <3>1 DEF Waiting
  <2>4. CASE FlushOnGLThread
    <3>1. /\ js.pc = "flush" /\ js'.gl = js.gl /\ js'.op = js.op /\ js'.done = js.done
          /\ js'.pc = IF js.op.kind = "get" THEN "wait" ELSE "idle"
      BY <2>4 DEF FlushOnGLThread, JSThread
    <3> QED BY <2>1, <3>1 DEF Waiting
  <2>5. CASE Return
    <3>1. /\ js.pc = "wait" /\ js.done /\ js'.pc = "idle"
      BY <2>5 DEF Return, JSThread
    <3>2. js.op.n \in 1..issued /\ js.op.n <= performed
      BY <3>1 DEF Waiting
    <3>3. \A op \in Line : op.kind # "get"
      BY <1>0, <3>1, <3>2 DEF Waiting
    <3> QED BY <2>1, <3>1, <3>2, <3>3 DEF Waiting
  <2>6. CASE js' = js
    BY <2>1, <2>6 DEF Waiting
  <2> QED
    BY <1>8, <2>2, <2>3, <2>4, <2>5, <2>6
    DEF QuietNext, TakeEvent, EndFlush, Stop, UIStep, Draw, DrawEnded, DestroyIOS, NativeCreate,
        NativeMap, NativeDestroy, vars
<1> QED BY NextCases, <1>1, <1>2, <1>3, <1>4, <1>5, <1>6, <1>7, <1>8

LEMMA VersionStep ==
  ASSUME TypeOK, Numbering, Phase, Waiting, Version, [Next]_vars
  PROVE  Version'
<1> USE TypedQueues
<1>1. CASE Create
  <2>1. Line' = {[kind |-> "init", obj |-> 0, n |-> 1]} /\ js' = js /\ performed' = 0 /\ performed = 0
    BY <1>1, CreateLine DEF Create, Phase
  <2> QED BY <2>1 DEF Version
<1>2. ASSUME NEW op, Adds(op), js'.gl = js.gl, supports' = supports
      PROVE  Version'
  <2>1. op.n # 1
    BY <1>2 DEF Adds, Phase
  <2> QED BY <1>2, <2>1 DEF Version, Adds
<1>3. CASE AddToNextBatch
  BY <1>2, <1>3, AddToNextBatchLine DEF AddToNextBatch, JSThread, flagVars
<1>4. CASE AddFutureToNextBatch
  <2>1. js'.gl = js.gl /\ supports' = supports
    BY <1>4 DEF AddFutureToNextBatch, JSThread, flagVars
  <2> QED BY <1>2, <1>4, <2>1, AddFutureLine
<1>5. CASE EndNextBatch
  <2>1. js'.gl = js.gl /\ supports' = supports
    BY <1>5 DEF EndNextBatch, JSThread, flagVars
  <2> QED BY <1>2, <1>5, <2>1, EndNextBatchLine
<1>6. CASE Swap
  BY <1>6, SwapLine DEF Version, Swap, flagVars
<1>7. CASE Perform
  <2> DEFINE op == Head(gl.copy)
  <2>1. /\ op \in Line /\ Line' \subseteq Line /\ op.n = performed + 1 /\ performed' = op.n
    BY <1>7, PerformLine
  <2>2. js'.gl = js.gl /\ context' = context
        /\ supports' = (supports \/ (context = "live" /\ op.kind = "init"))
    BY <1>7 DEF Perform, JSThread
  <2> HIDE DEF op
  <2>3. performed' >= 1
    BY <2>1
  <2>4. context' = "live" => supports'
    <3>1. CASE performed >= 1
      BY <2>2, <3>1 DEF Version
    <3>2. CASE ~(performed >= 1)
      <4>1. op.n = 1
        BY <2>1, <3>2
      <4>2. op.kind = "init"
        BY <2>1, <4>1 DEF Version
      <4> QED BY <2>2, <4>2
    <3> QED BY <3>1, <3>2
  <2> QED BY <2>1, <2>3, <2>4 DEF Version
<1>8. CASE EndDestroy \/ DestroyAndroid
  BY <1>8, DeleteLine DEF Version
<1>9. CASE QuietNext
  <2>1. Line' = Line /\ performed' = performed /\ context' = context
    BY <1>9, QuietActions, QuietLine DEF Quiet
  <2>2. supports' = supports
    BY <1>9
    DEF QuietNext, EnterMethod, Enter, MethodOfDeleted, FlushOnGLThread, Return, TakeEvent,
        EndFlush, Stop, UIStep, Draw, DrawEnded, DestroyIOS, NativeCreate, NativeMap,
        NativeDestroy, vars, flagVars
  <2>3. js'.gl = js.gl \/ Return
    BY <1>9
    DEF QuietNext, EnterMethod, Enter, MethodOfDeleted, FlushOnGLThread, TakeEvent,
        EndFlush, Stop, UIStep, Draw, DrawEnded, DestroyIOS, NativeCreate, NativeMap,
        NativeDestroy, vars, JSThread
  <2>4. Return => performed >= 1
    BY DEF Return, Waiting
  <2> QED BY <2>1, <2>2, <2>3, <2>4 DEF Version
<1> QED BY NextCases, <1>1, <1>3, <1>4, <1>5, <1>6, <1>7, <1>8, <1>9

LEMMA IdsStep ==
  ASSUME TypeOK, Numbering, Phase, Ids, Futures, [Next]_vars
  PROVE  Ids'
<1> USE TypedQueues
<1>0. nextObjectId \in Nat /\ objects \subseteq Nat /\ native \subseteq Nat /\ futures \subseteq Nat
  BY DEF TypeOK
<1>00. nextObjectId \notin objects \cup native \cup futures
  BY <1>0 DEF Ids
<1>1. CASE Create
  <2>1. Line' = {[kind |-> "init", obj |-> 0, n |-> 1]} /\ UNCHANGED <<js, objectVars>>
    BY <1>1, CreateLine DEF Create
  <2> QED BY <2>1 DEF Ids, objectVars
<1>2. CASE AddToNextBatch
  <2>1. Adds(Numbered) /\ Numbered.kind = js.op.kind /\ Numbered.obj = js.op.obj
    BY <1>2, AddToNextBatchLine, NumberedType
  <2>2. js.pc = "method" /\ js'.pc = "idle" /\ UNCHANGED objectVars
    BY <1>2 DEF AddToNextBatch, JSThread
  <2> QED BY <2>1, <2>2 DEF Ids, Adds, objectVars
<1>3. CASE AddFutureToNextBatch
  <2> DEFINE op == [Numbered EXCEPT !.obj = nextObjectId]
  <2>1. Adds(op) /\ op.kind = "create"
    BY <1>3, AddFutureLine
  <2>2. /\ js'.pc = "idle" /\ nextObjectId' = nextObjectId + 1
        /\ futures' = futures \cup {nextObjectId} /\ UNCHANGED <<objects, native>>
    BY <1>3 DEF AddFutureToNextBatch, JSThread
  <2> HIDE DEF op
  <2>3. \A obj \in (objects \cup native \cup futures)' : obj < nextObjectId'
    BY <1>0, <2>2 DEF Ids
  <2>4. (native \cap futures)' = {}
    BY <1>00, <2>2 DEF Ids
  <2>5. \A x \in Line' : x.kind = "bind" => x.obj < nextObjectId'
    <3>1. \A x \in Line : x.kind = "bind" => x.obj < nextObjectId /\ x.obj \in Nat
      BY LineNumbers DEF Ids, Op
    <3> QED BY <1>0, <2>1, <2>2, <3>1 DEF Adds
  <2> QED BY <1>0, <2>2, <2>3, <2>4, <2>5 DEF Ids
<1>4. CASE EndNextBatch
  <2>1. Adds(Numbered) /\ Numbered.kind # "bind"
    BY <1>4, EndNextBatchLine, NumberedType DEF EndNextBatch
  <2>2. js'.pc = "flush" /\ UNCHANGED objectVars
    BY <1>4 DEF EndNextBatch, JSThread
  <2> QED BY <2>1, <2>2 DEF Ids, Adds, objectVars
<1>5. CASE Swap
  BY <1>5, SwapLine DEF Ids, Swap, objectVars
<1>6. CASE Perform
  <2>1. Head(gl.copy) \in Line /\ Line' \subseteq Line
    BY <1>6, PerformLine
  <2>2. js'.pc = js.pc /\ js'.op = js.op /\ UNCHANGED <<nextObjectId, native, futures>>
    BY <1>6 DEF Perform, JSThread
  <2>3. objects' \subseteq objects \cup {Head(gl.copy).obj}
        /\ (objects' # objects => Head(gl.copy).kind = "create")
    BY <1>6 DEF Perform
  <2>4. objects' \subseteq objects \cup futures
    BY <2>1, <2>3 DEF Futures
  <2> QED BY <2>1, <2>2, <2>4 DEF Ids
<1>7. CASE EndDestroy \/ DestroyAndroid
  BY <1>7, DeleteLine DEF Ids
<1>8. CASE QuietNext
  <2>1. Line' = Line
    BY <1>8, QuietActions, QuietLine
  <2>2. CASE EnterMethod
    <3>1. UNCHANGED <<nextObjectId, objects, native, futures>>
      BY <2>2 DEF EnterMethod, Enter, objectVars
    <3>2. ASSUME NEW kind, NEW obj, Enter(kind, obj)
          PROVE  js'.op.kind = kind /\ js'.op.obj = obj
      BY <3>2 DEF Enter, JSThread
    <3>3. js'.op.kind = "bind" => js'.op.obj < nextObjectId
      BY <1>0, <2>2, <3>2 DEF EnterMethod
    <3> QED BY <2>1, <3>1, <3>3 DEF Ids
  <2>3. CASE MethodOfDeleted \/ FlushOnGLThread \/ Return
    <3>1. UNCHANGED objectVars /\ js'.pc # "method"
      BY <2>3 DEF MethodOfDeleted, FlushOnGLThread, Return, JSThread
    <3> QED BY <2>1, <3>1 DEF Ids, objectVars
  <2>4. CASE NativeCreate
    <3>1. /\ nextObjectId' = nextObjectId + 1 /\ native' = native \cup {nextObjectId}
          /\ UNCHANGED <<js, objects, futures>>
      BY <2>4 DEF NativeCreate
    <3>2. \A obj \in (objects \cup native \cup futures)' : obj < nextObjectId'
      BY <1>0, <3>1 DEF Ids
    <3>3. (native \cap futures)' = {}
      BY <1>00, <3>1 DEF Ids
    <3>4. \A x \in Line' : x.kind = "bind" => x.obj < nextObjectId'
      <4>1. \A x \in Line : x.kind = "bind" => x.obj < nextObjectId /\ x.obj \in Nat
        BY LineNumbers DEF Ids, Op
      <4> QED BY <1>0, <2>1, <3>1, <4>1
    <3>5. js'.pc = "method" /\ js'.op.kind = "bind" => js'.op.obj < nextObjectId'
      <4>1. js.op.obj \in Nat
        BY DEF JSThread, Op
      <4> QED BY <1>0, <3>1, <4>1 DEF Ids
    <3> QED BY <1>0, <3>1, <3>2, <3>3, <3>4, <3>5 DEF Ids
  <2>5. ASSUME NEW obj \in native, NativeMap(obj) \/ NativeDestroy(obj) PROVE Ids'
    BY <1>0, <2>1, <2>5 DEF Ids, NativeMap, NativeDestroy
  <2>6. CASE TakeEvent \/ EndFlush \/ Stop \/ UIStep \/ DestroyIOS \/ UNCHANGED vars
    <3>1. UNCHANGED <<js, nextObjectId, objects, native, futures>>
      BY <2>6 DEF TakeEvent, EndFlush, Stop, UIStep, Draw, DrawEnded, DestroyIOS, vars, objectVars
    <3> QED BY <2>1, <3>1 DEF Ids
  <2> QED BY <1>8, <2>2, <2>3, <2>4, <2>5, <2>6 DEF QuietNext
<1> QED BY NextCases, <1>1, <1>2, <1>3, <1>4, <1>5, <1>6, <1>7, <1>8

\* a command that creates nothing, and uses an object that is there or will be
LEMMA FuturesAdd ==
  ASSUME TypeOK, Numbering, Futures, NEW op, Adds(op), op.kind # "create",
         UNCHANGED <<objects, futures>>
  PROVE  Futures'
<1>0. \A x \in Line : x \in Op /\ x.n <= issued
  BY LineNumbers
<1>1. \A use \in Line' : use.kind = "bind" /\ use.obj \in futures \ objects
        => \E x \in Line : Creates(x, use.obj) /\ x.n < use.n
  <2> SUFFICES ASSUME NEW use \in Line', use.kind = "bind", use.obj \in futures \ objects
               PROVE  \E x \in Line : Creates(x, use.obj) /\ x.n < use.n
    OBVIOUS
  <2>1. CASE use \in Line
    BY <2>1 DEF Futures, Adds
  <2>2. CASE use = op
    <3>1. PICK x \in Line : Creates(x, use.obj)
      BY DEF Futures, Adds
    <3>2. x.n < use.n
      BY <1>0, <2>2, TypedQueues DEF Adds, Op
    <3> QED BY <3>1, <3>2
  <2> QED BY <2>1, <2>2 DEF Adds
<1>2. \A obj \in futures \ objects : \E x \in Line : Creates(x, obj)
  BY DEF Futures, Adds
<1>3. Line \subseteq Line' /\ \A x \in Line' : x.kind = "create" => x \in Line
  BY DEF Adds
<1>4. /\ \A x \in Line' : x.kind = "create" => x.obj \in futures' /\ x.obj \notin objects'
      /\ \A op1, op2 \in Line' : op1.kind = "create" /\ Creates(op2, op1.obj) => op1 = op2
  BY <1>3 DEF Futures, Creates
<1>5. /\ \A obj \in (futures \ objects)' : \E x \in Line' : Creates(x, obj)
      /\ \A use \in Line' : use.kind = "bind" /\ use.obj \in (futures \ objects)'
           => \E x \in Line' : Creates(x, use.obj) /\ x.n < use.n
  BY <1>1, <1>2, <1>3
<1> QED BY <1>4, <1>5 DEF Futures, Creates, Adds

LEMMA FuturesStep ==
  ASSUME TypeOK, Numbering, Phase, Ids, Futures, [Next]_vars
  PROVE  Futures'
<1> USE TypedQueues
<1>0. nextObjectId \in Nat /\ objects \subseteq Nat /\ native \subseteq Nat /\ futures \subseteq Nat
  BY DEF TypeOK
<1>00. nextObjectId \notin objects \cup native \cup futures
  BY <1>0 DEF Ids
<1>1. CASE Create
  <2>1. futures = {} /\ UNCHANGED <<objects, futures>>
    BY <1>1 DEF Create, objectVars, Phase, Futures
  <2>2. Line' = {[kind |-> "init", obj |-> 0, n |-> 1]}
    BY <1>1, CreateLine
  <2> QED BY <2>1, <2>2 DEF Futures, Creates
<1>2. CASE AddToNextBatch
  <2>1. Adds(Numbered) /\ Numbered.kind # "create" /\ UNCHANGED <<objects, futures>>
    BY <1>2, AddToNextBatchLine, NumberedType DEF AddToNextBatch, objectVars
  <2> QED BY <2>1, FuturesAdd
<1>3. CASE AddFutureToNextBatch
  <2> DEFINE op == [Numbered EXCEPT !.obj = nextObjectId]
  <2>1. Adds(op) /\ op.kind = "create" /\ op.obj = nextObjectId
    BY <1>3, AddFutureLine
  <2>2. futures' = futures \cup {nextObjectId} /\ objects' = objects
    BY <1>3 DEF AddFutureToNextBatch
  <2> HIDE DEF op
  <2>3. Line' = Line \cup {op} /\ context = "live" /\ context' = "live"
    BY <2>1 DEF Adds
  <2>4. \A x \in Line' : x.kind = "create" => x.obj \in futures' /\ x.obj \notin objects'
    BY <1>00, <2>1, <2>2, <2>3 DEF Futures
  <2>5. \A op1, op2 \in Line' : op1.kind = "create" /\ op2.kind = "create" /\ op2.obj = op1.obj
          => op1 = op2
    <3>1. \A x \in Line : x.kind = "create" => x.obj # nextObjectId
      BY <1>00 DEF Futures
    <3>2. \A op1, op2 \in Line : op1.kind = "create" /\ op2.kind = "create" /\ op2.obj = op1.obj
            => op1 = op2
      BY DEF Futures, Creates
    <3> QED BY <2>1, <2>3, <3>1, <3>2
  <2>6. \A obj \in futures' \ objects' : \E x \in Line' : x.kind = "create" /\ x.obj = obj
    BY <2>1, <2>2, <2>3 DEF Futures, Creates
  <2>7. \A use \in Line' : use.kind = "bind" /\ use.obj \in futures' \ objects'
          => \E x \in Line' : x.kind = "create" /\ x.obj = use.obj /\ x.n < use.n
    <3>1. \A use \in Line' : use.kind = "bind" => use \in Line /\ use.obj # nextObjectId
      <4>1. \A use \in Line : use.kind = "bind" => use.obj < nextObjectId
        BY DEF Ids
      <4> QED BY <1>0, <2>1, <2>3, <4>1
    <3> QED BY <2>2, <2>3, <3>1 DEF Futures, Creates
  <2> QED BY <2>3, <2>4, <2>5, <2>6, <2>7 DEF Futures, Creates
<1>4. CASE EndNextBatch
  <2>1. Adds(Numbered) /\ Numbered.kind # "create" /\ UNCHANGED <<objects, futures>>
    BY <1>4, EndNextBatchLine, NumberedType DEF EndNextBatch, objectVars
  <2> QED BY <2>1, FuturesAdd
<1>5. CASE Swap
  <2>1. Line' = Line /\ UNCHANGED <<context, objects, futures>>
    BY <1>5, SwapLine DEF Swap, objectVars
  <2> QED BY <2>1 DEF Futures, Creates
<1>6. CASE Perform
  <2> DEFINE op == Head(gl.copy)
  <2>1. /\ op \in Line /\ Line' \subseteq Line /\ Line \subseteq Line' \cup {op} /\ op \notin Line'
    BY <1>6, PerformLine
  <2>2. UNCHANGED <<context, futures>>
        /\ objects' = IF context = "live" /\ op.kind = "create" THEN objects \cup {op.obj} ELSE objects
    BY <1>6 DEF Perform
  <2> HIDE DEF op
  <2>3. \A x \in Line' : x.kind = "create" => x.obj \in futures /\ x.obj \notin objects'
    <3>1. \A x \in Line' : x.kind = "create" /\ op.kind = "create" => x.obj # op.obj
      BY <2>1 DEF Futures, Creates
    <3> QED BY <2>1, <2>2, <3>1 DEF Futures
  <2>4. \A op1, op2 \in Line' : op1.kind = "create" /\ op2.kind = "create" /\ op2.obj = op1.obj
          => op1 = op2
    BY <2>1 DEF Futures, Creates
  <2>5. ASSUME context = "live", NEW x \in Line, x.kind = "create", x.obj \notin objects'
        PROVE  x \in Line'
    BY <2>1, <2>2, <2>5
  <2>6. context = "live" => \A obj \in futures \ objects' :
          \E x \in Line' : x.kind = "create" /\ x.obj = obj
    <3> SUFFICES ASSUME context = "live", NEW obj \in futures \ objects'
                 PROVE  \E x \in Line' : x.kind = "create" /\ x.obj = obj
      OBVIOUS
    <3>1. obj \in futures \ objects
      BY <2>2
    <3>2. PICK x \in Line : x.kind = "create" /\ x.obj = obj
      BY <3>1 DEF Futures, Creates
    <3> QED BY <2>5, <3>2
  <2>7. context = "live" => \A use \in Line' : use.kind = "bind" /\ use.obj \in futures \ objects'
          => \E x \in Line' : x.kind = "create" /\ x.obj = use.obj /\ x.n < use.n
    <3> SUFFICES ASSUME context = "live", NEW use \in Line', use.kind = "bind",
                        use.obj \in futures \ objects'
                 PROVE  \E x \in Line' : x.kind = "create" /\ x.obj = use.obj /\ x.n < use.n
      OBVIOUS
    <3>1. use \in Line /\ use.obj \in futures \ objects
      BY <2>1, <2>2
    <3>2. PICK x \in Line : x.kind = "create" /\ x.obj = use.obj /\ x.n < use.n
      BY <3>1 DEF Futures, Creates
    <3> QED BY <2>5, <3>2
  <2> QED BY <2>2, <2>3, <2>4, <2>6, <2>7 DEF Futures, Creates
<1>7. CASE EndDestroy \/ DestroyAndroid
  <2>1. Line' \subseteq Line /\ context' # "live" /\ objects' = {} /\ futures' = futures
    BY <1>7, DeleteLine
  <2>2. context' = "none" => context = "none"
    BY <1>7 DEF EndDestroy, DestroyAndroid, Delete
  <2> QED BY <2>1, <2>2 DEF Futures, Creates
<1>8. CASE QuietNext
  <2>1. Line' = Line /\ context' = context
    BY <1>8, QuietActions, QuietLine DEF Quiet
  <2>2. ASSUME NEW obj \in native, NativeMap(obj) \/ NativeDestroy(obj)
        PROVE  futures' = futures /\ objects' \subseteq objects \cup native
               /\ objects \subseteq objects' \cup native
    BY <2>2 DEF NativeMap, NativeDestroy
  <2>3. futures' = futures /\ objects' \subseteq objects \cup native
        /\ objects \subseteq objects' \cup native
    <3>1. CASE \E obj \in native : NativeMap(obj) \/ NativeDestroy(obj)
      BY <2>2, <3>1
    <3>2. CASE UNCHANGED <<objects, futures>>
      BY <3>2
    <3> QED
      BY <1>8, <3>1, <3>2
      DEF QuietNext, EnterMethod, Enter, MethodOfDeleted, FlushOnGLThread, Return, TakeEvent,
          EndFlush, Stop, UIStep, Draw, DrawEnded, DestroyIOS, NativeCreate, vars, objectVars
  <2>4. futures \ objects' = futures \ objects
    BY <2>3 DEF Ids
  <2> QED BY <2>1, <2>3, <2>4 DEF Futures, Creates
<1> QED BY NextCases, <1>1, <1>2, <1>3, <1>4, <1>5, <1>6, <1>7, <1>8

-----------------------------------------------------------------------------
LEMMA InitInv == Init => IInv
<1> SUFFICES ASSUME Init PROVE IInv
  OBVIOUS
<1>1. TypeOK
  BY TypeInit
<1>2. gl.copy = <<>> /\ backlog = <<>> /\ nextBatch = <<>> /\ issued = 0 /\ performed = 0
      /\ context = "none" /\ gl.pc = "ready"
  BY DEF Init
<1>3. Line = {}
  BY <1>2, ElementsEmpty DEF Line
<1>4. Phase /\ Waiting /\ Version /\ Ids /\ Futures
  BY <1>2, <1>3 DEF Init, Phase, Waiting, Version, Ids, Futures, NoOp
<1>5. Numbering
  BY <1>2, EmptySeq, FromEmpty DEF Numbering
<1> QED BY <1>1, <1>4, <1>5 DEF IInv

LEMMA NextInv == IInv /\ [Next]_vars => IInv'
BY TypeStep, PhaseStep, NumberingStep, WaitingStep, VersionStep, IdsStep, FuturesStep DEF IInv

\* The inductive invariant: it holds in every reachable state.
THEOREM Inductive == Spec => []IInv
BY InitInv, NextInv, PTL DEF Spec

\* The type invariant of the context, for any number of commands, objects and destructions.
THEOREM TypeCorrect == Spec => []TypeOK
<1>1. IInv => TypeOK
  BY DEF IInv
<1> QED BY <1>1, Inductive, PTL

\* An app that has its gl object never finds supportsWebGL2 unset while the context exists
\* (getGl waits for the first answer; the constructor's command is performed before it).
THEOREM VersionKnown == Spec => []VersionIsKnown
<1>1. IInv => VersionIsKnown
  BY DEF IInv, Version, VersionIsKnown
<1> QED BY <1>1, Inductive, PTL

\* The id of a future is not mapped before its command is performed, whatever native code does
\* with ids of the same counter (the assert in addFutureToNextBatch).
THEOREM FutureUnmapped == Spec => []FutureIsUnmapped
<1>1. ASSUME IInv PROVE FutureIsUnmapped
  <2> SUFFICES ASSUME gl.copy # <<>>, Head(gl.copy).kind = "create"
               PROVE  Head(gl.copy).obj \notin objects
    BY DEF FutureIsUnmapped
  <2>1. gl.copy \in Seq(Op)
    BY <1>1, TypedQueues DEF IInv
  <2>2. Head(gl.copy) \in Line
    BY <2>1, ElementsTail DEF Line
  <2> QED BY <1>1, <2>2 DEF IInv, Futures
<1> QED BY <1>1, Inductive, PTL

\* A command finds the object that an earlier command creates, however the commands were cut
\* into batches and flushes.
THEOREM FuturesResolved == Spec => []FuturesAreResolved
<1>1. ASSUME IInv PROVE FuturesAreResolved
  <2> DEFINE op == Head(gl.copy)
  <2> SUFFICES ASSUME gl.copy # <<>>, context = "live", op.kind = "bind", op.obj \in futures,
                      op.obj \notin objects
               PROVE  FALSE
    BY DEF FuturesAreResolved
  <2>1. gl.copy \in Seq(Op) /\ performed \in Nat
    BY <1>1, TypedQueues DEF IInv
  <2>2. op \in Line
    BY <2>1, ElementsTail DEF Line
  <2>3. From(gl.copy, performed)
    BY <1>1 DEF IInv, Numbering
  <2>4. op.n = performed + 1
    BY <2>1, <2>3, FromTail
  <2>5. PICK x \in Line : x.n < op.n
    BY <1>1, <2>2 DEF IInv, Futures
  <2>6. x.n > performed /\ x \in Op
    BY <1>1, LineNumbers DEF IInv
  <2> QED BY <2>1, <2>4, <2>5, <2>6 DEF Op
<1> QED BY <1>1, Inductive, PTL

-----------------------------------------------------------------------------
(***************************************************************************)
(* Every step of a context is a step of GLCommands or leaves it as it is.  *)
(***************************************************************************)
Awaited == IF js.pc \in {"flush", "wait"} /\ js.op.kind = "get" THEN js.op.n ELSE 0

LEMMA Same ==
  ASSUME UNCHANGED <<context, issued, performed>>, Awaited' = Awaited
  PROVE  UNCHANGED Commands!vars
BY DEF Commands!vars, Awaited

LEMMA RefinesStep ==
  ASSUME IInv, [Next]_vars
  PROVE  [Commands!Next]_(Commands!vars)
<1> USE TypedQueues DEF IInv
<1>1. CASE Create
  <2>1. /\ context = "none" /\ context' = "live" /\ issued = 0 /\ issued' = 1
        /\ performed' = performed /\ js' = js
    BY <1>1 DEF Create, Phase
  <2> QED BY <2>1 DEF Commands!Next, Commands!Open
<1>2. CASE AddToNextBatch \/ AddFutureToNextBatch
  <2>1. /\ context = "live" /\ issued' = issued + 1 /\ UNCHANGED <<context, performed>>
        /\ js.pc = "method" /\ js'.pc = "idle"
    BY <1>2 DEF AddToNextBatch, AddFutureToNextBatch, JSThread
  <2> QED BY <2>1 DEF Commands!Next, Commands!Issue
<1>3. CASE EndNextBatch
  <2>1. /\ context = "live" /\ issued' = issued + 1 /\ UNCHANGED <<context, performed>>
        /\ js.pc = "method" /\ js'.pc = "flush" /\ js'.op = Numbered
    BY <1>3 DEF EndNextBatch, JSThread
  <2>2. Numbered.n = issued + 1
    BY NumberedType
  <2>3. CASE Numbered.kind = "get"
    BY <2>1, <2>2, <2>3 DEF Commands!Next, Commands!IssueAndWait
  <2>4. CASE Numbered.kind # "get"
    BY <2>1, <2>4 DEF Commands!Next, Commands!Issue
  <2> QED BY <2>3, <2>4
<1>4. CASE Return
  <2>1. /\ js.pc = "wait" /\ js.done /\ js'.pc = "idle"
        /\ UNCHANGED <<context, issued, performed>>
    BY <1>4 DEF Return, JSThread, queueVars
  <2>2. js.op.kind = "get" /\ js.op.n \in 1..issued /\ js.op.n <= performed
    BY <2>1 DEF Waiting
  <2> QED BY <2>1, <2>2 DEF Commands!Next, Commands!Return
<1>5. CASE Perform
  <2>1. performed < issued /\ performed' = performed + 1
    BY <1>5, PerformLine
  <2>2. UNCHANGED <<context, issued>> /\ js'.pc = js.pc /\ js'.op = js.op
    BY <1>5 DEF Perform, JSThread, queueVars
  <2> QED BY <2>1, <2>2 DEF Commands!Next, Commands!Perform
<1>6. CASE EndDestroy \/ DestroyAndroid
  <2>1. context' = IF context = "live" THEN "deleted" ELSE context
    BY <1>6 DEF EndDestroy, DestroyAndroid, Delete
  <2>2. UNCHANGED <<issued, performed, js>>
    BY <1>6, DeleteLine
  <2>3. CASE context = "live"
    BY <2>1, <2>2, <2>3 DEF Commands!Next, Commands!Close
  <2>4. CASE context # "live"
    BY <2>1, <2>2, <2>4, Same DEF Awaited
  <2> QED BY <2>3, <2>4
<1>7. CASE Swap
  <2>1. UNCHANGED <<context, issued, performed, js>>
    BY <1>7 DEF Swap
  <2> QED BY <2>1, Same DEF Awaited
<1>8. CASE QuietNext
  <2>1. UNCHANGED <<context, issued, performed>>
    BY <1>8, QuietActions DEF Quiet
  <2>2. CASE Return
    BY <1>4, <2>2
  <2>3. CASE EnterMethod
    <3>1. js.pc = "idle" /\ js'.pc = "method"
      BY <2>3 DEF EnterMethod, Enter, JSThread
    <3> QED BY <2>1, <3>1, Same DEF Awaited
  <2>4. CASE MethodOfDeleted
    <3>1. js.pc = "method" /\ js'.pc \in {"hung", "idle"}
      BY <2>4 DEF MethodOfDeleted, JSThread
    <3> QED BY <2>1, <3>1, Same DEF Awaited
  <2>5. CASE FlushOnGLThread
    <3>1. /\ js.pc = "flush" /\ js'.op = js.op
          /\ js'.pc = IF js.op.kind = "get" THEN "wait" ELSE "idle"
      BY <2>5 DEF FlushOnGLThread, JSThread
    <3> QED BY <2>1, <3>1, Same DEF Awaited
  <2>6. CASE js' = js
    BY <2>1, <2>6, Same DEF Awaited
  <2> QED
    BY <1>8, <2>2, <2>3, <2>4, <2>5, <2>6
    DEF QuietNext, TakeEvent, EndFlush, Stop, UIStep, Draw, DrawEnded, DestroyIOS, NativeCreate,
        NativeMap, NativeDestroy, vars
<1> QED BY NextCases, <1>1, <1>2, <1>3, <1>4, <1>5, <1>6, <1>7, <1>8

\* The context implements GLCommands: whatever the threads, batches and flushes do, its commands
\* are performed once and in order, and a blocking call returns after its own.
THEOREM Implementation == Spec => ImplementsCommands
<1>1. Init => Commands!Init
  BY DEF Init, Commands!Init
<1>2. IInv /\ [Next]_vars => [Commands!Next]_(Commands!vars)
  BY RefinesStep
<1> QED BY <1>1, <1>2, Inductive, PTL DEF Spec, ImplementsCommands, Commands!Spec
=============================================================================
