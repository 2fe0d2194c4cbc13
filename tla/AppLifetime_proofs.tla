--------------------------- MODULE AppLifetime_proofs -------------------------
(***************************************************************************)
(* The binding of the app (RuntimeBindings) holds for every set of threads *)
(* and of objects and any number of deletions and rebindings.  The life of *)
(* the service (AppLifetime) uses the bindings so, and what it promises    *)
(* its callers holds for any number of orchestrators, projects and         *)
(* threads, all settings, and any maintenance.                             *)
(***************************************************************************)
EXTENDS AppLifetime, TLAPS

\* ----------------------------------------------------------------- the bindings

\* Once settled, the app holds the object in every attribute that was not deleted, and
\* nothing else in the others until all were.
Kept ==
  settled =>
    /\ claim # NoBinding
    /\ \A a \in Attributes \ lost : attribute[a] = claim
    /\ lost # Attributes => \A a \in Attributes : attribute[a] \in {claim, NoBinding}

\* A rebinding that is not settled yet is where every resolution looks first.
Fresh ==
  claim # NoBinding /\ ~settled =>
    /\ lost = {}
    /\ attribute["state.binding"] = claim
    /\ \A w \in Threads : At(w, "reading") => resolver[w].next = 1

\* A resolution has passed over deleted attributes only.
Passed ==
  settled => \A w \in Threads : At(w, "reading") =>
    \A j \in 1..5 : j < resolver[w].next => ReadOrder[j] \in lost

\* What a resolution has written is still there if nobody could write something else.
Written ==
  \A w \in Threads : At(w, "writing") /\ (w \in solo \/ (claim # NoBinding /\ ~settled)) =>
    \A j \in 1..5 : j < resolver[w].next => attribute[WriteOrder[j]] = resolver[w].binding

Alone ==
  \A w \in solo : Resolving(w) /\ \A v \in Threads : Resolving(v) => v = w

BindingsInv ==
  BindingsTypeOK /\ Kept /\ Fresh /\ Passed /\ Written /\ Alone /\ BindingHolds

\* The two orders name the same five attributes; reading begins with the binding.
LEMMA Orders ==
  /\ Len(ReadOrder) = 5 /\ Len(WriteOrder) = 5
  /\ ReadOrder[1] = "state.binding"
  /\ \A j \in 1..5 : ReadOrder[j] \in Attributes /\ WriteOrder[j] \in Attributes
  /\ \A a \in Attributes : (\E j \in 1..5 : ReadOrder[j] = a) /\ (\E j \in 1..5 : WriteOrder[j] = a)
<1> DEFINE five == {"state.binding", "state._initial", "app._initial", "state._bootstrap",
                    "app._bootstrap"}
<1>1. /\ Len(ReadOrder) = 5 /\ ReadOrder[1] = "state.binding" /\ ReadOrder[2] = "state._initial"
      /\ ReadOrder[3] = "app._initial" /\ ReadOrder[4] = "state._bootstrap"
      /\ ReadOrder[5] = "app._bootstrap" /\ DOMAIN ReadOrder = 1..5
  BY DEF ReadOrder
<1>2. /\ Len(WriteOrder) = 5 /\ WriteOrder[1] = "app._initial" /\ WriteOrder[2] = "app._bootstrap"
      /\ WriteOrder[3] = "state.binding" /\ WriteOrder[4] = "state._initial"
      /\ WriteOrder[5] = "state._bootstrap"
  BY DEF WriteOrder
<1>3. \A j \in 1..5 : j = 1 \/ j = 2 \/ j = 3 \/ j = 4 \/ j = 5
  OBVIOUS
<1>4. Attributes = five
  BY <1>1, <1>3 DEF Attributes
<1>5. 1 \in 1..5 /\ 2 \in 1..5 /\ 3 \in 1..5 /\ 4 \in 1..5 /\ 5 \in 1..5
  OBVIOUS
<1> QED
  BY <1>1, <1>2, <1>3, <1>4, <1>5

\* What a thread is doing has one of four forms.
LEMMA Forms ==
  ASSUME BindingsTypeOK, NEW w \in Threads
  PROVE  /\ \/ At(w, "idle") /\ resolver[w] = Idle
            \/ At(w, "reading") /\ resolver[w].next \in 1..6
            \/ At(w, "writing") /\ resolver[w].next \in 1..5 /\ resolver[w].binding \in Bindings
            \/ At(w, "serving") /\ resolver[w].binding \in Bindings
         /\ At(w, "reading") => resolver[w].next \in 1..6
         /\ At(w, "writing") => resolver[w].next \in 1..5 /\ resolver[w].binding \in Bindings
<1>1. resolver[w] \in {Idle} \union {Reading(k) : k \in 1..6}
              \union {Writing(b, k) : b \in Bindings, k \in 1..5}
              \union {Serving(b) : b \in Bindings}
  BY Orders DEF BindingsTypeOK
<1>2. CASE resolver[w] = Idle
  BY <1>2 DEF At, Idle
<1>3. CASE resolver[w] \in {Reading(k) : k \in 1..6}
  BY <1>3 DEF At, Reading
<1>4. CASE resolver[w] \in {Writing(b, k) : b \in Bindings, k \in 1..5}
  BY <1>4 DEF At, Writing
<1>5. CASE resolver[w] \in {Serving(b) : b \in Bindings}
  BY <1>5 DEF At, Serving
<1> QED
  BY <1>1, <1>2, <1>3, <1>4, <1>5

LEMMA UnboundInv == Unbound => BindingsInv
<1> SUFFICES ASSUME Unbound PROVE BindingsInv
  OBVIOUS
<1>1. BindingsTypeOK
  <2>1. (attribute \in [Attributes -> Bindings \union {NoBinding}])
    BY DEF Unbound
  <2>2. settled \in BOOLEAN
    BY DEF Unbound
  <2> QED
    BY <2>1, <2>2 DEF Unbound, BindingsTypeOK, NoThread
<1>2. \A w \in Threads : ~At(w, "reading") /\ ~At(w, "writing")
  BY DEF Unbound, At, Idle
<1> QED
  BY <1>1, <1>2 DEF Unbound, BindingsInv, Kept, Fresh, Passed, Written, Alone, BindingHolds,
                    NoThread

LEMMA UnbindKeeps == Unbind => BindingsInv'
<1> SUFFICES ASSUME Unbind PROVE BindingsInv'
  OBVIOUS
<1>1. BindingsTypeOK'
  <2>1. (attribute \in [Attributes -> Bindings \union {NoBinding}])'
    BY DEF Unbind
  <2>2. settled' \in BOOLEAN
    BY DEF Unbind
  <2> QED
    BY <2>1, <2>2 DEF Unbind, BindingsTypeOK, NoThread
<1>2. \A w \in Threads : ~At(w, "reading")' /\ ~At(w, "writing")'
  BY DEF Unbind, At, Idle
<1> QED
  BY <1>1, <1>2 DEF Unbind, BindingsInv, Kept, Fresh, Passed, Written, Alone, BindingHolds,
                    NoThread

LEMMA BindKeeps ==
  ASSUME BindingsInv, NEW b \in Bindings, Bind(b)
  PROVE  BindingsInv'
<1>1. BindingsTypeOK'
  BY DEF Bind, BindingsInv, BindingsTypeOK
<1>2. \A w \in Threads : ~At(w, "reading")' /\ ~At(w, "writing")'
  BY DEF Bind, At
<1>3. solo' = {}
  BY DEF Bind, At, BindingsInv, BindingsTypeOK, Alone, Resolving
<1>4. b # NoBinding
  BY BindingsAssumption
<1> QED
  BY <1>1, <1>2, <1>3, <1>4 DEF Bind, BindingsInv, Kept, Fresh, Passed, Written, Alone,
                                BindingHolds

LEMMA ArriveKeeps ==
  ASSUME BindingsInv, NEW w \in Threads, Arrive(w)
  PROVE  BindingsInv'
<1> USE DEF BindingsInv
<1>1. /\ resolver' = [resolver EXCEPT ![w] = Reading(1)]
      /\ UNCHANGED <<attribute, claim, settled, lost>>
  BY DEF Arrive
<1>2. resolver \in [Threads -> {Idle} \union {Reading(k) : k \in 1..6}
              \union {Writing(b, k) : b \in Bindings, k \in 1..5}
              \union {Serving(b) : b \in Bindings}]
  BY Orders DEF BindingsTypeOK
<1>3. BindingsTypeOK'
  <2>1. Reading(1) \in {Reading(k) : k \in 1..6}
    OBVIOUS
  <2>2. solo' \subseteq Threads
    BY DEF Arrive, NoThread
  <2> QED
    BY <1>1, <1>2, <2>1, <2>2, Orders DEF BindingsTypeOK
<1>4. At(w, "reading")' /\ ~At(w, "writing")' /\ resolver'[w].next = 1
  BY <1>1, <1>2 DEF At, Reading
<1>5. \A v \in Threads \ {w} : resolver'[v] = resolver[v]
  BY <1>1, <1>2
<1>6. \A v \in Threads \ {w}, at \in {"reading", "writing"} : At(v, at)' <=> At(v, at)
  BY <1>5 DEF At
<1>7. Kept'
  BY <1>1 DEF Kept
<1>8. Fresh' /\ Passed'
  <2>1. \A j \in 1..5 : ~(j < 1)
    OBVIOUS
  <2> QED
    BY <1>1, <1>4, <1>5, <1>6, <2>1 DEF Fresh, Passed
<1>9. Alone'
  BY <1>4, <1>5, <1>6 DEF Arrive, Alone, Resolving, NoThread
<1>10. Written'
  <2>1. \A v \in Threads : v \in solo' => v = w
    BY DEF Arrive, NoThread
  <2> QED
    BY <1>1, <1>4, <1>5, <1>6, <2>1 DEF Written
<1>11. BindingHolds'
  BY <1>1, <1>4, <1>5, <1>6 DEF BindingHolds
<1> QED
  BY <1>3, <1>7, <1>8, <1>9, <1>10, <1>11

\* A step of w that leaves the others alone keeps what they are doing.
LEMMA OthersKept ==
  ASSUME BindingsTypeOK, NEW w \in Threads, NEW x, resolver' = [resolver EXCEPT ![w] = x]
  PROVE  /\ resolver'[w] = x
         /\ \A v \in Threads \ {w} : resolver'[v] = resolver[v]
         /\ \A v \in Threads \ {w}, at \in {"idle", "reading", "writing", "serving"} :
              At(v, at)' <=> At(v, at)
         /\ \A v \in Threads \ {w} : Resolving(v)' <=> Resolving(v)
         /\ At(w, "idle")' <=> x.at = "idle"
         /\ At(w, "reading")' <=> x.at = "reading"
         /\ At(w, "writing")' <=> x.at = "writing"
<1>1. resolver'[w] = x /\ \A v \in Threads \ {w} : resolver'[v] = resolver[v]
  BY DEF BindingsTypeOK
<1> QED
  BY <1>1 DEF At, Resolving

\* The object of a getattr on a bound app, if there is one, is the one that it is bound to.
LEMMA ReadFinds ==
  ASSUME BindingsInv, NEW w \in Threads, At(w, "reading"), resolver[w].next \in 1..5,
         claim # NoBinding, lost # Attributes,
         attribute[ReadOrder[resolver[w].next]] # NoBinding
  PROVE  attribute[ReadOrder[resolver[w].next]] = claim
<1>1. ReadOrder[resolver[w].next] \in Attributes
  BY Orders
<1>2. CASE settled
  BY <1>1, <1>2 DEF BindingsInv, Kept
<1>3. CASE ~settled
  BY <1>3, Orders DEF BindingsInv, Fresh
<1> QED
  BY <1>2, <1>3

LEMMA ReadKeeps ==
  ASSUME BindingsInv, NEW w \in Threads, Read(w)
  PROVE  BindingsInv'
<1> DEFINE k == resolver[w].next
           b == attribute[ReadOrder[k]]
           x == IF b # NoBinding THEN Writing(b, 1) ELSE Reading(k + 1)
<1>1. /\ At(w, "reading")
      /\ k \in 1..5
      /\ resolver' = [resolver EXCEPT ![w] = x]
      /\ UNCHANGED <<attribute, claim, settled, lost, solo>>
  <2>1. resolver[w].next \in 1..6
    BY Forms DEF Read, BindingsInv
  <2>2. resolver[w].next <= 5
    BY Orders DEF Read
  <2> QED
    BY <2>1, <2>2 DEF Read
<1> USE DEF BindingsInv
<1>2. ReadOrder[k] \in Attributes /\ b \in Bindings \union {NoBinding}
  BY <1>1, Orders DEF BindingsTypeOK
<1>3. /\ b # NoBinding => x.at = "writing" /\ x.binding = b /\ x.next = 1
      /\ b = NoBinding => x.at = "reading" /\ x.next = k + 1
  BY DEF Reading, Writing
<1>4. x \in {Reading(i) : i \in 1..6} \union {Writing(c, i) : c \in Bindings, i \in 1..5}
  <2>1. CASE b # NoBinding
    BY <1>2, <2>1, 1 \in 1..5
  <2>2. CASE b = NoBinding
    BY <1>1, <2>2, k + 1 \in 1..6
  <2> QED
    BY <2>1, <2>2
<1> HIDE DEF x
<1>5. /\ resolver'[w] = x
      /\ \A v \in Threads \ {w} : resolver'[v] = resolver[v]
      /\ \A v \in Threads \ {w}, at \in {"idle", "reading", "writing", "serving"} :
           At(v, at)' <=> At(v, at)
      /\ \A v \in Threads \ {w} : Resolving(v)' <=> Resolving(v)
      /\ At(w, "reading")' <=> x.at = "reading"
      /\ At(w, "writing")' <=> x.at = "writing"
  BY <1>1, OthersKept
<1>6. BindingsTypeOK'
  BY <1>1, <1>4, Orders DEF BindingsTypeOK
<1>7. Kept'
  BY <1>1 DEF Kept
<1>8. Fresh'
  <2>1. claim # NoBinding /\ ~settled => k = 1 /\ b = claim
    BY <1>1, Orders DEF Fresh
  <2> QED
    BY <1>1, <1>3, <1>5, <2>1 DEF Fresh
<1>9. Passed'
  <2> SUFFICES ASSUME settled, b = NoBinding, NEW j \in 1..5, j < k + 1
               PROVE  ReadOrder[j] \in lost
    BY <1>1, <1>3, <1>5 DEF Passed
  <2>1. CASE j < k
    BY <1>1, <2>1 DEF Passed
  <2>2. CASE j = k
    BY <1>2, <2>2 DEF Kept
  <2> QED
    BY <1>1, <2>1, <2>2
<1>10. Written'
  <2>1. \A j \in 1..5 : ~(j < 1)
    OBVIOUS
  <2> QED
    BY <1>1, <1>3, <1>5, <2>1 DEF Written
<1>11. Alone'
  BY <1>1, <1>3, <1>5 DEF Alone, Resolving
<1>12. BindingHolds'
  BY <1>1, <1>3, <1>5, ReadFinds DEF BindingHolds
<1> QED
  BY <1>6, <1>7, <1>8, <1>9, <1>10, <1>11, <1>12

LEMMA FallbackKeeps ==
  ASSUME BindingsInv, NEW w \in Threads, NEW b \in Bindings, Fallback(w, b)
  PROVE  BindingsInv'
<1> DEFINE x == Writing(b, 1)
<1>1. /\ At(w, "reading")
      /\ resolver[w].next = 6
      /\ resolver' = [resolver EXCEPT ![w] = x]
      /\ UNCHANGED <<attribute, claim, settled, lost, solo>>
  <2>1. resolver[w].next \in 1..6
    BY Forms DEF Fallback, BindingsInv
  <2>2. resolver[w].next > 5
    BY Orders DEF Fallback
  <2> QED
    BY <2>1, <2>2 DEF Fallback
<1> USE DEF BindingsInv
<1>2. x.at = "writing" /\ x.binding = b /\ x.next = 1
  BY DEF Writing
<1>3. x \in {Writing(c, i) : c \in Bindings, i \in 1..5}
  BY 1 \in 1..5
<1>4. claim = NoBinding \/ (settled /\ lost = Attributes)
  <2>1. CASE settled
    <3>1. \A j \in 1..5 : ReadOrder[j] \in lost
      BY <1>1, <2>1, \A j \in 1..5 : j < 6 DEF Passed
    <3> QED
      BY <2>1, <3>1, Orders DEF BindingsTypeOK
  <2>2. CASE ~settled
    BY <1>1, <2>2 DEF Fresh
  <2> QED
    BY <2>1, <2>2
<1> HIDE DEF x
<1>5. /\ resolver'[w] = x
      /\ \A v \in Threads \ {w} : resolver'[v] = resolver[v]
      /\ \A v \in Threads \ {w}, at \in {"idle", "reading", "writing", "serving"} :
           At(v, at)' <=> At(v, at)
      /\ \A v \in Threads \ {w} : Resolving(v)' <=> Resolving(v)
      /\ At(w, "reading")' <=> x.at = "reading"
      /\ At(w, "writing")' <=> x.at = "writing"
  BY <1>1, OthersKept
<1>6. BindingsTypeOK'
  BY <1>1, <1>3, Orders DEF BindingsTypeOK
<1>7. Kept' /\ Fresh' /\ Passed'
  BY <1>1, <1>2, <1>5 DEF Kept, Fresh, Passed
<1>8. Written'
  BY <1>1, <1>2, <1>5, \A j \in 1..5 : ~(j < 1) DEF Written
<1>9. Alone'
  BY <1>1, <1>2, <1>5 DEF Alone, Resolving
<1>10. BindingHolds'
  BY <1>1, <1>2, <1>4, <1>5 DEF BindingHolds
<1> QED
  BY <1>6, <1>7, <1>8, <1>9, <1>10

\* A thread that writes while another's writes are accounted for writes the same object.
LEMMA SameObject ==
  ASSUME BindingsInv, NEW w \in Threads, NEW v \in Threads, At(w, "writing"), At(v, "writing"),
         v \in solo \/ (claim # NoBinding /\ ~settled)
  PROVE  resolver[w].binding = resolver[v].binding
<1>1. CASE v \in solo
  BY <1>1 DEF BindingsInv, Alone, Resolving
<1>2. CASE claim # NoBinding /\ ~settled
  <2>1. lost # Attributes
    BY <1>2, Orders, 1 \in 1..5 DEF BindingsInv, Fresh
  <2> QED
    BY <1>2, <2>1 DEF BindingsInv, BindingHolds
<1> QED
  BY <1>1, <1>2

LEMMA WriteKeeps ==
  ASSUME BindingsInv, NEW w \in Threads, Write(w)
  PROVE  BindingsInv'
<1> DEFINE k == resolver[w].next
           b == resolver[w].binding
           x == Writing(b, k + 1)
<1>1. /\ At(w, "writing")
      /\ k \in 1..4 /\ b \in Bindings
      /\ attribute' = [attribute EXCEPT ![WriteOrder[k]] = b]
      /\ UNCHANGED <<claim, settled, lost, solo>>
  <2>1. resolver[w].next \in 1..5 /\ b \in Bindings
    BY Forms DEF Write, BindingsInv
  <2>2. resolver[w].next < 5
    BY Orders DEF Write
  <2> QED
    BY <2>1, <2>2 DEF Write, SetNext
<1>2. resolver' = [resolver EXCEPT ![w] = x]
  <2>1. resolver' = [resolver EXCEPT ![w] = Writing(resolver[w].binding, resolver[w].next + 1)]
    BY DEF Write
  <2> QED
    BY <2>1
<1> USE DEF BindingsInv
<1>3. WriteOrder[k] \in Attributes
  BY <1>1, Orders
<1>4. x.at = "writing" /\ x.binding = b /\ x.next = k + 1
  BY DEF Writing
<1>5. x \in {Writing(c, i) : c \in Bindings, i \in 1..5}
  BY <1>1, k + 1 \in 1..5
<1> HIDE DEF x
<1>6. /\ resolver'[w] = x
      /\ \A v \in Threads \ {w} : resolver'[v] = resolver[v]
      /\ \A v \in Threads \ {w}, at \in {"idle", "reading", "writing", "serving"} :
           At(v, at)' <=> At(v, at)
      /\ \A v \in Threads \ {w} : Resolving(v)' <=> Resolving(v)
      /\ At(w, "reading")' <=> x.at = "reading"
      /\ At(w, "writing")' <=> x.at = "writing"
  BY <1>2, OthersKept
<1>7. \A a \in Attributes : attribute'[a] = IF a = WriteOrder[k] THEN b ELSE attribute[a]
  BY <1>1 DEF BindingsTypeOK
<1>8. BindingsTypeOK'
  BY <1>1, <1>2, <1>5, Orders DEF BindingsTypeOK
<1>9. claim # NoBinding /\ lost # Attributes => b = claim
  BY <1>1 DEF BindingHolds
<1>10. Kept'
  BY <1>1, <1>7, <1>9 DEF Kept, BindingsTypeOK
<1>11. Fresh'
  <2>1. lost = {} => lost # Attributes
    BY Orders, 1 \in 1..5
  <2>2. "state.binding" \in Attributes
    BY Orders, 1 \in 1..5
  <2> QED
    BY <1>1, <1>4, <1>6, <1>7, <1>9, <2>1, <2>2 DEF Fresh
<1>12. Passed'
  BY <1>1, <1>4, <1>6 DEF Passed
<1>13. Written'
  <2> SUFFICES ASSUME NEW v \in Threads, At(v, "writing")',
                      v \in solo \/ (claim # NoBinding /\ ~settled),
                      NEW j \in 1..5, j < resolver'[v].next
               PROVE  attribute'[WriteOrder[j]] = resolver'[v].binding
    BY <1>1 DEF Written
  <2>1. At(v, "writing") /\ resolver'[v].binding = resolver[v].binding
    BY <1>1, <1>4, <1>6
  <2>2. b = resolver[v].binding
    BY <1>1, <2>1, SameObject
  <2>3. CASE WriteOrder[j] = WriteOrder[k]
    BY <1>3, <1>7, <2>1, <2>2, <2>3
  <2>4. CASE WriteOrder[j] # WriteOrder[k]
    <3>1. j < resolver[v].next
      <4>1. CASE v = w
        BY <1>1, <1>4, <1>6, <2>4, <4>1
      <4>2. CASE v # w
        BY <1>6, <4>2
      <4> QED
        BY <4>1, <4>2
    <3>2. attribute[WriteOrder[j]] = resolver[v].binding
      BY <2>1, <3>1 DEF Written
    <3> QED
      BY <1>7, <2>1, <2>4, <3>2, Orders
  <2> QED
    BY <2>3, <2>4
<1>14. Alone'
  BY <1>1, <1>4, <1>6 DEF Alone, Resolving
<1>15. BindingHolds'
  BY <1>1, <1>4, <1>6 DEF BindingHolds
<1> QED
  BY <1>8, <1>10, <1>11, <1>12, <1>13, <1>14, <1>15

LEMMA ResolvedKeeps ==
  ASSUME BindingsInv, NEW w \in Threads, Resolved(w)
  PROVE  BindingsInv'
<1> DEFINE b == resolver[w].binding
           x == Serving(b)
<1>1. /\ At(w, "writing")
      /\ resolver[w].next = 5 /\ b \in Bindings
      /\ attribute' = [attribute EXCEPT ![WriteOrder[5]] = b]
      /\ resolver' = [resolver EXCEPT ![w] = x]
      /\ claim' = IF w \in solo THEN b ELSE claim
      /\ settled' = (settled \/ claim' = b)
      /\ lost' = IF w \in solo THEN {} ELSE lost
      /\ solo' = {}
  BY Forms, Orders DEF Resolved, SetNext, NoThread, BindingsInv
<1> USE DEF BindingsInv
<1>2. x.at = "serving"
  BY DEF Serving
<1> HIDE DEF x
<1>3. /\ resolver'[w] = x
      /\ \A v \in Threads \ {w} : resolver'[v] = resolver[v]
      /\ \A v \in Threads \ {w}, at \in {"idle", "reading", "writing", "serving"} :
           At(v, at)' <=> At(v, at)
      /\ \A v \in Threads \ {w} : Resolving(v)' <=> Resolving(v)
      /\ ~At(w, "reading")'
      /\ ~At(w, "writing")'
  BY <1>1, <1>2, OthersKept
<1>4. b # NoBinding
  BY <1>1, BindingsAssumption
<1>5. WriteOrder[5] \in Attributes /\ 5 \in 1..5
  BY Orders
<1>6. \A a \in Attributes : attribute'[a] = IF a = WriteOrder[5] THEN b ELSE attribute[a]
  BY <1>1 DEF BindingsTypeOK
<1>7. BindingsTypeOK'
  <2>1. x \in {Serving(c) : c \in Bindings}
    BY <1>1 DEF x
  <2>2. settled' \in BOOLEAN
    BY <1>1 DEF BindingsTypeOK
  <2> QED
    BY <1>1, <2>1, <2>2, Orders DEF BindingsTypeOK
<1>8. lost = {} => lost # Attributes
  BY Orders, 1 \in 1..5
\* All five are written when the resolution was alone or settles a rebinding.
<1>9. ASSUME w \in solo \/ (claim # NoBinding /\ ~settled)
      PROVE  \A a \in Attributes : attribute'[a] = b
  <2> TAKE a \in Attributes
  <2>1. PICK j \in 1..5 : WriteOrder[j] = a
    BY Orders
  <2>2. CASE j = 5
    BY <1>6, <2>1, <2>2
  <2>3. CASE j < 5
    <3>1. attribute[a] = b
      BY <1>1, <1>9, <2>1, <2>3 DEF Written
    <3> QED
      BY <1>6, <3>1
  <2> QED
    BY <2>2, <2>3
<1>10. CASE w \in solo
  <2>1. claim' = b /\ settled' /\ lost' = {} /\ solo' = {}
    BY <1>1, <1>10
  <2>2. \A v \in Threads : ~At(v, "reading")' /\ ~At(v, "writing")'
    BY <1>1, <1>3, <1>10 DEF Alone, Resolving
  <2>3. Kept'
    BY <1>4, <1>9, <1>10, <2>1 DEF Kept
  <2> QED
    BY <1>7, <2>1, <2>2, <2>3 DEF Fresh, Passed, Written, Alone, BindingHolds
<1>11. CASE w \notin solo
  <2>1. /\ claim' = claim /\ lost' = lost /\ solo' = {}
        /\ settled' = (settled \/ claim = b)
    BY <1>1, <1>11
  <2>2. claim # NoBinding /\ lost # Attributes => b = claim
    BY <1>1 DEF BindingHolds
  <2>3. CASE settled
    <3>1. settled'
      BY <2>1, <2>3
    <3>2. Kept'
      BY <1>6, <2>1, <2>2, <2>3 DEF Kept, BindingsTypeOK
    <3> QED
      BY <1>3, <1>7, <2>1, <2>3, <3>1, <3>2 DEF Fresh, Passed, Written, Alone, BindingHolds
  <2>4. CASE ~settled /\ claim # NoBinding
    <3>1. lost = {} /\ b = claim
      BY <1>8, <2>2, <2>4 DEF Fresh
    <3>2. settled'
      BY <2>1, <3>1
    <3>3. Kept'
      BY <1>9, <2>1, <2>4, <3>1 DEF Kept
    <3>4. Passed'
      BY <1>3, <2>1, <2>4, \A j \in 1..5 : ~(j < 1) DEF Fresh, Passed
    <3> QED
      BY <1>3, <1>7, <2>1, <3>2, <3>3, <3>4 DEF Fresh, Written, Alone, BindingHolds
  <2>5. CASE ~settled /\ claim = NoBinding
    <3>1. ~settled'
      BY <1>4, <2>1, <2>5
    <3> QED
      BY <1>3, <1>7, <2>1, <2>5, <3>1 DEF Kept, Fresh, Passed, Written, Alone, BindingHolds
  <2> QED
    BY <2>3, <2>4, <2>5
<1> QED
  BY <1>10, <1>11

LEMMA RespondKeeps ==
  ASSUME BindingsInv, NEW w \in Threads, Respond(w)
  PROVE  BindingsInv'
<1>1. /\ At(w, "serving")
      /\ resolver' = [resolver EXCEPT ![w] = Idle]
      /\ UNCHANGED <<attribute, claim, settled, lost, solo>>
  BY DEF Respond
<1> USE DEF BindingsInv
<1>2. /\ resolver'[w] = Idle
      /\ \A v \in Threads \ {w} : resolver'[v] = resolver[v]
      /\ \A v \in Threads \ {w}, at \in {"idle", "reading", "writing", "serving"} :
           At(v, at)' <=> At(v, at)
      /\ \A v \in Threads \ {w} : Resolving(v)' <=> Resolving(v)
      /\ ~At(w, "reading")' /\ ~At(w, "writing")'
  BY <1>1, OthersKept DEF Idle
<1>3. ~Resolving(w) /\ ~Resolving(w)'
  BY <1>1, <1>2 DEF Resolving, At
<1>4. BindingsTypeOK'
  BY <1>1 DEF BindingsTypeOK
<1>5. Kept' /\ Fresh' /\ Passed' /\ Written' /\ BindingHolds'
  BY <1>1, <1>2 DEF Kept, Fresh, Passed, Written, BindingHolds
<1>6. Alone'
  <2>1. solo \subseteq Threads
    BY DEF BindingsTypeOK
  <2> QED
    BY <1>1, <1>2, <1>3, <2>1 DEF Alone
<1> QED
  BY <1>4, <1>5, <1>6

LEMMA DeleteKeeps ==
  ASSUME BindingsInv, NEW as \in SUBSET Attributes, Delete(as)
  PROVE  BindingsInv'
<1>1. /\ attribute' = [a \in Attributes |-> IF a \in as THEN NoBinding ELSE attribute[a]]
      /\ claim' = IF settled THEN claim ELSE NoBinding
      /\ lost' = IF settled THEN lost \union as ELSE lost
      /\ solo' = {}
      /\ resolver' = resolver /\ settled' = settled
  BY DEF Delete, NoThread
<1> USE DEF BindingsInv
<1>2. \A a \in Attributes : attribute'[a] = IF a \in as THEN NoBinding ELSE attribute[a]
  BY <1>1
<1>3. \A v \in Threads : (At(v, "reading")' <=> At(v, "reading"))
                         /\ (At(v, "writing")' <=> At(v, "writing"))
  BY <1>1 DEF At
<1>4. BindingsTypeOK'
  <2>1. attribute \in [Attributes -> Bindings \union {NoBinding}]
    BY DEF BindingsTypeOK
  <2>2. attribute' \in [Attributes -> Bindings \union {NoBinding}]
    <3>1. attribute' = [a \in Attributes |-> IF a \in as THEN NoBinding ELSE attribute[a]]
      BY <1>1
    <3>2. \A a \in Attributes : attribute[a] \in Bindings \union {NoBinding}
      BY <2>1
    <3> QED
      BY <3>1, <3>2
  <2>3. claim' \in Bindings \union {NoBinding}
    BY <1>1 DEF BindingsTypeOK
  <2>4. lost' \subseteq Attributes
    <3>1. lost' = lost \/ lost' = lost \union as
      BY <1>1, Zenon
    <3>2. lost \subseteq Attributes
      BY DEF BindingsTypeOK
    <3> QED
      BY <3>1, <3>2
  <2>5. (/\ resolver \in [Threads ->
            {Idle} \union {Reading(k) : k \in 1..(Len(ReadOrder) + 1)}
                   \union {Writing(b, k) : b \in Bindings, k \in 1..Len(WriteOrder)}
                   \union {Serving(b) : b \in Bindings}]
         /\ settled \in BOOLEAN)'
    BY <1>1 DEF BindingsTypeOK
  <2>6. solo' \subseteq Threads
    BY <1>1
  <2> QED
    BY <2>2, <2>3, <2>4, <2>5, <2>6 DEF BindingsTypeOK
<1>5. Alone'
  BY <1>1 DEF Alone
<1>6. CASE settled
  <2>1. claim' = claim /\ lost' = lost \union as /\ settled'
    BY <1>1, <1>6
  <2>2. lost' # Attributes => lost # Attributes
    BY <2>1
  <2>3. Kept'
    BY <1>1, <1>2, <1>6, <2>1, <2>2 DEF Kept
  <2>4. Passed'
    BY <1>1, <1>3, <1>6, <2>1 DEF Passed
  <2>5. BindingHolds'
    BY <1>1, <1>3, <2>1, <2>2 DEF BindingHolds
  <2> QED
    BY <1>1, <1>4, <1>5, <2>1, <2>3, <2>4, <2>5 DEF Fresh, Written
<1>7. CASE ~settled
  <2>1. claim' = NoBinding /\ ~settled' /\ solo' = {}
    BY <1>1, <1>7
  <2> QED
    BY <1>4, <1>5, <2>1 DEF Kept, Fresh, Passed, Written, BindingHolds
<1> QED
  BY <1>6, <1>7

LEMMA RebindKeeps ==
  ASSUME BindingsInv, NEW b \in Bindings, Rebind(b)
  PROVE  BindingsInv'
<1>1. /\ attribute' = [attribute EXCEPT !["state.binding"] = b]
      /\ claim' = IF \E w \in Threads : Resolving(w) THEN NoBinding ELSE b
      /\ ~settled' /\ lost' = {} /\ solo' = {}
      /\ resolver' = resolver
  BY DEF Rebind, NoThread
<1> USE DEF BindingsInv
<1>2. "state.binding" \in Attributes
  BY Orders, 1 \in 1..5
<1>3. BindingsTypeOK'
  <2>1. settled' \in BOOLEAN
    BY DEF Rebind
  <2>2. claim' \in Bindings \union {NoBinding}
    BY <1>1
  <2>3. attribute' \in [Attributes -> Bindings \union {NoBinding}]
    <3>1. attribute \in [Attributes -> Bindings \union {NoBinding}]
      BY DEF BindingsTypeOK
    <3>2. attribute' = [attribute EXCEPT !["state.binding"] = b]
      BY <1>1
    <3> QED
      BY <3>1, <3>2
  <2>4. (resolver \in [Threads ->
            {Idle} \union {Reading(k) : k \in 1..(Len(ReadOrder) + 1)}
                   \union {Writing(c, k) : c \in Bindings, k \in 1..Len(WriteOrder)}
                   \union {Serving(c) : c \in Bindings}])'
    BY <1>1 DEF BindingsTypeOK
  <2> QED
    BY <1>1, <2>1, <2>2, <2>3, <2>4 DEF BindingsTypeOK
<1>4. claim' # NoBinding => \A w \in Threads : ~At(w, "reading")' /\ ~At(w, "writing")'
  BY <1>1 DEF Resolving, At
<1>5. claim' # NoBinding => attribute'["state.binding"] = claim'
  BY <1>1, <1>2 DEF BindingsTypeOK
<1> QED
  BY <1>1, <1>3, <1>4, <1>5 DEF Kept, Fresh, Passed, Written, Alone, BindingHolds

LEMMA BindingsStepKeeps ==
  ASSUME BindingsInv, [BindingsStep]_bindingVars
  PROVE  BindingsInv'
<1>1. CASE Unbind
  BY <1>1, UnbindKeeps
<1>2. CASE \E b \in Bindings : Bind(b) \/ Rebind(b)
  BY <1>2, BindKeeps, RebindKeeps
<1>3. CASE \E w \in Threads : Arrive(w) \/ ResolveStep(w) \/ Respond(w)
  BY <1>3, ArriveKeeps, ReadKeeps, WriteKeeps, ResolvedKeeps, FallbackKeeps, RespondKeeps
     DEF ResolveStep
<1>4. CASE \E as \in SUBSET Attributes : Delete(as)
  BY <1>4, DeleteKeeps
<1>5. CASE UNCHANGED bindingVars
  BY <1>5 DEF bindingVars, BindingsInv, BindingsTypeOK, Kept, Fresh, Passed, Written, Alone,
              BindingHolds, At, Resolving
<1> QED
  BY <1>1, <1>2, <1>3, <1>4, <1>5 DEF BindingsStep

\* Whatever the threads, the objects and the maintenance are: the object that the app is
\* bound to serves every request until all five attributes were deleted or another one
\* is bound (resolve_app_scoped_binding, bind_app_scoped_binding).
THEOREM TheBindingHolds == BindingsSpec => [](BindingsTypeOK /\ BindingHolds)
<1>1. BindingsInv => BindingsTypeOK /\ BindingHolds
  BY DEF BindingsInv
<1> QED
  BY <1>1, UnboundInv, BindingsStepKeeps, PTL DEF BindingsSpec

\* ------------------------------------------------------ the life of the service

\* The orchestrators that there are.
Made == 1..Len(orchestrators)

StrictPostgres ==
  environment.backend = "postgres" /\ environment.strict \notin {"blank", "falsy"}

LifeTypes ==
  /\ environment \in Environments
  /\ orchestrators \in Seq([kind : {"memory", "postgres"}, memory : SUBSET Projects])
  /\ Len(orchestrators) <= MaxOrchestrators
  /\ process \in {"down", "starting", "importing", "up"}
  /\ database \subseteq Projects /\ acknowledged \subseteq Projects

\* Whatever is bound or about to be has been made in this life of the process.
OnlyMade ==
  /\ \A a \in Attributes : attribute[a] # NoBinding => attribute[a] \in Made
  /\ \A w \in Threads : At(w, "writing") \/ At(w, "serving") => resolver[w].binding \in Made
  /\ claim # NoBinding => claim \in Made
  /\ process \in {"importing", "up"} => fallback \in Made

\* The strict flag leaves nothing in memory.
StrictInv ==
  StrictPostgres =>
    /\ \A i \in Made : orchestrators[i].kind = "postgres"
    /\ acknowledged \subseteq database

\* What the app stored is where its claim looks.
RecentInv ==
  /\ claim # NoBinding => recent \subseteq Found(claim)
  /\ claim = NoBinding => recent = {}
  /\ process # "up" => claim = NoBinding

LifeInv == BindingsInv /\ LifeTypes /\ OnlyMade /\ StrictInv /\ RecentInv

\* What the elements of a sequence are.
LEMMA ElementOf ==
  ASSUME NEW S, NEW s \in Seq(S), NEW k \in 1..Len(s)
  PROVE  s[k] \in S
  OBVIOUS

\* What create_repository_from_env may return.
LEMMA FactoryReturns ==
  ASSUME environment \in Environments, NEW r \in create_repository_from_env(environment)
  PROVE  /\ r.kind \in {"memory", "postgres"} /\ r.memory = {}
         /\ r \in [kind : {"memory", "postgres"}, memory : SUBSET Projects]
         /\ StrictPostgres => r.kind = "postgres"
<1>1. environment.strict \in {"blank", "truthy", "falsy", "malformed"}
  BY LifetimeAssumption
<1>2. CASE Available(environment) /\ r = [kind |-> environment.backend, memory |-> {}]
  BY <1>2 DEF Available, StrictPostgres
<1>3. CASE ~Strict(environment) /\ r = [kind |-> "memory", memory |-> {}]
  BY <1>1, <1>3 DEF Strict, StrictPostgres
<1> QED
  BY <1>2, <1>3 DEF create_repository_from_env

\* One more orchestrator leaves those that there are as they are.
LEMMA NewAppends ==
  ASSUME LifeTypes, New, environment' = environment
  PROVE  /\ Len(orchestrators') = Len(orchestrators) + 1
         /\ Newest \in 1..MaxOrchestrators /\ Newest \in Made'
         /\ Made \subseteq Made'
         /\ \A i \in Made : orchestrators'[i] = orchestrators[i]
         /\ \A i \in Made' : i \in Made \/ i = Newest
         /\ orchestrators' \in Seq([kind : {"memory", "postgres"}, memory : SUBSET Projects])
         /\ StrictPostgres => orchestrators'[Newest].kind = "postgres"
<1>1. PICK r \in create_repository_from_env(environment) :
        orchestrators' = Append(orchestrators, r)
  BY DEF New
<1>2. /\ r \in [kind : {"memory", "postgres"}, memory : SUBSET Projects]
      /\ StrictPostgres => r.kind = "postgres"
  BY FactoryReturns DEF LifeTypes
<1>3. /\ Len(orchestrators') = Len(orchestrators) + 1 /\ Len(orchestrators) \in Nat
      /\ \A i \in 1..Len(orchestrators) : orchestrators'[i] = orchestrators[i]
      /\ orchestrators'[Len(orchestrators) + 1] = r
      /\ orchestrators' \in Seq([kind : {"memory", "postgres"}, memory : SUBSET Projects])
  BY <1>1, <1>2 DEF LifeTypes
<1>4. Len(orchestrators) < MaxOrchestrators
  BY DEF New
<1> QED
  BY <1>2, <1>3, <1>4, LifetimeAssumption DEF Made, Newest

\* Every step of the service is a step of the bindings, or leaves them alone.
LEMMA LifeStepBinds ==
  ASSUME LifeInv, [Next]_allVars
  PROVE  [BindingsStep]_bindingVars
<1> USE DEF LifeInv
<1>1. CASE Start \/ ImportRoutes \/ reset_orchestrator_runtime \/ UNCHANGED allVars
  BY <1>1 DEF Start, ImportRoutes, reset_orchestrator_runtime, allVars, bindingVars
<1>2. CASE create_app
  BY <1>2, NewAppends, LifetimeAssumption DEF create_app, BindingsStep
<1>3. CASE Crash
  BY <1>3 DEF Crash, BindingsStep
<1>4. ASSUME NEW w \in Threads, GetOrchestrator(w) PROVE BindingsStep
  <2>1. fallback \in Bindings
    <3>1. fallback \in Made
      BY <1>4 DEF GetOrchestrator, OnlyMade
    <3>2. Len(orchestrators) \in Nat /\ Len(orchestrators) <= MaxOrchestrators
      BY DEF LifeTypes
    <3> QED
      BY <3>1, <3>2, LifetimeAssumption DEF Made
  <2> QED
    BY <1>4, <2>1 DEF GetOrchestrator, BindingsStep, ResolveStep
<1>5. ASSUME NEW w \in Threads, RunProject(w) \/ Return(w) PROVE BindingsStep
  BY <1>5 DEF RunProject, Return, BindingsStep
<1>6. CASE Override
  BY <1>6, NewAppends, LifetimeAssumption DEF Override, BindingsStep
<1>7. CASE DeleteAttributes
  BY <1>7, LifetimeAssumption DEF DeleteAttributes, BindingsStep
<1> QED
  BY <1>1, <1>2, <1>3, <1>4, <1>5, <1>6, <1>7 DEF Next

LEMMA InitInv == Init => LifeInv
<1> SUFFICES ASSUME Init PROVE LifeInv
  OBVIOUS
<1>1. BindingsInv
  BY UnboundInv DEF Init
<1>2. LifeTypes
  BY LifetimeAssumption DEF Init, LifeTypes
<1>3. OnlyMade
  <2>1. \A w \in Threads : ~At(w, "writing") /\ ~At(w, "serving")
    BY DEF Init, Unbound, At, Idle
  <2> QED
    BY <2>1 DEF Init, Unbound, OnlyMade
<1>4. StrictInv /\ RecentInv
  BY DEF Init, Unbound, StrictInv, RecentInv, Made
<1> QED
  BY <1>1, <1>2, <1>3, <1>4 DEF LifeInv

\* What one more orchestrator, bound to nothing yet, leaves as it was.
LEMMA NewKeeps ==
  ASSUME LifeInv, New, environment' = environment,
         process' \in {"starting", "importing", "up"},
         UNCHANGED <<database, acknowledged>>
  PROVE  LifeTypes' /\ StrictInv'
<1>1. LifeTypes'
  <2>1. /\ LifeTypes
        /\ Len(orchestrators') = Len(orchestrators) + 1 /\ Len(orchestrators) \in Nat
        /\ orchestrators' \in Seq([kind : {"memory", "postgres"}, memory : SUBSET Projects])
    BY NewAppends DEF LifeInv, LifeTypes
  <2>2. Len(orchestrators) + 1 <= MaxOrchestrators
    BY <2>1, LifetimeAssumption DEF New
  <2> QED
    BY <2>1, <2>2 DEF LifeTypes
<1>2. StrictInv'
  BY NewAppends DEF LifeInv, StrictInv, StrictPostgres
<1> QED
  BY <1>1, <1>2

LEMMA ImportKeeps ==
  ASSUME LifeInv, ImportRoutes \/ reset_orchestrator_runtime
  PROVE  LifeTypes' /\ OnlyMade' /\ StrictInv' /\ RecentInv'
<1>1. /\ New /\ environment' = environment /\ process' \in {"importing", "up"}
      /\ UNCHANGED <<database, acknowledged, recent>> /\ fallback' = Newest
      /\ UNCHANGED bindingVars /\ (process' # "up" => process # "up")
  BY DEF ImportRoutes, reset_orchestrator_runtime
<1>2. LifeTypes' /\ StrictInv'
  BY <1>1, NewKeeps
<1>3. /\ Made \subseteq Made' /\ Newest \in Made'
      /\ \A i \in Made : orchestrators'[i] = orchestrators[i]
  BY <1>1, NewAppends DEF LifeInv
<1>4. \A w \in Threads, at \in {"writing", "serving"} : At(w, at)' <=> At(w, at)
  BY <1>1 DEF bindingVars, At
<1>5. OnlyMade'
  BY <1>1, <1>3, <1>4 DEF LifeInv, OnlyMade, bindingVars
<1>6. RecentInv'
  BY <1>1, <1>3 DEF LifeInv, OnlyMade, RecentInv, Found, bindingVars
<1> QED
  BY <1>2, <1>5, <1>6

LEMMA CreateAppKeeps ==
  ASSUME LifeInv, create_app
  PROVE  LifeTypes' /\ OnlyMade' /\ StrictInv' /\ RecentInv'
<1>1. /\ New /\ environment' = environment /\ process = "importing" /\ process' = "up"
      /\ UNCHANGED <<database, acknowledged, recent, fallback>>
      /\ attribute' = [a \in Attributes |-> Newest] /\ claim' = Newest
      /\ resolver' = resolver /\ \A w \in Threads : At(w, "idle")
  BY DEF create_app, Bind
<1>2. LifeTypes' /\ StrictInv'
  BY <1>1, NewKeeps
<1>3. Made \subseteq Made' /\ Newest \in Made' /\ Newest \in Bindings
  BY <1>1, NewAppends, LifetimeAssumption DEF LifeInv
<1>4. \A w \in Threads : ~At(w, "writing")' /\ ~At(w, "serving")'
  BY <1>1 DEF At
<1>5. OnlyMade'
  BY <1>1, <1>3, <1>4 DEF LifeInv, OnlyMade
<1>6. RecentInv'
  BY <1>1, <1>3, BindingsAssumption DEF LifeInv, RecentInv
<1> QED
  BY <1>2, <1>5, <1>6

LEMMA CrashKeeps ==
  ASSUME LifeInv, Crash
  PROVE  LifeTypes' /\ OnlyMade' /\ StrictInv' /\ RecentInv'
<1>1. LifeTypes'
  BY LifetimeAssumption DEF Crash, LifeInv, LifeTypes
<1>2. OnlyMade'
  <2>1. \A w \in Threads : ~At(w, "writing")' /\ ~At(w, "serving")'
    BY DEF Crash, Unbind, At, Idle
  <2> QED
    BY <2>1 DEF Crash, Unbind, OnlyMade
<1>3. StrictInv'
  <2>1. Made' = {}
    BY DEF Crash, Made
  <2> QED
    BY <2>1 DEF Crash, LifeInv, StrictInv, StrictPostgres
<1>4. RecentInv'
  BY DEF Crash, Unbind, RecentInv
<1> QED
  BY <1>1, <1>2, <1>3, <1>4

LEMMA StartKeeps ==
  ASSUME LifeInv, Start
  PROVE  LifeTypes' /\ OnlyMade' /\ StrictInv' /\ RecentInv'
  BY DEF Start, bindingVars, LifeInv, LifeTypes, OnlyMade, StrictInv, RecentInv, Made,
         StrictPostgres, Found, At

LEMMA OverrideKeeps ==
  ASSUME LifeInv, Override
  PROVE  LifeTypes' /\ OnlyMade' /\ StrictInv' /\ RecentInv'
<1>1. /\ New /\ environment' = environment /\ process = "up" /\ process' = "up"
      /\ UNCHANGED <<database, acknowledged, fallback>> /\ recent' = {}
      /\ attribute' = [attribute EXCEPT !["state.binding"] = Newest]
      /\ claim' \in {NoBinding, Newest}
      /\ resolver' = resolver
  BY DEF Override, Rebind
<1>2. LifeTypes' /\ StrictInv'
  BY <1>1, NewKeeps
<1>3. Made \subseteq Made' /\ Newest \in Made' /\ Newest \in Bindings
  BY <1>1, NewAppends, LifetimeAssumption DEF LifeInv
<1>4. \A w \in Threads, at \in {"writing", "serving"} : At(w, at)' <=> At(w, at)
  BY <1>1 DEF At
<1>5. \A a \in Attributes : attribute'[a] = attribute[a] \/ attribute'[a] = Newest
  BY <1>1 DEF LifeInv, BindingsInv, BindingsTypeOK
<1>6. OnlyMade'
  BY <1>1, <1>3, <1>4, <1>5 DEF LifeInv, OnlyMade
<1>7. RecentInv'
  BY <1>1 DEF RecentInv
<1> QED
  BY <1>2, <1>6, <1>7

LEMMA DeleteAttributesKeeps ==
  ASSUME LifeInv, DeleteAttributes
  PROVE  LifeTypes' /\ OnlyMade' /\ StrictInv' /\ RecentInv'
<1>1. PICK as \in Deletions : Delete(as)
  BY DEF DeleteAttributes
<1>2. /\ UNCHANGED <<process, orchestrators, fallback, database, environment, acknowledged>>
      /\ recent' = (IF claim' = claim THEN recent ELSE {})
      /\ process = "up" /\ resolver' = resolver
      /\ claim' \in {NoBinding, claim}
      /\ \A a \in Attributes : attribute'[a] \in {NoBinding, attribute[a]}
  BY <1>1 DEF DeleteAttributes, Delete
<1>3. LifeTypes' /\ StrictInv'
  BY <1>2 DEF LifeInv, LifeTypes, StrictInv, StrictPostgres, Made
<1>4. OnlyMade'
  BY <1>2 DEF LifeInv, OnlyMade, Made, At
<1>5. RecentInv'
  BY <1>2 DEF LifeInv, RecentInv, Found
<1> QED
  BY <1>3, <1>4, <1>5

LEMMA GetOrchestratorKeeps ==
  ASSUME LifeInv, NEW w \in Threads, GetOrchestrator(w)
  PROVE  LifeTypes' /\ OnlyMade' /\ StrictInv' /\ RecentInv'
<1>1. /\ UNCHANGED <<process, orchestrators, fallback, database, environment, acknowledged>>
      /\ recent' = (IF claim' = claim THEN recent ELSE {})
      /\ process = "up"
      /\ Arrive(w) \/ Read(w) \/ Write(w) \/ Resolved(w) \/ Fallback(w, fallback)
  BY DEF GetOrchestrator
<1>2. LifeTypes' /\ StrictInv'
  BY <1>1 DEF LifeInv, LifeTypes, StrictInv, StrictPostgres, Made
<1> USE DEF LifeInv, BindingsInv
<1>3. fallback \in Made
  BY <1>1 DEF OnlyMade
<1>4. \A v \in Threads \ {w} : resolver'[v] = resolver[v]
  BY <1>1 DEF Arrive, Read, Write, Resolved, Fallback, BindingsTypeOK
\* What w has or gets is made.
<1>5. resolver'[w].at \in {"writing", "serving"} => resolver'[w].binding \in Made
  <2> USE DEF BindingsTypeOK
  <2>1. CASE Arrive(w)
    <3>1. resolver'[w] = Reading(1)
      BY <2>1 DEF Arrive
    <3> QED
      BY <3>1 DEF Reading
  <2>2. CASE Read(w)
    <3> DEFINE b == attribute[ReadOrder[resolver[w].next]]
    <3>1. b # NoBinding => b \in Made
      <4>1. resolver[w].next \in 1..5
        BY <2>2, Forms, Orders DEF Read
      <4> QED
        BY <4>1, Orders DEF OnlyMade
    <3>2. resolver'[w] = IF b # NoBinding THEN Writing(b, 1)
                         ELSE Reading(resolver[w].next + 1)
      BY <2>2 DEF Read
    <3> QED
      BY <3>1, <3>2 DEF Reading, Writing
  <2>3. CASE Write(w)
    <3>1. resolver'[w] = Writing(resolver[w].binding, resolver[w].next + 1)
          /\ At(w, "writing")
      BY <2>3 DEF Write
    <3> QED
      BY <3>1 DEF OnlyMade, Writing
  <2>4. CASE Resolved(w)
    <3>1. resolver'[w] = Serving(resolver[w].binding) /\ At(w, "writing")
      BY <2>4 DEF Resolved
    <3> QED
      BY <3>1 DEF OnlyMade, Serving
  <2>5. CASE Fallback(w, fallback)
    <3>1. resolver'[w] = Writing(fallback, 1)
      BY <2>5 DEF Fallback
    <3> QED
      BY <1>3, <3>1 DEF Writing
  <2> QED
    BY <1>1, <2>1, <2>2, <2>3, <2>4, <2>5
<1>6. \A v \in Threads : At(v, "writing")' \/ At(v, "serving")' =>
        resolver'[v].binding \in Made
  <2>1. \A v \in Threads \ {w} : At(v, "writing")' \/ At(v, "serving")' =>
          resolver'[v].binding \in Made
    BY <1>4 DEF At, OnlyMade
  <2>2. At(w, "writing")' \/ At(w, "serving")' => resolver'[w].binding \in Made
    BY <1>5 DEF At
  <2> QED
    BY <2>1, <2>2
<1>7. \A a \in Attributes : attribute'[a] # NoBinding => attribute'[a] \in Made
  <2>1. CASE Arrive(w) \/ Read(w) \/ Fallback(w, fallback)
    BY <2>1 DEF Arrive, Read, Fallback, OnlyMade
  <2>2. CASE Write(w) \/ Resolved(w)
    <3>1. At(w, "writing") /\ SetNext(w)
      BY <2>2 DEF Write, Resolved
    <3>2. resolver[w].binding \in Made
      BY <3>1 DEF OnlyMade
    <3>3. \A a \in Attributes : attribute'[a] = attribute[a]
                                \/ attribute'[a] = resolver[w].binding
      BY <3>1 DEF SetNext, BindingsTypeOK
    <3> QED
      BY <3>2, <3>3 DEF OnlyMade
  <2> QED
    BY <1>1, <2>1, <2>2
<1>8. claim' = claim \/ claim' \in Made
  <2>1. CASE Arrive(w) \/ Read(w) \/ Write(w) \/ Fallback(w, fallback)
    BY <2>1 DEF Arrive, Read, Write, Fallback
  <2>2. CASE Resolved(w)
    BY <2>2 DEF Resolved, OnlyMade
  <2> QED
    BY <1>1, <2>1, <2>2
<1>9. OnlyMade'
  BY <1>1, <1>6, <1>7, <1>8 DEF OnlyMade, Made
<1>10. RecentInv'
  BY <1>1 DEF RecentInv, Found
<1> QED
  BY <1>2, <1>9, <1>10

LEMMA RequestKeeps ==
  ASSUME LifeInv, NEW w \in Threads, RunProject(w) \/ Return(w)
  PROVE  LifeTypes' /\ OnlyMade' /\ StrictInv' /\ RecentInv'
<1> USE DEF LifeInv, BindingsInv
<1>1. /\ UNCHANGED <<attribute, claim, process, fallback, environment>>
      /\ At(w, "serving")
      /\ resolver' = [resolver EXCEPT ![w] = Idle]
  BY DEF RunProject, Return, Respond, lifeVars
<1>2. \A v \in Threads : At(v, "writing")' \/ At(v, "serving")' =>
        resolver'[v] = resolver[v] /\ (At(v, "writing") \/ At(v, "serving"))
  <2>1. resolver'[w] = Idle /\ \A v \in Threads \ {w} : resolver'[v] = resolver[v]
    BY <1>1 DEF BindingsTypeOK
  <2> QED
    BY <2>1 DEF At, Idle
<1>3. CASE Return(w)
  BY <1>1, <1>2, <1>3 DEF Return, lifeVars, LifeTypes, OnlyMade, StrictInv, StrictPostgres,
                          RecentInv, Found, Made
<1>4. CASE RunProject(w)
  <2> DEFINE i == resolver[w].binding
  <2>1. i \in Made
    BY <1>1 DEF OnlyMade
  <2>2. PICK p \in Projects \ acknowledged :
          /\ IF orchestrators[i].kind = "postgres"
             THEN database' = database \union {p} /\ UNCHANGED orchestrators
             ELSE /\ orchestrators' = [orchestrators EXCEPT ![i].memory = @ \union {p}]
                  /\ UNCHANGED database
          /\ acknowledged' = acknowledged \union {p}
          /\ recent' = IF i = claim THEN recent \union {p} ELSE recent
    BY <1>4 DEF RunProject
  <2>3. /\ orchestrators' \in Seq([kind : {"memory", "postgres"}, memory : SUBSET Projects])
        /\ Len(orchestrators') = Len(orchestrators)
        /\ \A j \in Made : /\ orchestrators'[j].kind = orchestrators[j].kind
                           /\ orchestrators[j].memory \subseteq orchestrators'[j].memory
        /\ orchestrators[i].kind # "postgres" => p \in orchestrators'[i].memory
    <3>1. CASE orchestrators[i].kind = "postgres"
      BY <2>2, <3>1 DEF LifeTypes
    <3>2. CASE orchestrators[i].kind # "postgres"
      <4>1. orchestrators' = [orchestrators EXCEPT
                                ![i] = [orchestrators[i] EXCEPT !.memory = @ \union {p}]]
        BY <2>2, <3>2
      <4>2. orchestrators[i] \in [kind : {"memory", "postgres"}, memory : SUBSET Projects]
        <5>1. orchestrators \in Seq([kind : {"memory", "postgres"}, memory : SUBSET Projects])
          BY DEF LifeTypes
        <5> QED
          BY <2>1, <5>1, ElementOf DEF Made
      <4>3. /\ [orchestrators[i] EXCEPT !.memory = @ \union {p}]
                 \in [kind : {"memory", "postgres"}, memory : SUBSET Projects]
            /\ [orchestrators[i] EXCEPT !.memory = @ \union {p}].kind = orchestrators[i].kind
            /\ [orchestrators[i] EXCEPT !.memory = @ \union {p}].memory
                 = orchestrators[i].memory \union {p}
        BY <4>2
      <4> QED
        BY <2>1, <4>1, <4>3 DEF LifeTypes, Made
    <3> QED
      BY <3>1, <3>2
  <2>4. LifeTypes'
    BY <1>1, <2>2, <2>3 DEF LifeTypes
  <2>5. OnlyMade'
    BY <1>1, <1>2, <2>3 DEF OnlyMade, Made
  <2>6. StrictInv'
    BY <1>1, <2>1, <2>2, <2>3 DEF StrictInv, StrictPostgres, Made
  <2>7. RecentInv'
    <3>1. database \subseteq database'
      BY <2>2
    <3>2. claim # NoBinding => claim \in Made
      BY DEF OnlyMade
    <3>3. claim # NoBinding => Found(claim) \subseteq Found(claim)'
      BY <1>1, <2>3, <3>1, <3>2 DEF Found
    <3>4. i = claim => p \in Found(claim)'
      BY <1>1, <2>1, <2>2, <2>3 DEF Found
    <3>5. i # NoBinding
      BY <2>1, LifetimeAssumption, BindingsAssumption DEF Made, LifeTypes
    <3> QED
      BY <1>1, <2>2, <3>3, <3>4, <3>5 DEF RecentInv
  <2> QED
    BY <2>4, <2>5, <2>6, <2>7
<1> QED
  BY <1>3, <1>4

LEMMA NextKeeps ==
  ASSUME LifeInv, [Next]_allVars
  PROVE  LifeInv'
<1>1. BindingsInv'
  BY LifeStepBinds, BindingsStepKeeps DEF LifeInv
<1>2. LifeTypes' /\ OnlyMade' /\ StrictInv' /\ RecentInv'
  <2>1. CASE UNCHANGED allVars
    BY <2>1 DEF allVars, LifeInv, LifeTypes, OnlyMade, StrictInv, RecentInv, Made,
                StrictPostgres, Found, At
  <2>2. CASE Next
    BY <2>2, ImportKeeps, CreateAppKeeps, CrashKeeps, StartKeeps, OverrideKeeps,
       DeleteAttributesKeeps, GetOrchestratorKeeps, RequestKeeps DEF Next
  <2> QED
    BY <2>1, <2>2
<1> QED
  BY <1>1, <1>2 DEF LifeInv

\* Each step of the service is one that RuntimeBindings allows: the bindings are used by
\* routes.py and main.py as their module describes.
THEOREM LifetimeUsesBindings == Spec => BindingsSpec
<1>1. Init => Unbound
  BY DEF Init
<1> QED
  BY <1>1, InitInv, NextKeeps, LifeStepBinds, PTL DEF Spec, BindingsSpec

\* The object that the app is bound to serves its requests (_get_orchestrator), whatever
\* the service does, until maintenance takes all five attributes or binds another one.
THEOREM LifetimeBindingHolds == Spec => [](BindingsTypeOK /\ BindingHolds)
  BY LifetimeUsesBindings, TheBindingHolds, PTL

\* STATE_BACKEND=postgres with the strict flag (create_repository_from_env): every
\* orchestrator finds every project that a caller was told is stored, over any number of
\* restarts, resets and rebindings.
THEOREM StrictServiceForgetsNothing == Spec => []StrictKeepsEverything
<1>1. LifeInv => StrictKeepsEverything
  BY DEF LifeInv, OnlyMade, StrictInv, StrictPostgres, StrictKeepsEverything, Found
<1> QED
  BY <1>1, InitInv, NextKeeps, PTL DEF Spec

\* What the app has stored, every request finds that resolves the same binding, with
\* either repository.
THEOREM AppFindsWhatItStored == Spec => []StoredIsFound
<1>1. LifeInv => StoredIsFound
  BY DEF LifeInv, BindingsInv, BindingHolds, RecentInv, StoredIsFound
<1> QED
  BY <1>1, InitInv, NextKeeps, PTL DEF Spec

\* The database has no project that nobody was told of.
LEMMA DatabaseKeeps ==
  ASSUME database \subseteq acknowledged, [Next]_allVars
  PROVE  (database \subseteq acknowledged)'
<1>1. CASE \E w \in Threads : RunProject(w)
  BY <1>1 DEF RunProject
<1>2. CASE ~ \E w \in Threads : RunProject(w)
  BY <1>2 DEF Next, Start, ImportRoutes, create_app, Crash, GetOrchestrator, Return, Override,
              DeleteAttributes, reset_orchestrator_runtime, allVars, lifeVars
<1> QED
  BY <1>1, <1>2

\* Whatever is bound, or is the fallback of _get_orchestrator, is an orchestrator of this
\* life of the process, and the database holds only projects that a caller was told of.
THEOREM LifetimeTypes == Spec => []LifeTypeOK
<1>1. LifeInv /\ database \subseteq acknowledged => LifeTypeOK
  <2> SUFFICES ASSUME LifeInv, database \subseteq acknowledged
               PROVE  LifeTypeOK
    OBVIOUS
  <2>1. DOMAIN orchestrators = Made
    BY DEF LifeInv, LifeTypes, Made
  <2>2. \A i \in DOMAIN orchestrators :
          /\ orchestrators[i].kind \in {"memory", "postgres"}
          /\ orchestrators[i].memory \subseteq Projects
    <3> TAKE i \in DOMAIN orchestrators
    <3> DEFINE Repositories == [kind : {"memory", "postgres"}, memory : SUBSET Projects]
    <3>1. orchestrators \in Seq(Repositories) /\ i \in 1..Len(orchestrators)
      BY <2>1 DEF LifeInv, LifeTypes, Made
    <3>2. orchestrators[i] \in Repositories
      BY <3>1, ElementOf
    <3> QED
      BY <3>2
  <2>3. \A a \in Attributes : attribute[a] \in DOMAIN orchestrators \union {NoBinding}
    BY <2>1 DEF LifeInv, OnlyMade
  <2> QED
    BY <2>1, <2>2, <2>3 DEF LifeInv, LifeTypes, BindingsInv, OnlyMade, LifeTypeOK
<1>2. Init => database \subseteq acknowledged
  BY DEF Init
<1> QED
  BY <1>1, <1>2, DatabaseKeeps, InitInv, NextKeeps, PTL DEF Spec
===============================================================================
