---------------------------- MODULE RuntimeBindings ---------------------------
(***************************************************************************)
(* How a request finds the object that serves it                           *)
(* (app/api/runtime_bindings.py).  The app keeps five attributes that name *)
(* the object bound to it, two on itself and three on app.state.  A        *)
(* request takes the first one that is there, in a fixed order, and then   *)
(* writes what it found to all five; without any it takes the module-level *)
(* object.  Nothing locks the attributes, and the handlers run in threads: *)
(* one getattr or setattr is one step here.                                *)
(*                                                                         *)
(* Nothing in the source deletes an attribute or rebinds one by hand; the  *)
(* tests do, and stand for the maintenance of a running app.  The          *)
(* orchestrator and the authentication service are bound by the same       *)
(* functions, under other names.                                           *)
(***************************************************************************)
EXTENDS Naturals, Sequences, FiniteSets

CONSTANTS Threads,   \* the threads that serve requests
          Bindings,  \* the objects there can be
          NoBinding  \* an attribute that is not there

ASSUME BindingsAssumption == NoBinding \notin Bindings

VARIABLES attribute,  \* what each attribute holds
          resolver,   \* what each thread is doing
          claim,      \* history variable: the object that the app is bound to and that has
                      \* to serve its requests; NoBinding if maintenance left that open
          settled,    \* history variable: a request has resolved to claim
          lost,       \* history variable: the attributes deleted since claim was settled
          solo        \* history variable: the one thread, if any, that has resolved since
                      \* it began with no other thread and no maintenance in between

bindingVars == <<attribute, resolver, claim, settled, lost, solo>>

\* _BindingSpec: the attributes in the order in which a resolution asks for them.
ReadOrder ==
  <<"state.binding", "state._initial", "app._initial", "state._bootstrap", "app._bootstrap">>

Attributes == {ReadOrder[k] : k \in DOMAIN ReadOrder}

\* Mutant: what was resolved is written to the binding only.
WriteOrder_BindingOnly == <<"state.binding">>

\* The order in which bind_app_scoped_binding writes them.
WriteOrder ==
  <<"app._initial", "app._bootstrap", "state.binding", "state._initial", "state._bootstrap">>

Idle == [at |-> "idle"]

Reading(k) == [at |-> "reading", next |-> k]

Writing(b, k) == [at |-> "writing", binding |-> b, next |-> k]

Serving(b) == [at |-> "serving", binding |-> b]

At(w, at) == resolver[w].at = at

Resolving(w) == At(w, "reading") \/ At(w, "writing")

NoThread == {}

Unbound ==
  /\ attribute = [a \in Attributes |-> NoBinding]
  /\ resolver = [w \in Threads |-> Idle]
  /\ claim = NoBinding
  /\ settled = FALSE
  /\ lost = {}
  /\ solo = NoThread

\* The process ends: nothing of this stays.
Unbind ==
  /\ attribute' = [a \in Attributes |-> NoBinding]
  /\ resolver' = [w \in Threads |-> Idle]
  /\ claim' = NoBinding
  /\ settled' = FALSE
  /\ lost' = {}
  /\ solo' = NoThread

\* bind_orchestrator_binding, as create_app calls it before there are requests.
Bind(b) ==
  /\ \A w \in Threads : At(w, "idle")
  /\ attribute' = [a \in Attributes |-> b]
  /\ claim' = b
  /\ settled' = TRUE
  /\ lost' = {}
  /\ UNCHANGED <<resolver, solo>>

\* ------------------------------------------------------------------ resolution

\* A request comes in, and its handler begins to resolve the binding.
Arrive(w) ==
  /\ At(w, "idle")
  /\ resolver' = [resolver EXCEPT ![w] = Reading(1)]
  /\ solo' = IF \E v \in Threads : Resolving(v) THEN NoThread ELSE {w}
  /\ UNCHANGED <<attribute, claim, settled, lost>>

\* The next getattr.
Read(w) ==
  /\ At(w, "reading")
  /\ resolver[w].next <= Len(ReadOrder)
  /\ LET k == resolver[w].next
         b == attribute[ReadOrder[k]]
     IN resolver' = [resolver EXCEPT ![w] = IF b # NoBinding THEN Writing(b, 1)
                                            ELSE Reading(k + 1)]
  /\ UNCHANGED <<attribute, claim, settled, lost, solo>>

\* No attribute was there: the fallback resolver gives the object b.
Fallback(w, b) ==
  /\ At(w, "reading")
  /\ resolver[w].next > Len(ReadOrder)
  /\ resolver' = [resolver EXCEPT ![w] = Writing(b, 1)]
  /\ UNCHANGED <<attribute, claim, settled, lost, solo>>

SetNext(w) ==
  attribute' = [attribute EXCEPT ![WriteOrder[resolver[w].next]] = resolver[w].binding]

\* A setattr of _sync_binding that is not the last one.
Write(w) ==
  /\ At(w, "writing")
  /\ resolver[w].next < Len(WriteOrder)
  /\ SetNext(w)
  /\ resolver' = [resolver EXCEPT ![w] = Writing(@.binding, @.next + 1)]
  /\ UNCHANGED <<claim, settled, lost, solo>>

\* The last one, and the resolution returns.  One that ran alone has left all five
\* attributes at its object, so the app is bound to it from here on.
Resolved(w) ==
  /\ At(w, "writing")
  /\ resolver[w].next = Len(WriteOrder)
  /\ SetNext(w)
  /\ LET b == resolver[w].binding
     IN /\ resolver' = [resolver EXCEPT ![w] = Serving(b)]
        /\ claim' = IF w \in solo THEN b ELSE claim
        /\ settled' = (settled \/ claim' = b)
        /\ lost' = IF w \in solo THEN {} ELSE lost
  /\ solo' = NoThread

\* The handler returns.
Respond(w) ==
  /\ At(w, "serving")
  /\ resolver' = [resolver EXCEPT ![w] = Idle]
  /\ UNCHANGED <<attribute, claim, settled, lost, solo>>

\* ----------------------------------------------------------------- maintenance

\* Attributes are deleted.  A binding that no request has resolved yet stands in
\* state.binding alone, and may be lost with it.
Delete(as) ==
  /\ attribute' = [a \in Attributes |-> IF a \in as THEN NoBinding ELSE attribute[a]]
  /\ claim' = IF settled THEN claim ELSE NoBinding
  /\ lost' = IF settled THEN lost \union as ELSE lost
  /\ solo' = NoThread
  /\ UNCHANGED <<resolver, settled>>

\* app.state.orchestrator is set to b.  A resolution in flight may hold another object,
\* and write that one back.
Rebind(b) ==
  /\ attribute' = [attribute EXCEPT !["state.binding"] = b]
  /\ claim' = IF \E w \in Threads : Resolving(w) THEN NoBinding ELSE b
  /\ settled' = FALSE
  /\ lost' = {}
  /\ solo' = NoThread
  /\ UNCHANGED resolver

ResolveStep(w) == Read(w) \/ Write(w) \/ Resolved(w) \/ \E b \in Bindings : Fallback(w, b)

BindingsStep ==
  \/ Unbind
  \/ \E b \in Bindings : Bind(b) \/ Rebind(b)
  \/ \E w \in Threads : Arrive(w) \/ ResolveStep(w) \/ Respond(w)
  \/ \E as \in SUBSET Attributes : Delete(as)

BindingsSpec == Unbound /\ [][BindingsStep]_bindingVars

\* ------------------------------------------------------------------ properties

BindingsTypeOK ==
  /\ attribute \in [Attributes -> Bindings \union {NoBinding}]
  /\ resolver \in [Threads ->
       {Idle} \union {Reading(k) : k \in 1..(Len(ReadOrder) + 1)}
              \union {Writing(b, k) : b \in Bindings, k \in 1..Len(WriteOrder)}
              \union {Serving(b) : b \in Bindings}]
  /\ claim \in Bindings \union {NoBinding}
  /\ settled \in BOOLEAN
  /\ lost \subseteq Attributes
  /\ solo \subseteq Threads

\* The object that the app is bound to serves every request, whatever is deleted from
\* the app and in whatever order other requests write it back, until all five
\* attributes have been deleted or another object is bound.  After a rebinding this
\* holds from the start if no resolution was in flight and a request resolved it before
\* anything was deleted; after anything else, once one resolution ran undisturbed.
BindingHolds ==
  claim # NoBinding /\ lost # Attributes =>
    \A w \in Threads : At(w, "writing") => resolver[w].binding = claim
===============================================================================
