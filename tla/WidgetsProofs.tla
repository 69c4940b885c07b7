--------------------------- MODULE WidgetsProofs ----------------------------
(***************************************************************************)
(* Dear ImGui's scopes and the identities of widgets, for any number of    *)
(* widgets, names and identifiers.                                         *)
(***************************************************************************)
EXTENDS Widgets, TLAPS

\* What a call leaves alone.
Others(w) == obj' \in [Widgets -> Object] /\ \A v \in Widgets \ {w} : obj'[v] = obj[v]

-----------------------------------------------------------------------------
(* Scopes.                                                                   *)

\* End is called whatever Begin said exactly for the scopes Begin always opens.
LEMMA ForceWhereOpened == \A c \in Classes : c.force <=> c.begins \in AlwaysOpens
  BY DEF Classes, Window, Subcontext, NamedSubcontext, MenuBar, Menu, TabBar,
         TabItem, TreeNode, AlwaysOpens

LEMMA NothingIsNoClass == Nothing \notin Classes /\ \A c \in Classes : c.by # "nothing"
  BY DEF Nothing, Classes, Window, Subcontext, NamedSubcontext, MenuBar, Menu, TabBar,
         TabItem, TreeNode

\* Beginning a widget that owes no End opens at most one scope, which it owes.
LEMMA BeginNests ==
  ASSUME TypeOK, ScopesNest, NEW w \in Widgets, ~EndOwed(w),
         NEW o \in Object, o.class \in Classes, ~o.is_scope_active, BeginImpl(w, o)
  PROVE  /\ scopes' \in Seq(Widgets) /\ ScopesNest' /\ Others(w)
         /\ obj'[w].class = o.class /\ obj'[w].name = o.name /\ obj'[w].id = o.id
<1>1. ~Open(w)
  BY DEF ScopesNest
<1>2. CASE BoundBegin(w, o)
  <2>1. PICK on \in BOOLEAN :
          /\ obj' = [obj EXCEPT ![w] = [o EXCEPT !.is_scope_active = TRUE, !.is_on = on]]
          /\ scopes' = IF on \/ o.class.begins \in AlwaysOpens
                       THEN Append(scopes, w) ELSE scopes
    BY <1>2 DEF BoundBegin
  <2>2. /\ Others(w)
        /\ obj'[w].class = o.class /\ obj'[w].name = o.name /\ obj'[w].id = o.id
        /\ obj'[w].is_scope_active /\ obj'[w].is_on = on
    BY <2>1 DEF TypeOK, Others, Object
  <2>3. EndOwed(w)' <=> on \/ o.class.begins \in AlwaysOpens
    BY <2>2, ForceWhereOpened DEF EndOwed
  <2>4. \A v \in Widgets \ {w} : EndOwed(v)' <=> EndOwed(v)
    BY <2>2 DEF Others, EndOwed
  <2>5. CASE scopes' = scopes /\ ~EndOwed(w)'
    BY <1>1, <2>2, <2>4, <2>5 DEF ScopesNest, Open, TypeOK
  <2>6. CASE scopes' = Append(scopes, w) /\ EndOwed(w)'
    <3>1. /\ scopes' \in Seq(Widgets) /\ Len(scopes') = Len(scopes) + 1
          /\ \A i \in DOMAIN scopes : scopes'[i] = scopes[i]
          /\ scopes'[Len(scopes) + 1] = w
          /\ DOMAIN scopes = 1 .. Len(scopes) /\ DOMAIN scopes' = 1 .. (Len(scopes) + 1)
          /\ Len(scopes) \in Nat
      BY <2>6 DEF TypeOK
    <3>2. \A i \in DOMAIN scopes : scopes[i] # w
      BY <1>1 DEF Open
    <3>3. \A i, j \in DOMAIN scopes' : scopes'[i] = scopes'[j] => i = j
      <4> SUFFICES ASSUME NEW i \in DOMAIN scopes', NEW j \in DOMAIN scopes',
                          scopes'[i] = scopes'[j]
                   PROVE  i = j
        OBVIOUS
      <4>1. CASE i \in DOMAIN scopes /\ j \in DOMAIN scopes
        BY <3>1, <4>1 DEF ScopesNest
      <4>2. CASE ~(i \in DOMAIN scopes /\ j \in DOMAIN scopes)
        BY <3>1, <3>2, <4>2
      <4> QED  BY <4>1, <4>2
    <3>4. \A v \in Widgets : Open(v)' <=> Open(v) \/ v = w
      BY <3>1 DEF Open
    <3> QED  BY <2>2, <2>4, <2>6, <3>1, <3>3, <3>4 DEF ScopesNest
  <2> QED  BY <2>1, <2>3, <2>5, <2>6
<1>3. CASE obj' = [obj EXCEPT ![w] = o] /\ UNCHANGED scopes
  <2>1. Others(w) /\ obj'[w] = o
    BY <1>3 DEF TypeOK, Others
  <2>2. \A v \in Widgets : EndOwed(v)' <=> EndOwed(v)
    BY <2>1 DEF Others, EndOwed
  <2> QED  BY <1>3, <2>1, <2>2 DEF ScopesNest, Open, TypeOK
<1> QED  BY <1>2, <1>3 DEF BeginImpl

\* Ending a widget closes its own scope, if it owes that, and no other.
LEMMA EndNests ==
  ASSUME TypeOK, ScopesNest, NEW w \in Widgets, MayEnd(w), EndImpl(w),
         Others(w), ~obj'[w].is_scope_active
  PROVE  scopes' \in Seq(Widgets) /\ ScopesNest'
<1>1. ~EndOwed(w)' /\ \A v \in Widgets \ {w} : EndOwed(v)' <=> EndOwed(v)
  BY DEF Others, EndOwed
<1>2. CASE ~EndOwed(w)
  BY <1>1, <1>2 DEF EndImpl, ScopesNest, Open, TypeOK
<1>3. CASE EndOwed(w)
  <2>1. Open(w) /\ scopes[Len(scopes)] = w
    BY <1>3 DEF ScopesNest, MayEnd
  <2>2. /\ Len(scopes) \in Nat \ {0} /\ DOMAIN scopes = 1 .. Len(scopes)
    BY <2>1 DEF Open, TypeOK
  <2>3. /\ scopes' \in Seq(Widgets) /\ DOMAIN scopes' = 1 .. (Len(scopes) - 1)
        /\ \A i \in DOMAIN scopes' : scopes'[i] = scopes[i]
    BY <1>3, <2>2 DEF EndImpl, TypeOK
  <2>4. \A i, j \in DOMAIN scopes' : scopes'[i] = scopes'[j] => i = j
    BY <2>2, <2>3 DEF ScopesNest
  <2>5. \A v \in Widgets : Open(v)' <=> Open(v) /\ v # w
    <3>1. \A i \in DOMAIN scopes : scopes[i] = w <=> i = Len(scopes)
      BY <2>1, <2>2 DEF ScopesNest
    <3> QED  BY <2>2, <2>3, <3>1 DEF Open
  <2> QED  BY <1>1, <2>3, <2>4, <2>5 DEF ScopesNest
<1> QED  BY <1>2, <1>3

-----------------------------------------------------------------------------
(* Identities.                                                               *)

\* What making or beginning a widget of a class needs of the object.
LEMMA NewIsObject ==
  ASSUME NEW c \in Classes, NEW n \in Names \cup {NoName}, NEW id \in Nat
  PROVE  /\ New(c, n, id) \in Object /\ ~New(c, n, id).is_scope_active
         /\ New(c, n, id).class = c /\ New(c, n, id).name = n /\ New(c, n, id).id = id
  BY DEF New, Object

LEMMA UnmadeFacts ==
  /\ Unmade \in Object /\ ~Unmade.is_scope_active
  /\ \A o \in Object : o.class \in Classes => o # Unmade
  BY NothingIsNoClass DEF Unmade, New, Object

\* A call that leaves the others alone leaves their identities alone, too.
LEMMA OthersStay ==
  ASSUME TypeOK, NEW w \in Widgets, Others(w), NEW key \in {"name", "id"}
  PROVE  /\ NamedBy(key)' \ {w} = NamedBy(key) \ {w}
         /\ \A v \in NamedBy(key) \ {w} : obj'[v] = obj[v]
  BY DEF NamedBy, Live, Others

\* Beginning a scope late changes no identity.
LEMMA SameIdentity ==
  ASSUME Inv, NEW w \in Live, Others(w), obj'[w] \in Object, UNCHANGED <<names, idVars>>,
         obj'[w].class = obj[w].class, obj'[w].name = obj[w].name, obj'[w].id = obj[w].id
  PROVE  ClassesKept' /\ NamesHeld' /\ IdsHeld' /\ IdsBehind'
<1>1. w \in Live' /\ Live' = Live
  BY UnmadeFacts DEF Live, Others, Inv, ClassesKept
<1>2. \A v \in Widgets : /\ obj'[v].class = obj[v].class
                         /\ obj'[v].name = obj[v].name /\ obj'[v].id = obj[v].id
  BY DEF Others
<1>3. NamedBy("name")' = NamedBy("name") /\ NamedBy("id")' = NamedBy("id")
  BY <1>1, <1>2 DEF NamedBy, Live
<1>4. ClassesKept' /\ NamesHeld'
  BY <1>1, <1>2, <1>3 DEF Inv, ClassesKept, NamesHeld, NamedBy, Live
<1>5. IdsHeld' /\ IdsBehind'
  BY <1>2, <1>3 DEF Inv, IdsHeld, IdsBehind, idVars, NamedBy, Live
<1> QED  BY <1>4, <1>5

-----------------------------------------------------------------------------
(* The invariant.                                                            *)

THEOREM InitInv == Init => Inv
<1> SUFFICES ASSUME Init PROVE Inv
  OBVIOUS
<1>1. TypeOK
  BY UnmadeFacts DEF Init, TypeOK
<1>2. Live = {}
  BY DEF Init, Live
<1>3. ScopesNest
  BY UnmadeFacts DEF Init, ScopesNest, Open, EndOwed
<1>4. ClassesKept /\ NamesHeld /\ IdsHeld /\ IdsBehind
  BY <1>2 DEF Init, ClassesKept, NamesHeld, IdsHeld, IdsBehind, NamedBy
<1> QED  BY <1>1, <1>3, <1>4 DEF Inv

LEMMA StutterInv == Inv /\ UNCHANGED <<obj, scopes, names, idVars>> => Inv'
  BY DEF Inv, TypeOK, ClassesKept, ScopesNest, NamesHeld, IdsHeld, IdsBehind, NamedBy,
         Live, Open, EndOwed, idVars

\* A name is taken by the widget that asks, or refused.
LEMMA MakeNamedInv ==
  ASSUME Inv, NEW w \in Widgets, NEW class \in Classes, NEW name \in Names,
         MakeNamed(w, class, name)
  PROVE  Inv'
<1>1. CASE name \in names
  BY <1>1, StutterInv DEF MakeNamed
<1>2. CASE name \notin names
  <2>1. /\ obj[w] = Unmade /\ class.by = "name" /\ names' = names \cup {name}
        /\ BeginImpl(w, New(class, name, 0)) /\ UNCHANGED idVars
    BY <1>2 DEF MakeNamed
  <2>2. ~EndOwed(w)
    BY <2>1, UnmadeFacts DEF EndOwed
  <2>3. /\ scopes' \in Seq(Widgets) /\ ScopesNest' /\ Others(w)
        /\ obj'[w].class = class /\ obj'[w].name = name
    BY <2>1, <2>2, NewIsObject, BeginNests DEF Inv
  <2>4. w \notin Live /\ w \in Live' /\ w \in NamedBy("name")' /\ w \notin NamedBy("id")'
    BY <2>1, <2>3, UnmadeFacts DEF Live, NamedBy, Others
  <2>5. /\ NamedBy("name")' = NamedBy("name") \cup {w} /\ w \notin NamedBy("name")
        /\ NamedBy("id")' = NamedBy("id")
        /\ \A v \in NamedBy("name") \cup NamedBy("id") : obj'[v] = obj[v]
    BY <2>3, <2>4, OthersStay DEF Inv, NamedBy
  <2>6. TypeOK'
    BY <2>1, <2>3 DEF Inv, TypeOK, Others, idVars
  <2>7. ClassesKept'
    BY <2>1, <2>3, WidgetsAssumption DEF Inv, ClassesKept, Others, Live
  <2>8. NamesHeld'
    <3>1. {obj[v].name : v \in NamedBy("name")}' = {obj[v].name : v \in NamedBy("name")} \cup {name}
      BY <2>3, <2>5
    <3>2. \A v \in NamedBy("name") : obj[v].name # name
      BY <1>2 DEF Inv, NamesHeld
    <3> QED  BY <2>1, <2>3, <2>5, <3>1, <3>2 DEF Inv, NamesHeld
  <2>9. IdsHeld' /\ IdsBehind'
    BY <2>1, <2>5 DEF Inv, IdsHeld, IdsBehind, idVars
  <2> QED  BY <2>3, <2>6, <2>7, <2>8, <2>9 DEF Inv
<1> QED  BY <1>1, <1>2

\* What GetId leaves: a number granted is new and behind the counter; a refusal
\* moves the counter past every number.
LEMMA GetIdFacts ==
  ASSUME Inv, GetId
  PROVE  /\ next_id' \in Nat \ {0} /\ generated_ids' \subseteq Nat \ {0} /\ lastId' \in Nat
         /\ generated_ids \subseteq generated_ids'
         /\ reply' = "done" => /\ next_id \notin generated_ids /\ next_id \in generated_ids'
                               /\ \A id \in generated_ids' : id < next_id'
         /\ reply' = "refused" => \A id \in generated_ids' : id < next_id'
         /\ reply' # "done" => \/ UNCHANGED idVars
                               \/ \A id \in generated_ids' : id < next_id'
<1>0. /\ next_id \in Nat \ {0} /\ generated_ids \subseteq Nat \ {0} /\ lastId \in Nat
      /\ \A id \in generated_ids : id <= next_id
  BY DEF Inv, TypeOK, IdsBehind
<1>1. CASE next_id = SIZE_MAX
  BY <1>0, <1>1 DEF GetId, idVars
<1>2. CASE next_id # SIZE_MAX /\ next_id \in generated_ids
  <2>1. /\ next_id' = next_id + 1 /\ generated_ids' = generated_ids /\ lastId' = lastId
        /\ reply' = "refused"
    BY <1>2 DEF GetId
  <2>2. \A id \in generated_ids' : id < next_id'
    BY <1>0, <2>1
  <2> QED  BY <1>0, <2>1, <2>2
<1>3. CASE next_id # SIZE_MAX /\ next_id \notin generated_ids
  <2>1. /\ next_id' = next_id + 1 /\ generated_ids' = generated_ids \cup {next_id}
        /\ lastId' \in generated_ids' /\ reply' = "done"
    BY <1>3 DEF GetId
  <2>2. \A id \in generated_ids' : id < next_id'
    BY <1>0, <2>1
  <2> QED  BY <1>0, <1>3, <2>1, <2>2
<1> QED  BY <1>1, <1>2, <1>3

LEMMA MakeSubcontextInv ==
  ASSUME Inv, NEW w \in Widgets, MakeSubcontext(w)
  PROVE  Inv'
<1>1. /\ obj[w] = Unmade /\ GetId /\ UNCHANGED names
  BY DEF MakeSubcontext
<1>2. CASE reply' = "done"
  <2>1. BeginImpl(w, New(Subcontext, NoName, next_id))
    BY <1>2 DEF MakeSubcontext
  <2>2. ~EndOwed(w) /\ next_id \in Nat
    BY <1>1, UnmadeFacts DEF EndOwed, Inv, TypeOK
  <2>3. Subcontext \in Classes /\ Subcontext.by = "id"
    BY DEF Classes, Subcontext
  <2>4. /\ scopes' \in Seq(Widgets) /\ ScopesNest' /\ Others(w)
        /\ obj'[w].class = Subcontext /\ obj'[w].name = NoName /\ obj'[w].id = next_id
    BY <2>1, <2>2, <2>3, NewIsObject, BeginNests DEF Inv
  <2>5. w \notin Live /\ w \in Live' /\ w \notin NamedBy("name")' /\ w \in NamedBy("id")'
    BY <1>1, <2>3, <2>4, UnmadeFacts DEF Live, NamedBy, Others
  <2>6. /\ NamedBy("id")' = NamedBy("id") \cup {w} /\ w \notin NamedBy("id")
        /\ NamedBy("name")' = NamedBy("name")
        /\ \A v \in NamedBy("name") \cup NamedBy("id") : obj'[v] = obj[v]
    BY <2>4, <2>5, OthersStay DEF Inv, NamedBy
  <2>7. TypeOK'
    BY <1>1, <2>4, GetIdFacts DEF Inv, TypeOK, Others
  <2>8. ClassesKept'
    BY <1>1, <2>3, <2>4 DEF Inv, ClassesKept, Others, Live
  <2>9. NamesHeld'
    BY <1>1, <2>6 DEF Inv, NamesHeld
  <2>10. IdsHeld'
    <3>1. \A v \in NamedBy("id") : obj[v].id # next_id
      BY <1>1, <1>2, GetIdFacts DEF Inv, IdsHeld
    <3>2. next_id \in generated_ids' /\ generated_ids \subseteq generated_ids'
      BY <1>1, <1>2, GetIdFacts
    <3>3. \A v \in NamedBy("id") : obj'[v].id = obj[v].id /\ obj[v].id \in generated_ids
      BY <2>6 DEF Inv, IdsHeld
    <3>4. \A v \in NamedBy("id")' : obj'[v].id \in generated_ids'
      BY <2>4, <2>6, <3>2, <3>3
    <3>5. \A u, v \in NamedBy("id")' : obj'[u].id = obj'[v].id => u = v
      BY <2>4, <2>6, <3>1, <3>3 DEF Inv, IdsHeld
    <3> QED  BY <3>4, <3>5 DEF IdsHeld
  <2>11. IdsBehind'
    BY <1>1, <1>2, GetIdFacts DEF IdsBehind
  <2> QED  BY <2>4, <2>7, <2>8, <2>9, <2>10, <2>11 DEF Inv
<1>3. CASE reply' # "done"
  <2>1. UNCHANGED <<obj, scopes, names>>
    BY <1>3 DEF MakeSubcontext
  <2>0. /\ next_id' \in Nat \ {0} /\ generated_ids' \subseteq Nat \ {0} /\ lastId' \in Nat
    BY <1>1, GetIdFacts
  <2>2. TypeOK' /\ ClassesKept' /\ ScopesNest' /\ NamesHeld'
    BY <2>0, <2>1 DEF Inv, TypeOK, ClassesKept, ScopesNest, NamesHeld,
                      NamedBy, Live, Open, EndOwed
  <2>3. IdsHeld'
    <3>1. NamedBy("id")' = NamedBy("id") /\ generated_ids \subseteq generated_ids'
      BY <1>1, <2>1, GetIdFacts DEF NamedBy, Live
    <3> QED  BY <2>1, <3>1 DEF Inv, IdsHeld
  <2>4. IdsBehind'
    BY <1>1, <1>3, <2>1, GetIdFacts DEF Inv, IdsBehind, NamedBy, Live, idVars
  <2> QED  BY <2>2, <2>3, <2>4 DEF Inv
<1> QED  BY <1>2, <1>3

LEMMA MakeMenuBarInv ==
  ASSUME Inv, NEW w \in Widgets, MakeMenuBar(w)
  PROVE  Inv'
<1>1. /\ obj[w] = Unmade /\ BeginImpl(w, New(MenuBar, NoName, 0)) /\ UNCHANGED <<names, idVars>>
  BY DEF MakeMenuBar
<1>2. ~EndOwed(w)
  BY <1>1, UnmadeFacts DEF EndOwed
<1>3. MenuBar \in Classes /\ MenuBar.by = "place"
  BY DEF Classes, MenuBar
<1>4. /\ scopes' \in Seq(Widgets) /\ ScopesNest' /\ Others(w)
      /\ obj'[w].class = MenuBar /\ obj'[w].name = NoName
  BY <1>1, <1>2, <1>3, NewIsObject, BeginNests DEF Inv
<1>5. w \notin Live /\ w \notin NamedBy("name")' /\ w \notin NamedBy("id")'
  BY <1>1, <1>3, <1>4 DEF Live, NamedBy
<1>6. /\ NamedBy("id")' = NamedBy("id") /\ NamedBy("name")' = NamedBy("name")
      /\ \A v \in NamedBy("name") \cup NamedBy("id") : obj'[v] = obj[v]
  BY <1>4, <1>5, OthersStay DEF Inv, NamedBy
<1>7. TypeOK' /\ ClassesKept'
  BY <1>1, <1>3, <1>4 DEF Inv, TypeOK, ClassesKept, Others, Live, idVars
<1>8. NamesHeld' /\ IdsHeld' /\ IdsBehind'
  BY <1>1, <1>6 DEF Inv, NamesHeld, IdsHeld, IdsBehind, idVars
<1> QED  BY <1>4, <1>7, <1>8 DEF Inv

LEMMA BeginLateInv ==
  ASSUME Inv, NEW w \in Widgets, BeginLate(w)
  PROVE  Inv'
<1>1. w \in Live /\ UNCHANGED <<names, idVars>>
  BY DEF BeginLate
<1>2. CASE obj[w].is_scope_active
  <2>1. UNCHANGED <<obj, scopes>>
    BY <1>2 DEF BeginLate
  <2> QED  BY <1>1, <2>1, StutterInv
<1>3. CASE ~obj[w].is_scope_active
  <2>1. BeginImpl(w, obj[w])
    BY <1>3 DEF BeginLate, BeginImpl
  <2>2. obj[w] \in Object /\ obj[w].class \in Classes /\ ~EndOwed(w)
    BY <1>1, <1>3 DEF Inv, TypeOK, ClassesKept, EndOwed
  <2>3. /\ scopes' \in Seq(Widgets) /\ ScopesNest' /\ Others(w)
        /\ obj'[w].class = obj[w].class /\ obj'[w].name = obj[w].name
        /\ obj'[w].id = obj[w].id
    BY <1>3, <2>1, <2>2, BeginNests DEF Inv
  <2>4. TypeOK'
    BY <1>1, <2>3 DEF Inv, TypeOK, Others, idVars
  <2>5. ClassesKept' /\ NamesHeld' /\ IdsHeld' /\ IdsBehind'
    BY <1>1, <2>3, SameIdentity DEF Others
  <2> QED  BY <2>3, <2>4, <2>5 DEF Inv
<1> QED  BY <1>2, <1>3

LEMMA EndEarlyInv ==
  ASSUME Inv, NEW w \in Widgets, EndEarly(w)
  PROVE  Inv'
<1>1. w \in Live /\ MayEnd(w) /\ UNCHANGED <<names, idVars>>
  BY DEF EndEarly
<1>2. CASE ~obj[w].is_scope_active
  <2>1. UNCHANGED <<obj, scopes>>
    BY <1>2 DEF EndEarly
  <2> QED  BY <1>1, <2>1, StutterInv
<1>3. CASE obj[w].is_scope_active
  <2>1. EndImpl(w) /\ obj' = [obj EXCEPT ![w].is_scope_active = FALSE]
    BY <1>3 DEF EndEarly
  <2>2. /\ Others(w) /\ ~obj'[w].is_scope_active /\ obj'[w].class = obj[w].class
        /\ obj'[w].name = obj[w].name /\ obj'[w].id = obj[w].id
    BY <2>1 DEF Inv, TypeOK, Others, Object
  <2>3. scopes' \in Seq(Widgets) /\ ScopesNest'
    BY <1>1, <2>1, <2>2, EndNests DEF Inv
  <2>4. TypeOK'
    BY <1>1, <2>2, <2>3 DEF Inv, TypeOK, Others, idVars
  <2>5. ClassesKept' /\ NamesHeld' /\ IdsHeld' /\ IdsBehind'
    BY <1>1, <2>2, SameIdentity DEF Others
  <2> QED  BY <2>3, <2>4, <2>5 DEF Inv
<1> QED  BY <1>2, <1>3

\* An identifier in use stays in the set: PopId never finds the number it erases.
LEMMA EraseIdFacts ==
  ASSUME Inv, NEW w \in NamedBy("id"), EraseId(obj[w].id)
  PROVE  /\ next_id' \in Nat \ {0} /\ generated_ids' \subseteq Nat \ {0} /\ UNCHANGED lastId
         /\ \A v \in NamedBy("id") \ {w} : obj[v].id \in generated_ids'
         /\ \/ \A id \in generated_ids' : id < next_id'
            \/ /\ \A id \in generated_ids' : id <= next_id'
               /\ \A v \in NamedBy("id") \ {w} : obj[v].id # lastId
<1>1. /\ obj[w].id \in generated_ids
      /\ \A v \in NamedBy("id") \ {w} : obj[v].id \in generated_ids /\ obj[v].id # obj[w].id
  BY DEF Inv, IdsHeld
<1>2. CASE obj[w].id = lastId
  <2>1. next_id' = next_id - 1 /\ generated_ids' = generated_ids \ {next_id} /\ UNCHANGED lastId
    BY <1>1, <1>2 DEF EraseId
  <2>2. \A id \in generated_ids : id < next_id
    BY <1>2 DEF Inv, IdsBehind
  <2> QED  BY <1>1, <1>2, <2>1, <2>2 DEF Inv, TypeOK
<1>3. CASE obj[w].id # lastId
  <2>1. generated_ids' = generated_ids \ {obj[w].id} /\ UNCHANGED <<next_id, lastId>>
    BY <1>3 DEF EraseId
  <2> QED  BY <1>1, <2>1 DEF Inv, TypeOK, IdsBehind
<1> QED  BY <1>2, <1>3

LEMMA DestroyInv ==
  ASSUME Inv, NEW w \in Widgets, Destroy(w)
  PROVE  Inv'
<1>1. /\ w \in Live /\ MayEnd(w) /\ EndImpl(w) /\ obj' = [obj EXCEPT ![w] = Unmade]
      /\ names' = names \ {obj[w].name}
  BY DEF Destroy
<1>2. Others(w) /\ obj'[w] = Unmade
  BY <1>1, UnmadeFacts DEF Inv, TypeOK, Others
<1>3. scopes' \in Seq(Widgets) /\ ScopesNest'
  BY <1>1, <1>2, EndNests, UnmadeFacts DEF Inv
<1>4. /\ NamedBy("name")' = NamedBy("name") \ {w} /\ NamedBy("id")' = NamedBy("id") \ {w}
      /\ \A v \in (NamedBy("name") \cup NamedBy("id")) \ {w} : obj'[v] = obj[v]
  BY <1>2, OthersStay DEF Inv, NamedBy, Live
<1>5. ClassesKept'
  BY <1>2 DEF Inv, ClassesKept, Others, Live
<1>6. NamesHeld'
  <2>1. CASE w \in NamedBy("name")
    BY <1>1, <1>4, <2>1 DEF Inv, NamesHeld
  <2>2. CASE w \notin NamedBy("name")
    <3>1. obj[w].name = NoName
      BY <1>1, <2>2 DEF Inv, ClassesKept, NamedBy
    <3> QED  BY <1>1, <1>4, <2>2, <3>1, WidgetsAssumption DEF Inv, TypeOK, NamesHeld
  <2> QED  BY <2>1, <2>2
<1>7. TypeOK' /\ IdsHeld' /\ IdsBehind'
  <2>1. CASE w \in NamedBy("id")
    <3>1. EraseId(obj[w].id)
      BY <2>1 DEF Destroy, NamedBy
    <3> QED  BY <1>1, <1>2, <1>3, <1>4, <2>1, <3>1, EraseIdFacts
             DEF Inv, TypeOK, IdsHeld, IdsBehind, Others
  <2>2. CASE w \notin NamedBy("id")
    <3>1. UNCHANGED idVars
      BY <1>1, <2>2 DEF Destroy, NamedBy
    <3> QED  BY <1>1, <1>2, <1>3, <1>4, <2>2, <3>1
             DEF Inv, TypeOK, IdsHeld, IdsBehind, Others, idVars
  <2> QED  BY <2>1, <2>2
<1> QED  BY <1>3, <1>5, <1>6, <1>7 DEF Inv

THEOREM NextInv == Inv /\ [Next]_vars => Inv'
<1> SUFFICES ASSUME Inv, [Next]_vars PROVE Inv'
  OBVIOUS
<1>1. CASE UNCHANGED vars
  BY <1>1, StutterInv DEF vars
<1>2. ASSUME NEW w \in Widgets,
             \/ \E class \in Classes, name \in Names : MakeNamed(w, class, name)
             \/ MakeSubcontext(w) \/ MakeMenuBar(w)
             \/ BeginLate(w) \/ EndEarly(w) \/ Destroy(w)
      PROVE  Inv'
  BY <1>2, MakeNamedInv, MakeSubcontextInv, MakeMenuBarInv, BeginLateInv, EndEarlyInv,
     DestroyInv
<1> QED  BY <1>1, <1>2 DEF Next

-----------------------------------------------------------------------------
(* Theorems of the specification.                                            *)

\* The conjunction the others follow from, ExtImGuiWidget.cpp:17-163.
THEOREM Invariance == Spec => []Inv
<1> QED  BY InitInv, NextInv, PTL DEF Spec

\* No scope of Dear ImGui is ended twice or left open by the object that began
\* it, whatever its Begin answers (ScopedWidgetBase).
THEOREM ScopesAlwaysNest == Spec => []ScopesNest
<1>1. Inv => ScopesNest
  BY DEF Inv
<1> QED  BY <1>1, Invariance, PTL

LEMMA RefusedStep == Inv /\ RefusedOnce /\ [Next]_vars => RefusedOnce'
<1> SUFFICES ASSUME Inv, RefusedOnce, [Next]_vars, reply' = "refused"
             PROVE  next_id' \notin generated_ids'
  BY DEF RefusedOnce
<1>1. CASE UNCHANGED vars
  BY <1>1 DEF vars, idVars, RefusedOnce
<1>2. ASSUME NEW w \in Widgets, MakeSubcontext(w)
      PROVE  next_id' \notin generated_ids'
  <2>1. GetId
    BY <1>2 DEF MakeSubcontext
  <2>2. \A id \in generated_ids' : id < next_id'
    BY <2>1, GetIdFacts
  <2>3. next_id' \in Nat
    BY <2>1, GetIdFacts
  <2> QED  BY <2>2, <2>3
<1>3. ASSUME NEW w \in Widgets, ~MakeSubcontext(w),
             \/ \E class \in Classes, name \in Names : MakeNamed(w, class, name)
             \/ MakeMenuBar(w) \/ BeginLate(w) \/ EndEarly(w) \/ Destroy(w)
      PROVE  FALSE
  BY <1>3 DEF MakeNamed, MakeMenuBar, BeginLate, EndEarly, Destroy
<1> QED  BY <1>1, <1>2, <1>3 DEF Next

\* Names and identifiers of live widgets are unique, although UIDGen goes back
\* and erases the wrong number, and no two requests in a row are refused
\* (ExtImGuiWidget.cpp:18-41).
THEOREM IdentitiesUnique == Spec => []IdentitiesHeld
<1>1. Init => RefusedOnce
  BY DEF Init, RefusedOnce
<1>2. Inv /\ RefusedOnce => IdentitiesHeld
  BY DEF Inv, IdentitiesHeld
<1> QED  BY <1>1, <1>2, InitInv, NextInv, RefusedStep, PTL DEF Spec
=============================================================================
