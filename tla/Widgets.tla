------------------------------ MODULE Widgets -------------------------------
(***************************************************************************)
(* The scoped widgets of cgui: an object calls Dear ImGui's Begin when it  *)
(* is made or later, End when it is destroyed or earlier, and holds a name *)
(* or a number no other widget has.  CIDR keeps delayed widgets as members *)
(* and begins and ends them once per frame.  Dear ImGui is external: it    *)
(* keeps a stack of the scopes that were begun.                            *)
(***************************************************************************)
EXTENDS Integers, Sequences, FiniteSets

CONSTANTS
    Widgets,   \* the objects
    Names,     \* titles and labels
    NoName,
    SIZE_MAX   \* where the generator of identifiers stops

ASSUME WidgetsAssumption == NoName \notin Names /\ SIZE_MAX \in Nat \ {0}

VARIABLES
    obj,           \* the object of each widget, or Unmade
    scopes,        \* Dear ImGui's stack, innermost scope last
    names,         \* UniqueNameMap
    next_id,
    generated_ids, \* UIDGen
    lastId,        \* what std::prev(generated_ids_.end()) points to
    reply          \* how the last call ended

idVars == <<next_id, generated_ids, lastId>>
vars == <<obj, scopes, names, idVars, reply>>

-----------------------------------------------------------------------------
(* The classes: which scope each begins, whether End is called even if       *)
(* Begin returned false, and what identifies the object.                     *)

\* Slip: a window treated as the other widgets are.
WindowEndsIfOn == [begins |-> "Begin", force |-> FALSE, by |-> "name"]

Window          == [begins |-> "Begin",        force |-> TRUE,  by |-> "name"]
Subcontext      == [begins |-> "BeginChild",   force |-> TRUE,  by |-> "id"]
NamedSubcontext == [begins |-> "BeginChild",   force |-> TRUE,  by |-> "name"]
MenuBar         == [begins |-> "BeginMenuBar", force |-> FALSE, by |-> "place"]
Menu            == [begins |-> "BeginMenu",    force |-> FALSE, by |-> "name"]
TabBar          == [begins |-> "BeginTabBar",  force |-> FALSE, by |-> "name"]
TabItem         == [begins |-> "BeginTabItem", force |-> FALSE, by |-> "name"]
TreeNode        == [begins |-> "TreeNode",     force |-> FALSE, by |-> "name"]

Classes == {Window, Subcontext, NamedSubcontext, MenuBar, Menu, TabBar, TabItem, TreeNode}
Nothing == [begins |-> "nothing", force |-> FALSE, by |-> "nothing"]

\* Dear ImGui opens these scopes even when it answers that nothing of them shows.
AlwaysOpens == {"Begin", "BeginChild"}

New(class, name, id) ==
    [class |-> class, name |-> name, id |-> id, is_scope_active |-> FALSE, is_on |-> FALSE]
Unmade == New(Nothing, NoName, 0)   \* Dear ImGui reserves identifier 0

Live == {w \in Widgets : obj[w] # Unmade}
NamedBy(key) == {w \in Live : obj[w].class.by = key}

-----------------------------------------------------------------------------
(* ScopedWidgetBase.                                                         *)

BoundBegin(w, o) ==
    \E on \in BOOLEAN :
       /\ obj' = [obj EXCEPT ![w] = [o EXCEPT !.is_scope_active = TRUE, !.is_on = on]]
       /\ scopes' = IF on \/ o.class.begins \in AlwaysOpens THEN Append(scopes, w) ELSE scopes

\* A constructor begins the scope unless the widget is delayed.
BeginImpl(w, o) ==
    \/ BoundBegin(w, o)
    \/ obj' = [obj EXCEPT ![w] = o] /\ UNCHANGED scopes

\* EndImpl and ForceEndImpl: Dear ImGui ends whatever scope is innermost.
EndOwed(w) == obj[w].is_scope_active /\ (obj[w].class.force \/ obj[w].is_on)
EndImpl(w) ==
    scopes' = IF EndOwed(w) THEN SubSeq(scopes, 1, Len(scopes) - 1) ELSE scopes

\* The user's part: scopes are ended innermost first.
Open(w) == \E i \in DOMAIN scopes : scopes[i] = w
MayEnd(w) == Open(w) => scopes[Len(scopes)] = w

-----------------------------------------------------------------------------
(* UIDGen.                                                                   *)

\* Slip: the set is not asked.
GetIdUnchecked ==
    IF next_id = SIZE_MAX
    THEN reply' = "overflow" /\ UNCHANGED idVars
    ELSE /\ next_id' = next_id + 1
         /\ generated_ids' = generated_ids \cup {next_id}
         /\ lastId' \in generated_ids'
         /\ reply' = "done"

\* The counter moves on before the set is asked.  Where a new element of the
\* hash set is linked in, and so which is last, is up to the library.
GetId ==
    IF next_id = SIZE_MAX
    THEN reply' = "overflow" /\ UNCHANGED idVars
    ELSE /\ next_id' = next_id + 1
         /\ IF next_id \in generated_ids
            THEN reply' = "refused" /\ UNCHANGED <<generated_ids, lastId>>
            ELSE /\ generated_ids' = generated_ids \cup {next_id}
                 /\ lastId' \in generated_ids'
                 /\ reply' = "done"

\* PopId erases the number that would come next, not the one released.
EraseId(id) ==
    IF generated_ids # {} /\ id = lastId
    THEN /\ generated_ids' = generated_ids \ {next_id}
         /\ next_id' = next_id - 1
         /\ UNCHANGED lastId
    ELSE generated_ids' = generated_ids \ {id} /\ UNCHANGED <<next_id, lastId>>

-----------------------------------------------------------------------------
(* What the program does with a widget.                                      *)

\* The constructors of the classes with a name throw if it is in use.
MakeNamed(w, class, name) ==
    /\ obj[w] = Unmade /\ class.by = "name"
    /\ IF name \in names
       THEN reply' = "taken" /\ UNCHANGED <<obj, scopes, names>>
       ELSE /\ names' = names \cup {name}
            /\ BeginImpl(w, New(class, name, 0))
            /\ reply' = "done"
    /\ UNCHANGED idVars

MakeSubcontext(w) ==
    /\ obj[w] = Unmade
    /\ GetId
    /\ IF reply' = "done"
       THEN BeginImpl(w, New(Subcontext, NoName, next_id))
       ELSE UNCHANGED <<obj, scopes>>
    /\ UNCHANGED names

MakeMenuBar(w) ==
    /\ obj[w] = Unmade
    /\ BeginImpl(w, New(MenuBar, NoName, 0))
    /\ reply' = "done" /\ UNCHANGED <<names, idVars>>

BeginLate(w) ==
    /\ w \in Live
    /\ IF obj[w].is_scope_active
       THEN UNCHANGED <<obj, scopes>>
       ELSE BoundBegin(w, obj[w])
    /\ reply' = "done" /\ UNCHANGED <<names, idVars>>

EndEarly(w) ==
    /\ w \in Live /\ MayEnd(w)
    /\ IF obj[w].is_scope_active
       THEN /\ EndImpl(w)
            /\ obj' = [obj EXCEPT ![w].is_scope_active = FALSE]
            /\ reply' = "done"
       ELSE reply' = "unbegun" /\ UNCHANGED <<obj, scopes>>
    /\ UNCHANGED <<names, idVars>>

Destroy(w) ==
    /\ w \in Live /\ MayEnd(w)
    /\ EndImpl(w)
    /\ obj' = [obj EXCEPT ![w] = Unmade]
    /\ names' = names \ {obj[w].name}
    /\ IF obj[w].class.by = "id" THEN EraseId(obj[w].id) ELSE UNCHANGED idVars
    /\ reply' = "done"

Init ==
    /\ obj = [w \in Widgets |-> Unmade]
    /\ scopes = <<>> /\ names = {}
    /\ next_id = 1 /\ generated_ids = {} /\ lastId = 0
    /\ reply = "done"

Next ==
    \E w \in Widgets :
       \/ \E class \in Classes, name \in Names : MakeNamed(w, class, name)
       \/ MakeSubcontext(w) \/ MakeMenuBar(w)
       \/ BeginLate(w) \/ EndEarly(w) \/ Destroy(w)

Spec == Init /\ [][Next]_vars

-----------------------------------------------------------------------------
(* Properties.                                                               *)

Object == [class : Classes \cup {Nothing}, name : Names \cup {NoName}, id : Nat,
           is_scope_active : BOOLEAN, is_on : BOOLEAN]

TypeOK ==
    /\ obj \in [Widgets -> Object]
    /\ scopes \in Seq(Widgets) /\ names \subseteq Names
    /\ next_id \in Nat \ {0} /\ generated_ids \subseteq Nat \ {0} /\ lastId \in Nat

\* However widgets are begun, ended and destroyed, Dear ImGui's open scopes are
\* those of the objects that will still end them, each once: none is ended
\* twice, and none is left open when its object is gone.
ScopesNest ==
    /\ \A i, j \in DOMAIN scopes : scopes[i] = scopes[j] => i = j
    /\ \A w \in Widgets : Open(w) <=> EndOwed(w)

\* The map holds the names of the live widgets and no others, so a name can be
\* taken again once it is released.
NamesHeld ==
    /\ names = {obj[w].name : w \in NamedBy("name")}
    /\ \A v, w \in NamedBy("name") : obj[v].name = obj[w].name => v = w

IdsHeld ==
    /\ \A w \in NamedBy("id") : obj[w].id \in generated_ids
    /\ \A v, w \in NamedBy("id") : obj[v].id = obj[w].id => v = w

\* No identifier in use is ahead of the counter; one can only be level with it
\* while the last element of the set belongs to no widget, so that the counter
\* cannot go back again.
IdsBehind ==
    \/ \A id \in generated_ids : id < next_id
    \/ /\ \A id \in generated_ids : id <= next_id
       /\ \A w \in NamedBy("id") : obj[w].id # lastId

\* A subcontext is refused the identifier of one that was destroyed, since PopId
\* left it in the set; but the next that asks is not refused.
RefusedOnce == reply = "refused" => next_id \notin generated_ids

ClassesKept ==
    \A w \in Live : /\ obj[w].class \in Classes
                    /\ obj[w].class.by = "name" <=> obj[w].name # NoName
                    /\ obj[w].class.by = "id" => obj[w].class = Subcontext

\* ExtImGuiWidget.hpp:36-37: names and identifiers are unique and those of the
\* live widgets, although the counter goes back when the last identifier is
\* released and PopId erases another number than that one.
IdentitiesHeld ==
    TypeOK /\ ClassesKept /\ NamesHeld /\ IdsHeld /\ IdsBehind /\ RefusedOnce

\* What the proofs carry from state to state.
Inv == TypeOK /\ ClassesKept /\ ScopesNest /\ NamesHeld /\ IdsHeld /\ IdsBehind
=============================================================================
