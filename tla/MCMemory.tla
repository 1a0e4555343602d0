------------------------------ MODULE MCMemory ------------------------------
(* Who owns what: the cycle collector, the sweep of dead shells, weak
   references, maps, lists and the values of std.reflect.  One behaviour
   follows one of them; the others keep their variables at 0, and the
   threads of HuskSweep and the weak references take no step. *)
EXTENDS HuskSweep, WeakRefs, Integers, SequencesExt

CONSTANTS Nothing, Obj, Fin, Budget, SelfTouch, MaxEdges,
          LinearMax, FirstIcap, Word, Reserves,
          Reentrant, NoElem, MaxLen, MaxStore, Base, Crossover

VARIABLES sel,  \* the part this behaviour is about
          pmem, edges, held, prc, fin, ran, pcolor, pbuf, shared, groots,
          lroots, batching, work, st, aux, walk, local, saw, dead, met, ops,
          cap, ordered, ints, ents, words,
          idx, tombs, it, clr, ref, kown, vown, narrow, len, store, refs, job,
          last, torn, program, hashing, calls, rows, index, orphans, box,
          ours, err

partsVars == <<sel, vars, weakVars, pmem, edges, held, prc, fin, ran, pcolor, pbuf,
            shared, groots, lroots, batching, work, st, aux, walk, local, saw,
            dead, met, ops, cap, ordered,
            ints, ents, words, idx, tombs, it, clr, ref, kown, vown, narrow,
            len, store, refs, job, last, torn, program, hashing, calls, rows,
            index, orphans, box, ours, err>>

CONSTANTS wa, wb, wc, wd,  \* the objects of the weak table; two of them hash alike
          e1, e2, e3, e4,  \* the elements of the list; two of them compare equal
          b1, b2, b3       \* boxes of std.reflect, interchangeable

WeakReferents == {wa, wb, wc, wd}
WeakHash == (wa :> 3) @@ (wb :> 3) @@ (wc :> 0) @@ (wd :> 7)
MapHash  == ("a" :> 0) @@ ("b" :> 0) @@ ("c" :> 1)
MapFrag  == ("a" :> 1) @@ ("b" :> 1) @@ ("c" :> 1)
MapKinds == {<<TRUE, FALSE>>, <<FALSE, TRUE>>}
MapPairs == {<<"a", 0>>, <<"a", 1>>, <<"b", 0>>, <<"c", 1>>}
ElemKey  == (e1 :> 1) @@ (e2 :> 1) @@ (e3 :> -1) @@ (e4 :> 4)

Collect == INSTANCE CycleCollector WITH MaxOps <- 1, mem <- pmem, rc <- prc, color <- pcolor, buf <- pbuf
Map == INSTANCE HashMap WITH Hash <- MapHash, Frag <- MapFrag, Kinds <- MapKinds, Pairs <- MapPairs, FirstCap <- 2, Keys <- {"a", "b", "c"}, Values <- {0, 1}
List == INSTANCE ListSort WITH Key <- ElemKey, mem <- pmem, FirstCap <- 2, Elems <- {e1, e2, e3, e4}

\* Small programs for std.reflect: a generic class, a class that closes it,
\* an interface above another and a struct, in several orders and with several
\* initializers; and a program that boxes objects and passes them to
\* everything that can be called.
Name(b) == [base |-> b, args |-> <<>>]
T(b, a) == [base |-> b, args |-> <<a>>]
Note(n, v) == [name |-> n, retention |-> "runtime", values |-> v]
Tag == Note("Tag", <<[text |-> "list", items |-> <<"x", "y">>], [text |-> "one", items |-> <<>>]>>)
SourceOnly == [name |-> "SourceOnly", retention |-> "source", values |-> <<>>]

Param(n, t, p) == [name |-> n, type |-> t, passing |-> p, annotations |-> <<Tag>>]
Field(n, t) == [name |-> n, type |-> t, public |-> TRUE, weak |-> FALSE, annotations |-> <<SourceOnly, Tag>>]
WeakField(n, t) == [Field(n, t) EXCEPT !.weak = TRUE]
Fun(o, n, ps) ==
    [owner |-> o, name |-> n, flags |-> {"public", "body"}, parameters |-> ps,
     result |-> Name("unit"), annotations |-> <<Tag, SourceOnly, Tag>>]
Decl(n, k, e, i) ==
    [name |-> n, kind |-> k, generics |-> {}, abstract |-> FALSE, public |-> TRUE, extends |-> e,
     implements |-> i, fields |-> <<>>, variants |-> <<>>, annotations |-> <<Tag>>]

Shape == Decl("Shape", "interface", Nothing, <<>>)
Named == Decl("Named", "interface", Name("Shape"), <<>>)
Grid == [Decl("Grid", "class", Nothing, <<>>) EXCEPT !.generics = {"T"},
           !.fields = <<Field("item", Name("T")), Field("size", Name("int"))>>]
Mid == [Decl("Mid", "class", T("Grid", "T"), <<>>) EXCEPT !.generics = {"T"}]
Leaf(base) == [Decl("Leaf", "class", base, <<Name("Named")>>) EXCEPT
           !.fields = <<Field("size", Name("i64")), WeakField("up", Name("Leaf"))>>]
Point == [Decl("Point", "struct", Nothing, <<>>) EXCEPT !.fields = <<Field("x", Name("int")), Field("y", Name("int"))>>]
SignalEnum == [Decl("Signal", "enum", Nothing, <<>>) EXCEPT
           !.variants = <<[name |-> "idle", parameters |-> <<>>, annotations |-> <<>>],
                          [name |-> "pair", annotations |-> <<Tag>>,
                           parameters |-> <<Param("p", Name("int"), "move"), Param("q", Name("int"), "move")>>]>>]

\* Leaf has no init, one with parameters, or one without any.
Inits(k) ==
    CASE k = "none"  -> <<>>
      [] k = "takes" -> <<Fun("Leaf", "init", <<Param("leaf", Name("int"), "")>>)>>
      [] k = "bare"  -> <<Fun("Leaf", "init", <<>>)>>
Functions(k) ==
    <<Fun("Grid", "init", <<Param("grid", Name("int"), "")>>),
      Fun("Grid", "draw", <<Param("a", Name("int"), ""), Param("b", Name("T"), "move")>>),
      [Fun("Grid", "clear", <<>>) EXCEPT !.flags = @ \union {"static"}],
      Fun("Leaf", "draw", <<Param("c", Name("int"), "inout")>>)>>
    \o Inits(k) \o <<Fun(Nothing, "main", <<Param("argv", Name("string"), "move")>>), Fun("Shape", "area", <<>>)>>

TagDecl ==
    [name |-> "Tag", retention |-> "runtime", targets |-> <<"class", "field">>, annotations |-> <<Tag>>,
     fields |-> <<[name |-> "list", default |-> [text |-> "d", items |-> <<"i">>]], [name |-> "one", default |-> Nothing]>>]
Orders ==
    {<<Shape, Named, Grid, Leaf(T("Grid", "int")), Point>>, <<Leaf(T("Grid", "int")), SignalEnum, Grid, Named, Shape>>,
     <<Point, Leaf(T("Mid", "int")), Mid, Grid, Shape, Named>>}
Registries ==
    {[annotation_declarations |-> <<TagDecl>>, declarations |-> o, functions |-> Functions(k),
      asks |-> {}, ops |-> 0] : o \in Orders, k \in {"none", "takes", "bare"}}

\* A class, its subclass with an interface, a struct and an enum; the boxes
\* hold an object of the class and one of the subclass.
Arg(n, t, p) == [name |-> n, type |-> Name(t), passing |-> p, annotations |-> <<>>]
Quietly(x) == [x EXCEPT !.annotations = <<>>]
Thing == Quietly([Decl("Thing", "class", Nothing, <<>>) EXCEPT
           !.fields = <<Quietly(Field("peer", Name("Thing"))), [Quietly(Field("size", Name("int"))) EXCEPT !.public = FALSE]>>])
Sub == Quietly(Decl("Sub", "class", Name("Thing"), <<Name("Shape")>>))
Pair == Quietly([Decl("Pair", "struct", Nothing, <<>>) EXCEPT !.fields = <<Quietly(Field("x", Name("Thing")))>>])
Event == Quietly([Decl("Event", "enum", Nothing, <<>>) EXCEPT
           !.variants = <<[name |-> "seen", annotations |-> <<>>, parameters |-> <<Arg("by", "Shape", "move")>>]>>])
Does(o, n, ps) == Quietly(Fun(o, n, ps))
Calling ==
    [annotation_declarations |-> <<>>,
     declarations |-> <<Quietly(Shape), Sub, Thing, Pair, Event>>,
     functions |->
       <<Does("Thing", "draw", <<Arg("a", "Thing", "move")>>), Does("Sub", "draw", <<Arg("a", "Thing", "move")>>),
         Does("Thing", "init", <<Arg("seed", "Thing", "")>>),
         [Does("Thing", "clear", <<>>) EXCEPT !.flags = @ \union {"static"}],
         Does(Nothing, "main", <<Arg("a", "Thing", "move"), Arg("b", "Shape", "move")>>),
         Does(Nothing, "area", <<Arg("a", "Thing", "inout")>>)>>,
     asks |-> {[what |-> "method", owner |-> Name("Thing"), name |-> "draw"],
               [what |-> "method", owner |-> Name("Sub"), name |-> "clear"],
               [what |-> "initializer", owner |-> Name("Sub"), name |-> ""],
               [what |-> "initializer", owner |-> Name("Pair"), name |-> ""],
               [what |-> "function", owner |-> Name("Shape"), name |-> "main"],
               [what |-> "function", owner |-> Name("Shape"), name |-> "area"],
               [what |-> "variant", owner |-> Name("Event"), name |-> "seen"],
               [what |-> "field", owner |-> Name("Thing"), name |-> "peer"],
               [what |-> "field", owner |-> Name("Sub"), name |-> "size"]},
     ops |-> 3]
CallingPrograms == {Calling}
MCPrograms == Registries \union CallingPrograms

Words == <<"Shape", "Named", "Grid", "Mid", "Leaf", "Point", "Signal", "int", "i64", "unit", "string", "T", "Tag",
           "Thing", "Sub", "Pair", "Event">>
Callables == <<"init", "draw", "clear", "area", "main">>
HashKeys ==
    {<<w>> : w \in ToSet(Words) \union ToSet(Callables)}
    \union {<<w, c>> : w \in ToSet(Words), c \in ToSet(Callables)}
Position(w) == CHOOSE i \in 1..22 : (Words \o Callables)[i] = w
Number(k) == Position(k[1]) + (IF Len(k) = 1 THEN 0 ELSE 30 * Position(k[2]))
\* Every key its own hash, all keys one hash, and hashes that share a few slots.
MCHashings ==
    {[k \in HashKeys |-> Number(k)], [k \in HashKeys |-> 1], [k \in HashKeys |-> 2 + 8 * (Number(k) % 3)]}
OneHashing == {[k \in HashKeys |-> Number(k)]}

Objs == {"thing", "sub"}
ObjType == [o \in Objs |-> Name(IF o = "sub" THEN "Sub" ELSE "Thing")]
Calls == INSTANCE ReflectCall WITH Programs <- MCPrograms, Hashings <- MCHashings, FirstSlots <- 4, TagSpan <- 64,
           None <- Nothing, Objects <- Objs, TypeOf <- ObjType, Plain <- "plain", Boxes <- {b1, b2, b3}, MaxArgs <- 2,
           SharesBoxes <- FALSE, UsesEmptied <- FALSE, Panics <- FALSE
BoxesAlike == Permutations({b1, b2, b3})

PartsInit ==
    \/ /\ sel = "collect" /\ Collect!Init /\ Init /\ WeakInit
          /\ cap = 0 /\ ordered = 0 /\ ints = 0 /\ ents = 0 /\ words = 0
          /\ idx = 0 /\ tombs = 0 /\ it = 0 /\ clr = 0 /\ ref = 0
          /\ kown = 0 /\ vown = 0 /\ narrow = 0 /\ len = 0 /\ store = 0
          /\ refs = 0 /\ job = 0 /\ last = 0 /\ torn = 0 /\ program = 0
          /\ hashing = 0 /\ calls = 0 /\ rows = 0 /\ index = 0
          /\ orphans = 0 /\ box = 0 /\ ours = 0 /\ err = 0
    \/ /\ sel = "sweep" /\ Init /\ WeakInit
       /\ pmem = 0 /\ edges = 0 /\ held = 0 /\ prc = 0 /\ fin = 0 /\ ran = 0
          /\ pcolor = 0 /\ pbuf = 0 /\ shared = 0 /\ groots = 0
          /\ lroots = 0 /\ batching = 0 /\ work = 0 /\ st = 0 /\ aux = 0
          /\ walk = 0 /\ local = 0 /\ saw = 0 /\ dead = 0 /\ met = 0
          /\ ops = 0 /\ cap = 0 /\ ordered = 0 /\ ints = 0 /\ ents = 0
          /\ words = 0 /\ idx = 0 /\ tombs = 0 /\ it = 0 /\ clr = 0
          /\ ref = 0 /\ kown = 0 /\ vown = 0 /\ narrow = 0 /\ len = 0
          /\ store = 0 /\ refs = 0 /\ job = 0 /\ last = 0 /\ torn = 0
          /\ program = 0 /\ hashing = 0 /\ calls = 0 /\ rows = 0
          /\ index = 0 /\ orphans = 0 /\ box = 0 /\ ours = 0 /\ err = 0
    \/ /\ sel = "weak" /\ Init /\ WeakInit
       /\ pmem = 0 /\ edges = 0 /\ prc = 0 /\ cap = 0 /\ held = 0 /\ fin = 0 /\ ran = 0
          /\ pcolor = 0 /\ pbuf = 0 /\ shared = 0 /\ groots = 0
          /\ lroots = 0 /\ batching = 0 /\ work = 0 /\ st = 0 /\ aux = 0
          /\ walk = 0 /\ local = 0 /\ saw = 0 /\ dead = 0 /\ met = 0
          /\ ops = 0 /\ ordered = 0 /\ ints = 0 /\ ents = 0 /\ words = 0
          /\ idx = 0 /\ tombs = 0 /\ it = 0 /\ clr = 0 /\ ref = 0
          /\ kown = 0 /\ vown = 0 /\ narrow = 0 /\ len = 0 /\ store = 0
          /\ refs = 0 /\ job = 0 /\ last = 0 /\ torn = 0 /\ program = 0
          /\ hashing = 0 /\ calls = 0 /\ rows = 0 /\ index = 0
          /\ orphans = 0 /\ box = 0 /\ ours = 0 /\ err = 0
    \/ /\ sel = "map" /\ Map!Init /\ Init /\ WeakInit
       /\ pmem = 0 /\ edges = 0 /\ held = 0 /\ prc = 0 /\ fin = 0 /\ ran = 0
          /\ pcolor = 0 /\ pbuf = 0 /\ shared = 0 /\ groots = 0
          /\ lroots = 0 /\ batching = 0 /\ work = 0 /\ st = 0 /\ aux = 0
          /\ walk = 0 /\ local = 0 /\ saw = 0 /\ dead = 0 /\ met = 0
          /\ ops = 0 /\ narrow = 0 /\ len = 0 /\ store = 0 /\ refs = 0
          /\ job = 0 /\ last = 0 /\ torn = 0 /\ program = 0 /\ hashing = 0
          /\ calls = 0 /\ rows = 0 /\ index = 0 /\ orphans = 0 /\ box = 0
          /\ ours = 0 /\ err = 0
    \/ /\ sel = "list" /\ List!Init /\ Init /\ WeakInit
       /\ edges = 0 /\ held = 0 /\ prc = 0 /\ fin = 0 /\ ran = 0
          /\ pcolor = 0 /\ pbuf = 0 /\ shared = 0 /\ groots = 0
          /\ lroots = 0 /\ batching = 0 /\ work = 0 /\ st = 0 /\ aux = 0
          /\ walk = 0 /\ local = 0 /\ saw = 0 /\ dead = 0 /\ met = 0
          /\ ops = 0 /\ cap = 0 /\ ordered = 0 /\ ints = 0 /\ ents = 0
          /\ words = 0 /\ idx = 0 /\ tombs = 0 /\ it = 0 /\ clr = 0
          /\ ref = 0 /\ kown = 0 /\ vown = 0 /\ program = 0 /\ hashing = 0
          /\ calls = 0 /\ rows = 0 /\ index = 0 /\ orphans = 0 /\ box = 0
          /\ ours = 0 /\ err = 0
    \/ /\ sel = "reflect" /\ Calls!Init /\ Init /\ WeakInit
       /\ pmem = 0 /\ edges = 0 /\ held = 0 /\ prc = 0 /\ fin = 0
          /\ pcolor = 0 /\ pbuf = 0 /\ shared = 0 /\ groots = 0
          /\ lroots = 0 /\ batching = 0 /\ work = 0 /\ st = 0 /\ aux = 0
          /\ walk = 0 /\ local = 0 /\ saw = 0 /\ dead = 0 /\ met = 0
          /\ cap = 0 /\ ordered = 0 /\ ints = 0 /\ ents = 0 /\ words = 0
          /\ idx = 0 /\ tombs = 0 /\ it = 0 /\ clr = 0 /\ ref = 0
          /\ kown = 0 /\ vown = 0 /\ narrow = 0 /\ len = 0 /\ store = 0
          /\ job = 0 /\ last = 0 /\ torn = 0

CollectStep ==
    /\ sel = "collect" /\ Collect!Next
    /\ UNCHANGED <<sel, weakVars, vars, cap, ordered,
                   ints, ents, words, idx, tombs, it, clr, ref, kown, vown,
                   narrow, len, store, refs, job, last, torn, program,
                   hashing, calls, rows, index, orphans, box, ours, err>>
SweepPartStep ==
    /\ sel = "sweep" /\ Next
    /\ UNCHANGED <<sel, weakVars, pmem, edges, held, prc, fin, ran, pcolor, pbuf,
                   shared, groots, lroots, batching, work, st, aux, walk,
                   local, saw, dead, met, ops, cap, ordered, ints, ents, words, idx, tombs, it,
                   clr, ref, kown, vown, narrow, len, store, refs, job, last,
                   torn, program, hashing, calls, rows, index, orphans, box,
                   ours, err>>
WeakStep ==
    /\ sel = "weak" /\ WeakNext
    /\ UNCHANGED <<sel, vars, cap, prc, pmem, edges, held, fin, ran, pcolor, pbuf,
                   shared, groots, lroots, batching, work, st, aux, walk,
                   local, saw, dead, met, ops, ordered, ints, ents, words,
                   idx, tombs, it, clr, ref, kown, vown, narrow, len, store,
                   refs, job, last, torn, program, hashing, calls, rows,
                   index, orphans, box, ours, err>>
MapStep ==
    /\ sel = "map" /\ Map!Next
    /\ UNCHANGED <<sel, weakVars, vars, pmem, edges, held, prc, fin, ran, pcolor, pbuf,
                   shared, groots, lroots, batching, work, st, aux, walk,
                   local, saw, dead, met, ops, narrow, len, store, refs, job, last, torn, program,
                   hashing, calls, rows, index, orphans, box, ours, err>>
ListStep ==
    /\ sel = "list" /\ List!Next
    /\ UNCHANGED <<sel, weakVars, vars, edges, held, prc, fin, ran, pcolor, pbuf,
                   shared, groots, lroots, batching, work, st, aux, walk,
                   local, saw, dead, met, ops, cap, ordered, ints, ents, words, idx, tombs, it,
                   clr, ref, kown, vown, program, hashing, calls, rows, index,
                   orphans, box, ours, err>>
CallsStep ==
    /\ sel = "reflect" /\ Calls!Next
    /\ UNCHANGED <<sel, weakVars, vars, pmem, edges, held, prc, fin, pcolor, pbuf,
                   shared, groots, lroots, batching, work, st, aux, walk,
                   local, saw, dead, met, cap, ordered, ints, ents, words, idx, tombs, it, clr, ref,
                   kown, vown, narrow, len, store, job, last, torn>>

PartsNext == CollectStep \/ SweepPartStep \/ WeakStep \/ MapStep \/ ListStep
    \/ CallsStep

PartsSpec == PartsInit /\ [][PartsNext]_partsVars

\* CycleCollector: Between two steps of the program the counts are those of
\* the graph, nothing dangles, every dead cycle is still a candidate, and
\* each deinit body ran once (beans_release, cc_collect, cc_worker_collect).
CollectionExact == sel = "collect" => Collect!CollectionExact

\* HashMap: Index, holes and entries move together: a map finds and owns
\* exactly what was stored, in order where it promises one, and a loop that
\* removes sees each entry once (map_find, map_remove_found,
\* beans_map_clear).
MapExact == sel = "map" => Map!MapExact

\* ListSort: A sort is a stable permutation, or, when its comparator panics
\* or changes the list, leaves the list owning what it owned
\* (list_merge_sort, rt_sort_check, beans_list_clear).
ListExact == sel = "list" => List!ListExact

\* Maps and lists own and find what was put into them (HashMap, ListSort).
ContainersExact == MapExact /\ ListExact

\* ReflectRegistry: what a query finds in the tables is what the declarations
\* say.  Only registration changes them, so they are judged before the program
\* starts to use them (reflect_resize_index, reflect_type_id).
RegistryExact == sel = "reflect" /\ ops = 0 => Calls!RegistryFaithful

\* ReflectCall: every reference is owned once, by a box or by the program
\* (reflect_invoke, beans_reflect_value_drop).
PayloadsOwned == sel = "reflect" => Calls!PayloadsOwned

\* ReflectCall: a thunk runs with the receiver and the arguments that its
\* declaration asks for, and a method is the one the receiver's class would
\* run (reflect_invoke, reflect_method_invoke).
CallsChecked == sel = "reflect" => Calls!CallsChecked

=============================================================================
