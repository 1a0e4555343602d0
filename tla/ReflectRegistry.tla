-------------------------- MODULE ReflectRegistry --------------------------
(***************************************************************************)
(* The metadata behind std.reflect: before main, the code the compiler     *)
(* emitted (src/src/llvm_emit_reflect.b) registers every declaration of    *)
(* the program with the runtime (src/runtime/beans_rt.c), row by row; then *)
(* every query resolves names in those tables.                             *)
(*                                                                         *)
(* A name is its base and its type arguments.  Tables are sequences, an id *)
(* is a position from 1 and 0 means none.  Flags are sets of words.        *)
(***************************************************************************)
EXTENDS Integers, Sequences, FiniteSets, SequencesExt

CONSTANTS
    Programs,    \* the programs: what the compiler knows of declarations
    Hashings,    \* hash functions, from hash keys to positive numbers
    FirstSlots,  \* slots of a new index (256)
    TagSpan,     \* the ids of one namespace of handles (2^56)
    None

VARIABLES
    program, hashing,
    calls,       \* registration calls that are still to come
    rows,        \* the tables
    index,       \* hash indexes over types, methods and functions
    orphans      \* attach lists that miss a row

regvars == <<program, hashing, calls, rows, index, orphans>>

Name(b) == [base |-> b, args |-> <<>>]
Least(S) == IF S = {} THEN 0 ELSE CHOOSE i \in S : \A j \in S : i <= j
Ids(table, P(_)) == {i \in DOMAIN table : P(table[i])}
Filed(table, P(_)) == SelectSeq([i \in DOMAIN table |-> i], LAMBDA i : P(table[i]))

(***************************************************************************)
(* Names                                                                   *)
(***************************************************************************)
Bare(n) == n.args = <<>>
reflect_base_equal(left, right) == left.base = right.base

reflect_scalar_alias(a, b) ==
    /\ Bare(a) /\ Bare(b)
    /\ {a.base, b.base} \in {{"f64", "float"}, {"i64", "int"}, {"byte", "u8"}}

reflect_name_assignable(wanted, actual) ==
    \/ wanted = actual
    \/ reflect_scalar_alias(wanted, actual)
    \/ Bare(wanted) /\ reflect_base_equal(wanted, actual)

(***************************************************************************)
(* The indexes: open addressing, a slot holds the hash and the id.         *)
(***************************************************************************)
EmptySlot == [hash |-> 0, id |-> 0]
NewIndex == [slots |-> <<>>, len |-> 0]
Probe(slots, hash, n) == slots[((hash + n) % Len(slots)) + 1]
FreeAt(slots, hash) == CHOOSE n \in 0..(Len(slots) - 1) :
    /\ Probe(slots, hash, n) = EmptySlot
    /\ \A i \in 0..(n - 1) : Probe(slots, hash, i) # EmptySlot
\* Mutant of Put: an entry goes to the slot of its hash, taken or not.
PutAtHash(slots, s) == [slots EXCEPT ![(s.hash % Len(slots)) + 1] = s]
Put(slots, s) == [slots EXCEPT ![((s.hash + FreeAt(slots, s.hash)) % Len(slots)) + 1] = s]

reflect_index_insert(ix, hash, id) ==
    LET cap   == Len(ix.slots)
        next  == IF cap = 0 THEN FirstSlots ELSE cap * 2
        room  == IF cap = 0 \/ ix.len * 4 >= cap * 3
                 THEN FoldLeft(Put, [i \in 1..next |-> EmptySlot],
                               SelectSeq(ix.slots, LAMBDA s : s # EmptySlot))
                 ELSE ix.slots
    IN [slots |-> Put(room, [hash |-> hash, id |-> id]), len |-> ix.len + 1]

\* REFLECT_INDEX_EACH: the ids on the probe chain that carry the hash.
IndexEach(ix, hash) ==
    IF ix.slots = <<>> THEN {}
    ELSE {Probe(ix.slots, hash, n).id :
            n \in {i \in 0..(FreeAt(ix.slots, hash) - 1) : Probe(ix.slots, hash, i).hash = hash}}

reflect_hash_base(n) == hashing[<<n.base>>]
reflect_hash_member(owner, name) == hashing[<<owner.base, name>>]
reflect_hash_span(qualified) == hashing[<<qualified>>]

reflect_type_id_by_base(n) ==
    Least({id \in IndexEach(index.types, reflect_hash_base(n)) :
             reflect_base_equal(rows.types[id].name, n)})
reflect_type_id_exact(n) ==
    Least({id \in IndexEach(index.types, reflect_hash_base(n)) : rows.types[id].name = n})
reflect_method_id_on(owner, name) ==
    Least({id \in IndexEach(index.methods, reflect_hash_member(owner, name)) :
             reflect_base_equal(rows.methods[id].owner, owner) /\ rows.methods[id].name = name})
reflect_function_id_exact(qualified) ==
    Least({id \in IndexEach(index.functions, reflect_hash_span(qualified)) :
             rows.functions[id].qualified = qualified})

(***************************************************************************)
(* What the compiler emits for a program, in its order.                    *)
(***************************************************************************)
ByName(n) == SelectSeq(program.declarations, LAMBDA d : d.name = n)
Each(Op(_), s) == FlattenSeq([i \in DOMAIN s |-> Op(s[i])])
Numbered(s) == [i \in DOMAIN s |-> [at |-> i - 1, of |-> s[i]]]

\* class_chain and reflection_initializer: the nearest init, if any.
ChainNames(d) ==
    LET up[n \in 0..Len(program.declarations)] ==
          IF n = 0 THEN d.name
          ELSE IF up[n - 1] = None \/ Head(ByName(up[n - 1])).extends = None THEN None
          ELSE Head(ByName(up[n - 1])).extends.base
    IN SelectSeq([i \in 1..(Len(program.declarations) + 1) |-> up[i - 1]], LAMBDA x : x # None)
OfOwner(owner, name) ==
    SelectSeq(program.functions, LAMBDA f : f.owner = owner /\ f.name = name)
Nearest(d, name) ==
    LET found == Each(LAMBDA c : OfOwner(c, name), ChainNames(d))
    IN IF found = <<>> THEN None ELSE found[1]

Mentions(type, generics) == ({type.base} \union ToSet(type.args)) \intersect generics # {}
hir_callable_reflection_erased(f) ==
    /\ f.owner # None
    /\ LET d == Head(ByName(f.owner))
       IN /\ d.generics # {}
          /\ \/ d.kind \notin {"class", "interface"}
             \/ "static" \in f.flags
             \/ \E i \in DOMAIN f.parameters : Mentions(f.parameters[i].type, d.generics)
             \/ Mentions(f.result, d.generics)
CallFlags(f) ==
    (f.flags \intersect {"public", "static", "generic", "extern"})
    \union (IF hir_callable_reflection_erased(f) THEN {"erased"} ELSE {})

\* The thunk of a callable, named after what it calls; None for "null".
reflection_callable_action(f) ==
    IF \/ "body" \notin f.flags \/ f.flags \intersect {"extern", "generic"} # {}
       \/ f.name \in {"init", "deinit"} \/ hir_callable_reflection_erased(f)
       \/ \E i \in DOMAIN f.parameters : f.parameters[i].passing = "inout"
    THEN None ELSE <<f.owner, f.name>>
reflection_initializer_action(d, f) ==
    IF f = None THEN <<d.name, "new">>
    ELSE IF \/ "body" \notin f.flags \/ f.flags \intersect {"extern", "generic"} # {}
            \/ hir_callable_reflection_erased(f)
            \/ \E i \in DOMAIN f.parameters : f.parameters[i].passing = "inout"
    THEN None ELSE <<f.owner, "init">>
reflection_field_action(d, field) ==
    IF \/ d.kind = "union"
       \/ d.generics # {} /\ (d.kind # "class" \/ Mentions(field.type, d.generics))
    THEN None ELSE <<d.name, field.name>>

\* A list argument is followed by its items, which name it as their parent;
\* the ids the calls return are positions, known when the call is made.
emit_reflection_annotations(kind, owner, member, position, notes) ==
    Each(LAMBDA note :
           IF note.retention # "runtime" THEN <<>>
           ELSE <<[do |-> "annotation", kind |-> kind, owner |-> owner, member |-> member,
                   position |-> position, name |-> note.name]>>
                \o Each(LAMBDA v : <<[do |-> "argument", text |-> v.text]>>
                                   \o [i \in DOMAIN v.items |-> [do |-> "item", text |-> v.items[i]]],
                        note.values),
         notes)

EmitAnnotationType(a) ==
    <<[do |-> "annotation_type", name |-> a.name, retention |-> a.retention]>>
    \o [i \in DOMAIN a.targets |-> [do |-> "target", owner |-> a.name, target |-> a.targets[i]]]
    \o Each(LAMBDA f : <<[do |-> "annotation_field", owner |-> a.name, name |-> f.name]>>
                       \o (IF f.default = None THEN <<>>
                           ELSE <<[do |-> "default", text |-> f.default.text]>>
                                \o [i \in DOMAIN f.default.items |->
                                      [do |-> "item", text |-> f.default.items[i]]]),
            a.fields)
    \o emit_reflection_annotations(9, Name(a.name), "", -1, a.annotations)

EmitParameters(call, f, kind, owner, member) ==
    Each(LAMBDA p : <<[call EXCEPT !.name = p.of.name, !.type = p.of.type, !.passing = p.of.passing]>>
                    \o emit_reflection_annotations(kind, owner, member, p.at, p.of.annotations),
         Numbered(f.parameters))

EmitInitializer(d) ==
    LET f     == Nearest(d, "init")
        shown == Name(d.name)
    IN CASE d.kind = "class" /\ ~d.abstract /\ d.generics = {} ->
              <<[do |-> "initializer", owner |-> shown,
                 flags |-> IF f = None THEN (IF d.public THEN {"public"} ELSE {}) ELSE CallFlags(f),
                 call |-> reflection_initializer_action(d, f)]>>
         [] d.kind = "struct" /\ d.generics = {} ->
              <<[do |-> "initializer", owner |-> shown,
                 flags |-> IF d.public /\ \A i \in DOMAIN d.fields : d.fields[i].public
                           THEN {"public"} ELSE {},
                 call |-> <<d.name, "new">>]>>
              \o [i \in DOMAIN d.fields |->
                    [do |-> "method_parameter", owner |-> shown, callable |-> "init",
                     name |-> d.fields[i].name, type |-> d.fields[i].type, passing |-> "move"]]
         [] OTHER -> <<>>

EmitField(d, f) ==
    IF f.weak THEN <<>>
    ELSE <<[do |-> "field", owner |-> Name(d.name), name |-> f.name, type |-> f.type,
            flags |-> IF f.public THEN {"public"} ELSE {}],
           [do |-> "field_access", owner |-> Name(d.name), name |-> f.name,
            access |-> reflection_field_action(d, f)]>>
         \o emit_reflection_annotations(2, Name(d.name), f.name, -1, f.annotations)

EmitVariant(d, v) ==
    <<[do |-> "variant", owner |-> Name(d.name), name |-> v.name],
      [do |-> "variant_make", owner |-> Name(d.name), name |-> v.name,
       call |-> IF d.generics = {} THEN <<d.name, v.name>> ELSE None]>>
    \o emit_reflection_annotations(5, Name(d.name), v.name, -1, v.annotations)
    \o Each(LAMBDA p : <<[do |-> "variant_parameter", owner |-> Name(d.name), variant |-> v.name,
                          name |-> p.of.name, type |-> p.of.type]>>
                       \o emit_reflection_annotations(8, Name(d.name), v.name, p.at, p.of.annotations),
            Numbered(v.parameters))

EmitDeclaration(d) ==
    [i \in DOMAIN d.implements |->
       [do |-> "interface", owner |-> Name(d.name), interface_name |-> d.implements[i]]]
    \o <<[do |-> "type", name |-> Name(d.name), kind |-> d.kind, base |-> d.extends]>>
    \o emit_reflection_annotations(1, Name(d.name), "", -1, d.annotations)
    \o EmitInitializer(d)
    \o Each(LAMBDA f : EmitField(d, f), d.fields)
    \o Each(LAMBDA v : EmitVariant(d, v), d.variants)

EmitFunction(f) ==
    LET blank == [name |-> "", type |-> None, passing |-> ""]
        owner == Name(f.owner)
    IN IF f.owner # None
       THEN <<[do |-> "method", owner |-> owner, name |-> f.name, flags |-> CallFlags(f)],
              [do |-> "method_call", owner |-> owner, name |-> f.name,
               call |-> reflection_callable_action(f)]>>
            \o emit_reflection_annotations(3, owner, f.name, -1, f.annotations)
            \o EmitParameters(blank @@ [do |-> "method_parameter", owner |-> owner, callable |-> f.name],
                              f, 6, owner, f.name)
       ELSE <<[do |-> "function", qualified |-> f.name, flags |-> CallFlags(f)],
              [do |-> "function_call", qualified |-> f.name, call |-> reflection_callable_action(f)]>>
            \o emit_reflection_annotations(4, Name(f.name), "", -1, f.annotations)
            \o EmitParameters(blank @@ [do |-> "function_parameter", function_name |-> f.name],
                              f, 7, Name(f.name), "")

reflection_initializers ==
    Each(EmitAnnotationType, program.annotation_declarations)
    \o Each(EmitDeclaration, program.declarations)
    \o Each(EmitFunction, program.functions)

(***************************************************************************)
(* Registration                                                            *)
(***************************************************************************)
NoRows ==
    [types |-> <<>>, interfaces |-> <<>>, fields |-> <<>>, methods |-> <<>>,
     method_parameters |-> <<>>, variants |-> <<>>, variant_parameters |-> <<>>,
     functions |-> <<>>, function_parameters |-> <<>>, annotation_types |-> <<>>,
     annotation_targets |-> <<>>, annotation_fields |-> <<>>, annotations |-> <<>>,
     annotation_values |-> <<>>]

RegInit ==
    /\ program \in Programs /\ hashing \in Hashings
    /\ calls = reflection_initializers
    /\ rows = NoRows /\ orphans = {}
    /\ index = [types |-> NewIndex, methods |-> NewIndex, functions |-> NewIndex]

\* reflect_id_push on the list of the owner's row, or the orphan flag.
Attach(table, at, list, id) == IF at = 0 THEN table ELSE [table EXCEPT ![at][list] = Append(@, id)]
Orphan(at, what) == orphans' = IF at = 0 THEN orphans \union {what} ELSE orphans

beans_reflect_register_type(c) ==
    /\ UNCHANGED orphans
    /\ IF reflect_type_id_exact(c.name) # 0 THEN UNCHANGED <<rows, index>>
       ELSE /\ rows' = [rows EXCEPT !.types = Append(@,
                 [name |-> c.name, kind |-> c.kind, base |-> c.base, initializer_flags |-> None,
                  initializer |-> None, ifaces |-> <<>>, fields |-> <<>>, init_params |-> <<>>])]
            /\ index' = [index EXCEPT !.types =
                 reflect_index_insert(@, reflect_hash_base(c.name), Len(rows.types) + 1)]

beans_reflect_register_initializer(c) ==
    LET id == reflect_type_id_exact(c.owner)
    IN /\ rows' = IF id = 0 THEN rows
                  ELSE [rows EXCEPT !.types[id].initializer_flags = c.flags,
                                    !.types[id].initializer = c.call]
       /\ UNCHANGED <<index, orphans>>

beans_reflect_register_interface(c) ==
    LET type == reflect_type_id_by_base(c.owner)
    IN /\ rows' = [rows EXCEPT
             !.interfaces = Append(@, [owner |-> c.owner, interface_name |-> c.interface_name]),
             !.types = Attach(@, type, "ifaces", Len(rows.interfaces) + 1)]
       /\ Orphan(type, "interface") /\ UNCHANGED index

beans_reflect_register_field(c) ==
    LET type == reflect_type_id_by_base(c.owner)
    IN /\ rows' = [rows EXCEPT
             !.fields = Append(@, [owner |-> c.owner, name |-> c.name, type |-> c.type,
                                   flags |-> c.flags, access |-> None]),
             !.types = Attach(@, type, "fields", Len(rows.fields) + 1)]
       /\ Orphan(type, "field") /\ UNCHANGED index

\* Thunks go to the first row with exactly this owner and this name.
beans_reflect_register_field_access(c) ==
    LET id == Least(Ids(rows.fields, LAMBDA r : r.owner = c.owner /\ r.name = c.name))
    IN /\ rows' = IF id = 0 THEN rows ELSE [rows EXCEPT !.fields[id].access = c.access]
       /\ UNCHANGED <<index, orphans>>

beans_reflect_register_method(c) ==
    /\ rows' = [rows EXCEPT !.methods = Append(@,
          [owner |-> c.owner, name |-> c.name, flags |-> c.flags, call |-> None, params |-> <<>>])]
    /\ index' = [index EXCEPT !.methods =
          reflect_index_insert(@, reflect_hash_member(c.owner, c.name), Len(rows.methods) + 1)]
    /\ UNCHANGED orphans

beans_reflect_register_method_call(c) ==
    LET best == Least({id \in IndexEach(index.methods, reflect_hash_member(c.owner, c.name)) :
                         rows.methods[id].owner = c.owner /\ rows.methods[id].name = c.name})
    IN /\ rows' = IF best = 0 THEN rows ELSE [rows EXCEPT !.methods[best].call = c.call]
       /\ UNCHANGED <<index, orphans>>

beans_reflect_register_method_parameter(c) ==
    LET id     == Len(rows.method_parameters) + 1
        filed  == Append(rows.method_parameters,
                         [owner |-> c.owner, callable |-> c.callable, name |-> c.name,
                          type |-> c.type, passing |-> c.passing])
        type   == reflect_type_id_by_base(c.owner)
        method == reflect_method_id_on(c.owner, c.callable)
    IN /\ IF c.callable = "init"
          THEN /\ rows' = [rows EXCEPT !.method_parameters = filed,
                                       !.types = Attach(@, type, "init_params", id)]
               /\ Orphan(type, "init_param")
          ELSE /\ rows' = [rows EXCEPT !.method_parameters = filed,
                                       !.methods = Attach(@, method, "params", id)]
               /\ Orphan(method, "method_param")
       /\ UNCHANGED index

beans_reflect_register_function(c) ==
    /\ rows' = [rows EXCEPT !.functions = Append(@,
          [qualified |-> c.qualified, flags |-> c.flags, call |-> None, params |-> <<>>])]
    /\ index' = [index EXCEPT !.functions =
          reflect_index_insert(@, reflect_hash_span(c.qualified), Len(rows.functions) + 1)]
    /\ UNCHANGED orphans

beans_reflect_register_function_call(c) ==
    LET id == reflect_function_id_exact(c.qualified)
    IN /\ rows' = IF id = 0 THEN rows ELSE [rows EXCEPT !.functions[id].call = c.call]
       /\ UNCHANGED <<index, orphans>>

beans_reflect_register_function_parameter(c) ==
    LET function == reflect_function_id_exact(c.function_name)
    IN /\ rows' = [rows EXCEPT
             !.function_parameters = Append(@, [function_name |-> c.function_name, name |-> c.name,
                                                type |-> c.type, passing |-> c.passing]),
             !.functions = Attach(@, function, "params", Len(rows.function_parameters) + 1)]
       /\ Orphan(function, "function_param") /\ UNCHANGED index

\* The rows that are only appended: variants, annotation types and their
\* parts, annotations and the values of their arguments.
LastValue == CHOOSE i \in DOMAIN rows.annotation_values :
    /\ rows.annotation_values[i].parent = 0
    /\ \A j \in (i + 1)..Len(rows.annotation_values) : rows.annotation_values[j].parent # 0
Value(annotation, parent, text) == [annotation |-> annotation, parent |-> parent, text |-> text]

beans_reflect_register_variant(c) ==
    rows' = [rows EXCEPT !.variants = Append(@, [owner |-> c.owner, name |-> c.name, make |-> None])]
beans_reflect_register_variant_make(c) ==
    LET id == Least(Ids(rows.variants, LAMBDA r : r.owner = c.owner /\ r.name = c.name))
    IN rows' = IF id = 0 THEN rows ELSE [rows EXCEPT !.variants[id].make = c.call]
beans_reflect_register_variant_parameter(c) ==
    rows' = [rows EXCEPT !.variant_parameters =
               Append(@, [owner |-> c.owner, variant |-> c.variant, name |-> c.name, type |-> c.type])]
beans_reflect_register_annotation_type(c) ==
    rows' = IF \E i \in DOMAIN rows.annotation_types : rows.annotation_types[i].name = c.name THEN rows
            ELSE [rows EXCEPT !.annotation_types = Append(@, [name |-> c.name, retention |-> c.retention])]
beans_reflect_register_annotation_type_target(c) ==
    rows' = [rows EXCEPT !.annotation_targets = Append(@, [owner |-> c.owner, target |-> c.target])]
beans_reflect_register_annotation_type_field(c) ==
    rows' = [rows EXCEPT !.annotation_fields = Append(@, [owner |-> c.owner, name |-> c.name, default_value |-> 0])]
beans_reflect_register_annotation(c) ==
    rows' = [rows EXCEPT !.annotations = Append(@,
               [target_kind |-> c.kind, owner |-> c.owner, member |-> c.member,
                position |-> c.position, name |-> c.name])]
beans_reflect_register_annotation_argument(c) ==
    rows' = [rows EXCEPT !.annotation_values = Append(@, Value(Len(rows.annotations), 0, c.text))]
beans_reflect_register_annotation_value(c) ==
    rows' = [rows EXCEPT !.annotation_values = Append(@, Value(0, LastValue, c.text))]
beans_reflect_register_annotation_default(c) ==
    rows' = [rows EXCEPT
               !.annotation_values = Append(@, Value(0, 0, c.text)),
               !.annotation_fields[Len(rows.annotation_fields)].default_value = Len(rows.annotation_values) + 1]

Row(what, Appended(_)) == calls[1].do = what /\ Appended(calls[1]) /\ UNCHANGED <<index, orphans>>
Call(what, Made(_)) == calls[1].do = what /\ Made(calls[1])

Register ==
    /\ calls # <<>> /\ calls' = Tail(calls) /\ UNCHANGED <<program, hashing>>
    /\ \/ Call("type", beans_reflect_register_type)
       \/ Call("initializer", beans_reflect_register_initializer)
       \/ Call("interface", beans_reflect_register_interface)
       \/ Call("field", beans_reflect_register_field)
       \/ Call("field_access", beans_reflect_register_field_access)
       \/ Call("method", beans_reflect_register_method)
       \/ Call("method_call", beans_reflect_register_method_call)
       \/ Call("method_parameter", beans_reflect_register_method_parameter)
       \/ Call("function", beans_reflect_register_function)
       \/ Call("function_call", beans_reflect_register_function_call)
       \/ Call("function_parameter", beans_reflect_register_function_parameter)
       \/ Row("variant", beans_reflect_register_variant)
       \/ Row("variant_make", beans_reflect_register_variant_make)
       \/ Row("variant_parameter", beans_reflect_register_variant_parameter)
       \/ Row("annotation_type", beans_reflect_register_annotation_type)
       \/ Row("target", beans_reflect_register_annotation_type_target)
       \/ Row("annotation_field", beans_reflect_register_annotation_type_field)
       \/ Row("annotation", beans_reflect_register_annotation)
       \/ Row("argument", beans_reflect_register_annotation_argument)
       \/ Row("item", beans_reflect_register_annotation_value)
       \/ Row("default", beans_reflect_register_annotation_default)

(***************************************************************************)
(* Queries                                                                 *)
(***************************************************************************)
reflect_find_type(n) == reflect_type_id_by_base(n)
Above(type) == IF type = 0 \/ rows.types[type].base = None THEN None ELSE rows.types[type].base

\* The names, and the types, from n upwards; the guards of the loops allow
\* one step more than there are types.
NameChain(n) ==
    LET up[i \in 0..Len(rows.types)] ==
          IF i = 0 THEN n ELSE IF up[i - 1] = None THEN None ELSE Above(reflect_find_type(up[i - 1]))
    IN SelectSeq([i \in 1..(Len(rows.types) + 1) |-> up[i - 1]], LAMBDA x : x # None)
TypeChain(n) ==
    SelectSeq([i \in DOMAIN NameChain(n) |-> reflect_find_type(NameChain(n)[i])], LAMBDA t : t # 0)
FirstOf(s, P(_)) == LET S == Ids(s, P) IN IF S = {} THEN 0 ELSE s[Least(S)]

reflect_declaring_name(queried, declared) ==
    LET links == SelectSeq(NameChain(queried), LAMBDA n : reflect_base_equal(n, declared))
    IN IF links = <<>> THEN declared ELSE links[1]

beans_reflect_interfaces(n) ==
    [i \in DOMAIN SelectSeq(rows.interfaces, LAMBDA r : reflect_base_equal(r.owner, n)) |->
       SelectSeq(rows.interfaces, LAMBDA r : reflect_base_equal(r.owner, n))[i].interface_name]

\* The interfaces of the class on one level of the chain.
LevelInterfaces(current) ==
    LET at == reflect_find_type(current)
    IN IF "interface" \in orphans THEN ToSet(beans_reflect_interfaces(current))
       ELSE IF at = 0 THEN {}
       ELSE {rows.interfaces[i].interface_name : i \in ToSet(rows.types[at].ifaces)}

beans_reflect_is_assignable_from(wanted, actual) ==
    \/ reflect_name_assignable(wanted, actual)
    \/ \E i \in DOMAIN Tail(NameChain(actual)) : reflect_name_assignable(wanted, NameChain(actual)[i + 1])
    \/ /\ reflect_find_type(actual) # 0
       /\ LET up == NameChain(rows.types[reflect_find_type(actual)].name)
          IN \E i \in DOMAIN up : \E n \in LevelInterfaces(up[i]) : reflect_name_assignable(wanted, n)

\* reflect_collect_fields and reflect_collect_methods: bases first; a row
\* with the name of one that is listed takes its place, if inherited.
Collect(table, levels, inherited, Skip(_)) ==
    LET names(ids, name) == {j \in DOMAIN ids : table[ids[j]].name = name}
        add(ids, i) == IF inherited /\ names(ids, table[i].name) # {}
                       THEN [ids EXCEPT ![CHOOSE j \in names(ids, table[i].name) :
                                            \A k \in names(ids, table[i].name) : k <= j] = i]
                       ELSE Append(ids, i)
        level(ids, t) == FoldLeft(add, ids, Filed(table,
                           LAMBDA r : reflect_base_equal(r.owner, rows.types[t].name) /\ ~Skip(r)))
    IN FoldLeft(level, <<>>, Reverse(levels))
Levels(n, inherited) ==
    IF reflect_find_type(n) = 0 THEN <<>>
    ELSE IF inherited THEN TypeChain(n) ELSE <<reflect_find_type(n)>>

reflect_special_method(r) == r.name \in {"init", "deinit"}
reflect_field_ids(n, inherited) == Collect(rows.fields, Levels(n, inherited), inherited, LAMBDA r : FALSE)
reflect_method_list_ids(n, inherited) ==
    Collect(rows.methods, Levels(n, inherited), inherited, reflect_special_method)

reflect_named_field_id(owner, name) ==
    LET last(t) == LET own == SelectSeq(rows.types[t].fields, LAMBDA i : rows.fields[i].name = name)
                   IN IF own = <<>> THEN 0 ELSE own[Len(own)]
        levels == TypeChain(owner)
    IN IF "field" \notin orphans
       THEN FirstOf([i \in DOMAIN levels |-> last(levels[i])], LAMBDA id : id # 0)
       ELSE FirstOf(reflect_field_ids(owner, TRUE), LAMBDA id : rows.fields[id].name = name)

reflect_method_id(owner, name) ==
    LET levels == TypeChain(owner)
    IN FirstOf([i \in DOMAIN levels |-> reflect_method_id_on(rows.types[levels[i]].name, name)],
               LAMBDA id : id # 0)

\* The parameters of a callable, as ids of their rows.
reflect_method_parameter_ids(owner, callable) ==
    LET m == reflect_method_id(owner, callable)
    IN IF m = 0 THEN <<>>
       ELSE IF "method_param" \notin orphans THEN rows.methods[m].params
       ELSE Filed(rows.method_parameters,
              LAMBDA r : reflect_base_equal(r.owner, rows.methods[m].owner)
                         /\ r.callable = rows.methods[m].name)

\* The first type of the chain that has rows of an init.
reflect_initializer_parameter_ids(owner) ==
    LET own(t) == IF "init_param" \notin orphans THEN rows.types[t].init_params
                  ELSE Filed(rows.method_parameters,
                         LAMBDA r : reflect_base_equal(r.owner, rows.types[t].name) /\ r.callable = "init")
        levels == SelectSeq(TypeChain(owner), LAMBDA t : own(t) # <<>>)
    IN IF levels = <<>> THEN <<>> ELSE own(levels[1])

reflect_function_parameter_ids(qualified) ==
    LET f == reflect_function_id_exact(qualified)
    IN IF f = 0 THEN <<>>
       ELSE IF "function_param" \notin orphans THEN rows.functions[f].params
       ELSE Filed(rows.function_parameters, LAMBDA r : r.function_name = qualified)

reflect_variant_id(owner, name) ==
    Least(Ids(rows.variants, LAMBDA r : reflect_base_equal(r.owner, owner) /\ r.name = name))
reflect_variant_parameter_ids(owner, variant) ==
    IF reflect_variant_id(owner, variant) = 0 THEN <<>>
    ELSE Filed(rows.variant_parameters,
           LAMBDA r : reflect_base_equal(r.owner, owner) /\ r.variant = variant)

beans_reflect_annotation_ids(kind, owner, member, position) ==
    Filed(rows.annotations,
      LAMBDA r : /\ r.target_kind = kind /\ r.position = position
                 /\ reflect_base_equal(r.owner, owner) /\ r.member = member)
beans_reflect_annotation_argument_ids(annotation) ==
    Filed(rows.annotation_values, LAMBDA r : r.annotation = annotation)
beans_reflect_annotation_item_ids(parent) ==
    Filed(rows.annotation_values, LAMBDA r : r.parent = parent)
reflect_annotation_field_ids(owner) == Filed(rows.annotation_fields, LAMBDA r : r.owner = owner)

\* A handle is a row id tagged with its namespace.
Handle(tag, id) == IF id = 0 THEN 0 ELSE tag * TagSpan + id
reflect_handle_id(handle, tag, limit) ==
    IF handle = 0 \/ handle \div TagSpan # tag THEN 0
    ELSE IF handle % TagSpan \in 1..limit THEN handle % TagSpan ELSE 0

(***************************************************************************)
(* What the answers should be, from the declarations themselves.           *)
(***************************************************************************)
Registered == calls = <<>>
Declared(d) == {Name(d.name)} \union (IF d.generics = {} THEN {} ELSE {[base |-> d.name, args |-> <<"int">>]})
Asked == UNION {Declared(program.declarations[i]) : i \in DOMAIN program.declarations}
         \union {Name("int"), Name("i64")}
         \union {[base |-> program.declarations[i].name, args |-> <<"string">>] :
                   i \in {j \in DOMAIN program.declarations : program.declarations[j].generics # {}}}
Members == {program.functions[i].name : i \in DOMAIN program.functions}

\* The type with its owner's parameter replaced by an argument.
Closed(type, d, args) ==
    LET close(x) == IF x \in d.generics THEN args[1] ELSE x
    IN IF args = <<>> THEN type
       ELSE [base |-> type.base, args |-> [i \in DOMAIN type.args |-> close(type.args[i])]]
Parents(n) ==
    IF ByName(n.base) = <<>> THEN {}
    ELSE LET d == Head(ByName(n.base))
             named == ToSet(d.implements) \union (IF d.extends = None THEN {} ELSE {d.extends})
         IN {Closed(t, d, n.args) : t \in named}
Supertypes(n) ==
    LET up[i \in 0..Len(program.declarations)] ==
          IF i = 0 THEN {n} ELSE up[i - 1] \union UNION {Parents(m) : m \in up[i - 1]}
    IN up[Len(program.declarations)]
Usable(wanted, actual) == \E n \in Supertypes(actual) : reflect_name_assignable(wanted, n)
\* The part that needs neither an interface above an interface nor a
\* generic class above a generic class.
Implemented(actual) ==
    IF ByName(actual.base) = <<>> THEN {}
    ELSE LET up == ChainNames(Head(ByName(actual.base)))
         IN UNION {ToSet(Head(ByName(up[i])).implements) : i \in DOMAIN up} \union {Name(up[i]) : i \in DOMAIN up}

DeclaredFields(d, name) == SelectSeq(d.fields, LAMBDA f : f.name = name /\ ~f.weak)
NearestField(d, name) ==
    LET owners == SelectSeq(ChainNames(d), LAMBDA c : DeclaredFields(Head(ByName(c)), name) # <<>>)
    IN IF owners = <<>> THEN None
       ELSE [owner |-> owners[1], field |-> DeclaredFields(Head(ByName(owners[1])), name)[1]]
Kept(notes) == SelectSeq(notes, LAMBDA a : a.retention = "runtime")
Column(table, ids, col) == [i \in DOMAIN ids |-> table[ids[i]][col]]
Project(s, col) == [i \in DOMAIN s |-> s[i][col]]
\* The notes a descriptor finds are the notes that were written, with their
\* arguments and the items of those.
NotesMatch(ids, notes) ==
    /\ Column(rows.annotations, ids, "name") = Project(Kept(notes), "name")
    /\ \A i \in DOMAIN ids :
         LET values == beans_reflect_annotation_argument_ids(ids[i])
         IN /\ Column(rows.annotation_values, values, "text") = Project(Kept(notes)[i].values, "text")
            /\ \A j \in DOMAIN values :
                 Column(rows.annotation_values, beans_reflect_annotation_item_ids(values[j]), "text")
                   = Kept(notes)[i].values[j].items

IndexExact ==
    /\ \A t \in DOMAIN index : index[t].slots = <<>> \/ EmptySlot \in ToSet(index[t].slots)
    /\ \A n \in Asked :
         /\ reflect_type_id_by_base(n) = Least(Ids(rows.types, LAMBDA r : r.name.base = n.base))
         /\ \A m \in Members : reflect_method_id_on(n, m) =
              Least(Ids(rows.methods, LAMBDA r : r.owner.base = n.base /\ r.name = m))
    /\ \A m \in Members : reflect_function_id_exact(m) =
         Least(Ids(rows.functions, LAMBDA r : r.qualified = m))

MethodsNearest(d, q) ==
    \A name \in Members \ {"init", "deinit"} :
      LET f    == Nearest(d, name)
          id   == reflect_method_id(q, name)
          list == SelectSeq(reflect_method_list_ids(q, TRUE), LAMBDA i : rows.methods[i].name = name)
      IN IF f = None THEN id = 0 /\ list = <<>>
         ELSE /\ id # 0 /\ list = <<id>>
              /\ rows.methods[id].owner = Name(f.owner)
              /\ rows.methods[id].call = reflection_callable_action(f)
              /\ Column(rows.method_parameters, reflect_method_parameter_ids(q, name), "name")
                   = Project(f.parameters, "name")
              /\ LET shown == reflect_declaring_name(q, rows.methods[id].owner)
                 IN /\ shown.base = f.owner
                    /\ f.owner = d.name => shown = q
                    /\ d.extends # None /\ d.extends.base = f.owner => shown = d.extends
                    /\ NotesMatch(beans_reflect_annotation_ids(3, shown, name, -1), f.annotations)
                    /\ \A i \in DOMAIN f.parameters :
                         NotesMatch(beans_reflect_annotation_ids(6, shown, name, i - 1), f.parameters[i].annotations)

FieldsNearest(d, q) ==
    \A name \in UNION {ToSet(Project(program.declarations[i].fields, "name")) : i \in DOMAIN program.declarations} :
      LET f    == NearestField(d, name)
          id   == reflect_named_field_id(q, name)
          list == SelectSeq(reflect_field_ids(q, TRUE), LAMBDA i : rows.fields[i].name = name)
      IN IF f = None THEN id = 0 /\ list = <<>>
         ELSE /\ id # 0 /\ list = <<id>>
              /\ rows.fields[id].owner = Name(f.owner) /\ rows.fields[id].type = f.field.type
              /\ rows.fields[id].access = reflection_field_action(Head(ByName(f.owner)), f.field)
              /\ NotesMatch(beans_reflect_annotation_ids(2, reflect_declaring_name(q, rows.fields[id].owner), name, -1),
                            f.field.annotations)

InitializerNearest(d, q) ==
    LET f     == Nearest(d, "init")
        shown == Column(rows.method_parameters, reflect_initializer_parameter_ids(q), "name")
    IN CASE d.kind = "struct" -> d.generics = {} => shown = Project(d.fields, "name")
         [] d.kind = "class" /\ f # None -> shown = Project(f.parameters, "name")
         [] OTHER -> shown = <<>>

\* Lookups by hash agree with a scan of the tables, whatever the hashes and
\* however far registration is.  When it is done: a member that is looked up
\* by name, listed, called or asked for its notes is the one of the nearest
\* class that declares it, also through a closed generic name; initializers
\* that take parameters show their own; a yes of is_assignable_from is right,
\* and it is the answer for a class and its interfaces; a handle resolves to
\* its row and in no other namespace.
RegistryFaithful ==
    /\ IndexExact
    /\ Registered =>
         /\ \A i \in DOMAIN program.declarations :
              LET d == program.declarations[i]
                  f == Nearest(d, "init")
              IN \A q \in Declared(d) :
                   /\ MethodsNearest(d, q) /\ FieldsNearest(d, q)
                   /\ (d.kind = "struct" \/ f = None \/ f.parameters # <<>>) => InitializerNearest(d, q)
                   /\ beans_reflect_interfaces(q) = d.implements
                   /\ \A j \in DOMAIN d.variants :
                        LET v == d.variants[j]
                        IN /\ Column(rows.variant_parameters, reflect_variant_parameter_ids(q, v.name), "name")
                                = Project(v.parameters, "name")
                           /\ NotesMatch(beans_reflect_annotation_ids(5, q, v.name, -1), v.annotations)
         /\ \A i \in DOMAIN program.functions :
              LET f == program.functions[i]
              IN f.owner = None =>
                   Column(rows.function_parameters, reflect_function_parameter_ids(f.name), "name")
                     = Project(f.parameters, "name")
         /\ \A i \in DOMAIN program.annotation_declarations :
              LET a   == program.annotation_declarations[i]
                  ids == reflect_annotation_field_ids(a.name)
              IN /\ Column(rows.annotation_fields, ids, "name") = Project(a.fields, "name")
                 /\ \A j \in DOMAIN ids :
                      LET value == rows.annotation_fields[ids[j]].default_value
                      IN IF a.fields[j].default = None THEN value = 0
                         ELSE /\ rows.annotation_values[value].text = a.fields[j].default.text
                              /\ Column(rows.annotation_values, beans_reflect_annotation_item_ids(value), "text")
                                   = a.fields[j].default.items
         /\ \A wanted, actual \in Asked :
              /\ beans_reflect_is_assignable_from(wanted, actual) => Usable(wanted, actual)
              /\ wanted \in Implemented(actual) => beans_reflect_is_assignable_from(wanted, actual)
         /\ \A tag, other \in 1..3, id \in 1..Len(rows.methods) :
              reflect_handle_id(Handle(tag, id), other, Len(rows.methods)) = IF tag = other THEN id ELSE 0

\* "True when a value of other can be used where this type is expected": every
\* use the language allows (beans_reflect_is_assignable_from).
AssignableComplete ==
    Registered => \A wanted, actual \in Asked :
      Usable(wanted, actual) => beans_reflect_is_assignable_from(wanted, actual)

\* The parameters an Initializer shows are those of the init that its call
\* runs (reflect_initializer_parameter_id, reflection_initializer).
InitializerShowsItsOwn ==
    Registered => \A i \in DOMAIN program.declarations :
      LET d == program.declarations[i]
      IN rows.types[reflect_find_type(Name(d.name))].initializer_flags # None => InitializerNearest(d, Name(d.name))

\* "compiler-emitted metadata [...] registers owners first": no registration
\* of the emitted code sets an orphan flag.
OwnersFirst == orphans = {}
=============================================================================
