---------------------------- MODULE ReflectCall ----------------------------
(***************************************************************************)
(* Values and calls of std.reflect (src/runtime/beans_rt.c): a program     *)
(* boxes values, passes boxes to functions, methods, initializers and      *)
(* variants that it looked up by name or holds a handle of, and reads and  *)
(* writes fields of what a box holds.                                      *)
(*                                                                         *)
(* A box (BReflectValue) owns one reference to an object, or plain data,   *)
(* or nothing once a call moved its payload away.  refs counts what every  *)
(* object was retained and not released, ours what the program and the     *)
(* functions it called own of that outside of boxes.                       *)
(***************************************************************************)
EXTENDS ReflectRegistry

CONSTANTS
    Objects, TypeOf,  \* objects with a reference count, and their classes
    Plain,            \* a payload that is only bytes
    Boxes,            \* boxes, which are shared class objects of the program
    MaxArgs,          \* bound: arguments of a call
    SharesBoxes,      \* one box may be passed twice in one call
    UsesEmptied,      \* a box is used as a receiver after a call emptied it
    Panics            \* a called function may panic

VARIABLES
    box, refs, ours,
    err,              \* reflect_error_code
    ran,              \* the thunk that ran last, its receiver and arguments
    ops               \* operations so far; program.ops bounds them

callvars == <<box, refs, ours, err, ran, ops>>

Init ==
    /\ RegInit
    /\ box = [b \in Boxes |-> None]
    /\ refs = [p \in Objects |-> 1] /\ ours = [p \in Objects |-> 1]
    /\ err = 0 /\ ran = None /\ ops = 0

Made(b) == box[b] # None
Filled(b) == Made(b) /\ box[b].data # None
Holding(type, data) == [type |-> type, data |-> data]
Count(p, s) == Cardinality({i \in DOMAIN s : s[i] = p})
\* Mutant of Retained: a copy shares the reference of its original.
RetainedNot(data) == refs
Retained(data) == IF data \in Objects THEN [refs EXCEPT ![data] = @ + 1] ELSE refs
Quiet == UNCHANGED <<err, ran>>
reflect_fail(code) == err' = code /\ ran' = None /\ UNCHANGED <<box, refs, ours>>

(***************************************************************************)
(* Boxes                                                                   *)
(***************************************************************************)
\* reflect.value(move object) and reflect.value(object) of a shared class.
beans_reflect_value_new(b, p) ==
    /\ ~Made(b) /\ ours[p] > 0 /\ refs[p] > 0
    /\ box' = [box EXCEPT ![b] = Holding(TypeOf[p], p)]
    /\ ours' = [ours EXCEPT ![p] = @ - 1] /\ UNCHANGED refs /\ Quiet
beans_reflect_value_new_copy(b, p) ==
    /\ ~Made(b) /\ ours[p] > 0 /\ refs[p] > 0
    /\ box' = [box EXCEPT ![b] = Holding(TypeOf[p], p)]
    /\ refs' = Retained(p) /\ UNCHANGED ours /\ Quiet

\* Copying an emptied box gives a Value without a handle.
beans_reflect_value_clone(b, c) ==
    /\ Made(b) /\ ~Made(c)
    /\ IF Filled(b) THEN box' = [box EXCEPT ![c] = box[b]] /\ refs' = Retained(box[b].data)
       ELSE UNCHANGED <<box, refs>>
    /\ UNCHANGED ours /\ Quiet

beans_reflect_value_drop(b) ==
    /\ Made(b)
    /\ box' = [box EXCEPT ![b] = None]
    /\ refs' = IF box[b].data \in Objects THEN [refs EXCEPT ![box[b].data] = @ - 1] ELSE refs
    /\ UNCHANGED ours /\ Quiet

beans_reflect_value_matches(b, wanted) ==
    Filled(b) /\ (box[b].type = wanted \/ beans_reflect_is_assignable_from(wanted, box[b].type))

\* The checked as?: the target gets a reference of its own, or zeros.
beans_reflect_value_copy_into(b, wanted) ==
    /\ Made(b) /\ box[b].data \in Objects
    /\ IF beans_reflect_value_matches(b, wanted)
       THEN refs' = Retained(box[b].data) /\ ours' = [ours EXCEPT ![box[b].data] = @ + 1]
       ELSE UNCHANGED <<refs, ours>>
    /\ UNCHANGED box /\ Quiet

\* The program, or a function that was called, drops what it owns.
Release(p) ==
    /\ ours[p] > 0
    /\ ours' = [ours EXCEPT ![p] = @ - 1] /\ refs' = [refs EXCEPT ![p] = @ - 1]
    /\ UNCHANGED box /\ Quiet

(***************************************************************************)
(* Calls                                                                   *)
(***************************************************************************)
Fits(wanted, b) == box[b].type = wanted \/ beans_reflect_is_assignable_from(wanted, box[b].type)

\* The error of reflect_invoke before the thunk runs, or 0.
InvokeError(call, args, types, passing) ==
    LET wrong(i)   == ~Filled(args[i]) \/ ~Fits(types[i], args[i])
        refused(i) == passing[i] = "inout"
        first      == Least({i \in DOMAIN args : wrong(i) \/ refused(i)})
    IN IF call = None THEN 5 ELSE IF first = 0 THEN 0 ELSE IF wrong(first) THEN 4 ELSE 5

\* The thunk hands every payload to the callee, which owns a moved one from
\* its entry.  When it returned, the boxes of moved arguments are emptied and
\* the result is boxed.  When it panics, its frame drops what it owned and
\* the rest of reflect_invoke does not run.
Run(thunk, self, args, passing, result, to) ==
    LET moved    == SelectSeq([i \in DOMAIN args |-> i], LAMBDA i : passing[i] = "move")
        payloads == [i \in DOMAIN moved |-> box[args[moved[i]]].data]
        emptied  == {args[moved[i]] : i \in DOMAIN moved}
    IN /\ err' = 0
       /\ ran' = [field |-> FALSE, thunk |-> thunk, self |-> self, args |-> [i \in DOMAIN args |-> box[args[i]].type]]
       /\ \/ /\ box' = [[b \in Boxes |-> IF b \in emptied THEN Holding(box[b].type, None) ELSE box[b]]
                          EXCEPT ![to] = Holding(result, Plain)]
             /\ ours' = [p \in Objects |-> ours[p] + Count(p, payloads)]
             /\ UNCHANGED refs
          \/ /\ Panics
             /\ refs' = [p \in Objects |-> refs[p] - Count(p, payloads)]
             /\ UNCHANGED <<box, ours>>

reflect_invoke(call, self, args, types, passing, result, to) ==
    LET code == InvokeError(call, args, types, passing)
    IN IF code # 0 THEN reflect_fail(code) ELSE Run(call, self, args, passing, result, to)

Types(table, ids) == Column(table, ids, "type")
Passing(table, ids) == Column(table, ids, "passing")
OutOfReach == {"erased", "generic", "extern"}

beans_reflect_function_call(qualified, args, handle, to) ==
    LET found == reflect_function_id_exact(qualified)
        id    == IF handle THEN reflect_handle_id(Handle(3, found), 3, Len(rows.functions)) ELSE found
        ids   == reflect_function_parameter_ids(qualified)
    IN IF id = 0 THEN reflect_fail(1)
       ELSE IF "public" \notin rows.functions[id].flags THEN reflect_fail(2)
       ELSE IF rows.functions[id].flags \intersect OutOfReach # {} THEN reflect_fail(5)
       ELSE IF Len(args) # Len(ids) THEN reflect_fail(6)
       ELSE reflect_invoke(rows.functions[id].call, None, args, Types(rows.function_parameters, ids),
                           Passing(rows.function_parameters, ids), Name("unit"), to)

\* Mutant of Dispatched: the body of the class that was asked for.
DispatchedNot(id, receiver) == rows.methods[id].call
\* The receiver's own class may override the method that was found.
Dispatched(id, receiver) ==
    LET actual == reflect_method_id(box[receiver].type, rows.methods[id].name)
    IN IF actual # 0 /\ "static" \notin rows.methods[actual].flags
       THEN rows.methods[actual].call ELSE rows.methods[id].call

reflect_method_invoke(id, checked_owner, receiver, args, to) ==
    LET m   == rows.methods[id]
        ids == IF "method_param" \notin orphans THEN m.params
               ELSE reflect_method_parameter_ids(m.owner, m.name)
        call == IF receiver = None THEN m.call ELSE Dispatched(id, receiver)
    IN IF reflect_special_method(m) THEN reflect_fail(1)
       ELSE IF "public" \notin m.flags THEN reflect_fail(2)
       ELSE IF m.flags \intersect OutOfReach # {} THEN reflect_fail(5)
       ELSE IF ("static" \in m.flags) # (receiver = None) THEN reflect_fail(3)
       ELSE IF receiver # None /\ (~Filled(receiver) \/ ~Fits(checked_owner, receiver)) THEN reflect_fail(3)
       ELSE IF Len(args) # Len(ids) THEN reflect_fail(6)
       ELSE reflect_invoke(call, IF receiver = None THEN None ELSE box[receiver].type, args,
                           Types(rows.method_parameters, ids), Passing(rows.method_parameters, ids),
                           Name("unit"), to)

beans_reflect_method_call(owner, name, receiver, args, handle, to) ==
    LET found == reflect_method_id(owner, name)
        id    == IF handle THEN reflect_handle_id(Handle(1, found), 1, Len(rows.methods)) ELSE found
    IN IF id = 0 \/ name \in {"init", "deinit"} THEN reflect_fail(1)
       ELSE reflect_method_invoke(id, IF handle THEN rows.methods[id].owner ELSE owner, receiver, args, to)

beans_reflect_initializer_call(owner, args, handle, to) ==
    LET found == reflect_find_type(owner)
        id    == IF handle THEN reflect_handle_id(Handle(2, found), 2, Len(rows.types)) ELSE found
        ids   == reflect_initializer_parameter_ids(owner)
        flags == rows.types[id].initializer_flags
    IN IF id = 0 \/ flags = None THEN reflect_fail(1)
       ELSE IF "public" \notin flags THEN reflect_fail(2)
       ELSE IF flags \intersect OutOfReach # {} THEN reflect_fail(5)
       ELSE IF Len(args) # Len(ids) THEN reflect_fail(6)
       ELSE reflect_invoke(rows.types[id].initializer, None, args, Types(rows.method_parameters, ids),
                           Passing(rows.method_parameters, ids), owner, to)

beans_reflect_variant_make(owner, name, args, to) ==
    LET id  == reflect_variant_id(owner, name)
        ids == reflect_variant_parameter_ids(owner, name)
    IN IF id = 0 THEN reflect_fail(1)
       ELSE IF Len(args) # Len(ids) THEN reflect_fail(6)
       ELSE reflect_invoke(rows.variants[id].make, None, args, Types(rows.variant_parameters, ids),
                           [i \in DOMAIN ids |-> "move"], owner, to)

(***************************************************************************)
(* Fields: the thunk reads or writes through the receiver's data.          *)
(***************************************************************************)
FieldError(owner, id, receiver) ==
    IF id = 0 THEN 1 ELSE IF "public" \notin rows.fields[id].flags THEN 2
    ELSE IF ~Fits(owner, receiver) THEN 3 ELSE 0
Through(b) == IF Filled(b) THEN box[b].type ELSE None
Touched(id, receiver, values) ==
    [field |-> TRUE, thunk |-> rows.fields[id].access, self |-> Through(receiver),
     args |-> [i \in DOMAIN values |-> Through(values[i])]]

beans_reflect_field_get(owner, name, receiver, to) ==
    LET id   == reflect_named_field_id(owner, name)
        code == FieldError(owner, id, receiver)
    IN IF code # 0 THEN reflect_fail(code)
       ELSE IF rows.fields[id].access = None THEN reflect_fail(5)
       ELSE /\ err' = 0 /\ ran' = Touched(id, receiver, <<>>)
            /\ box' = [box EXCEPT ![to] = Holding(rows.fields[id].type, Plain)] /\ UNCHANGED <<refs, ours>>

beans_reflect_field_set(owner, name, receiver, value) ==
    LET id   == reflect_named_field_id(owner, name)
        code == FieldError(owner, id, receiver)
    IN IF code # 0 THEN reflect_fail(code)
       ELSE IF ~Fits(rows.fields[id].type, value) THEN reflect_fail(4)
       ELSE IF rows.fields[id].access = None THEN reflect_fail(5)
       ELSE err' = 0 /\ ran' = Touched(id, receiver, <<value>>) /\ UNCHANGED <<box, refs, ours>>

(***************************************************************************)
(* The program, once main runs                                             *)
(***************************************************************************)
MadeBoxes == {b \in Boxes : Made(b)}
Receivers == IF UsesEmptied THEN MadeBoxes ELSE {b \in Boxes : Filled(b)}
ArgLists == {s \in UNION {[1..n -> MadeBoxes] : n \in 0..MaxArgs} :
               SharesBoxes \/ \A i, j \in DOMAIN s : s[i] = s[j] => i = j}

BoxStep ==
    \/ \E b \in Boxes, p \in Objects :
         \/ beans_reflect_value_new(b, p)
         \/ beans_reflect_value_new_copy(b, p)
    \/ \E b, c \in Boxes : beans_reflect_value_clone(b, c)
    \/ \E b \in Boxes : beans_reflect_value_drop(b)
    \/ \E b \in Boxes, a \in program.asks : beans_reflect_value_copy_into(b, a.owner)
    \/ \E p \in Objects : Release(p)

CallStep(a, to) ==
    \/ \E args \in ArgLists, handle \in BOOLEAN :
         \/ a.what = "function" /\ beans_reflect_function_call(a.name, args, handle, to)
         \/ a.what = "method" /\ \E r \in Receivers \union {None} :
              beans_reflect_method_call(a.owner, a.name, r, args, handle, to)
         \/ a.what = "initializer" /\ beans_reflect_initializer_call(a.owner, args, handle, to)
    \/ a.what = "variant" /\ \E args \in ArgLists : beans_reflect_variant_make(a.owner, a.name, args, to)
    \/ a.what = "field" /\ \E r \in Receivers : beans_reflect_field_get(a.owner, a.name, r, to)
    \/ a.what = "field" /\ \E r, v \in Receivers : beans_reflect_field_set(a.owner, a.name, r, v)

Main ==
    /\ Registered /\ ops < program.ops /\ ops' = ops + 1 /\ UNCHANGED regvars
    /\ \/ BoxStep
       \/ \E a \in program.asks, to \in Boxes \ MadeBoxes : CallStep(a, to)

Next == (Register /\ UNCHANGED callvars) \/ Main
vars == <<program, hashing, calls, rows, index, orphans, box, refs, ours, err, ran, ops>>
Spec == Init /\ [][Next]_vars

\* Every reference is owned once: by the box it is in, or by whoever took it
\* out, was given it by a call or never boxed it.
PayloadsOwned ==
    \A p \in Objects : refs[p] = ours[p] + Cardinality({b \in Boxes : Made(b) /\ box[b].data = p})

\* What a thunk runs with, from the declarations: the parameters of the
\* function, initializer, variant or field it was emitted for.
ParametersOf(thunk) ==
    LET d  == Head(ByName(thunk[1]))
        vs == SelectSeq(d.variants, LAMBDA v : v.name = thunk[2])
        fs == OfOwner(thunk[1], thunk[2])
    IN IF thunk[1] # None /\ thunk[2] = "new" THEN d.fields
       ELSE IF fs # <<>> THEN fs[1].parameters ELSE vs[1].parameters

\* Reflection gives code what it declares: a function, initializer or variant
\* runs with as many arguments as it has parameters, each usable as the
\* parameter's type; a method runs on a receiver of its class and is the
\* one that class would run; a field is read and written in an object that
\* has it, with a value of its type.
CallsChecked ==
    ran # None =>
      /\ ran.self # None => Usable(Name(ran.thunk[1]), ran.self)
      /\ ran.field =>
           /\ ran.self # None
           /\ \A i \in DOMAIN ran.args : ran.args[i] # None /\
                Usable(NearestField(Head(ByName(ran.thunk[1])), ran.thunk[2]).field.type, ran.args[i])
      /\ ~ran.field =>
           /\ Len(ran.args) = Len(ParametersOf(ran.thunk))
           /\ \A i \in DOMAIN ran.args : Usable(ParametersOf(ran.thunk)[i].type, ran.args[i])
           /\ ran.self # None =>
                ran.thunk = reflection_callable_action(Nearest(Head(ByName(ran.self.base)), ran.thunk[2]))

\* Reading or writing a field through a box that lost its payload to a call
\* is refused (beans_reflect_field_get, beans_reflect_field_set).
EmptiedRefused == ran # None /\ ran.field => ran.self # None /\ \A i \in DOMAIN ran.args : ran.args[i] # None
=============================================================================
