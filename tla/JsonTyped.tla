------------------------------ MODULE JsonTyped -----------------------------
(***************************************************************************)
(* Typed JSON: runtime/encoding/beans_enc_json.c reads a document into a   *)
(* struct along a schema the compiler emits, in two ways (a table of       *)
(* slots, or straight into the record), and writes a record in two ways    *)
(* (through yyjson's tree, or straight into the text).  The operators are  *)
(* the four walks; a behaviour builds one document, member by member, and  *)
(* the properties compare the walks on it.                                 *)
(*                                                                         *)
(* Values are tagged tuples.  A document is <<"null">>, <<"int", n>>,      *)
(* <<"real">>, <<"str", s>>, <<"arr", items>> or <<"obj", members>>; a     *)
(* record holds <<"zero">>, <<"int", n>>, <<"slot", word>>, <<"str", s>>,  *)
(* <<"list", items>> or <<"rec", fields>>.                                 *)
(***************************************************************************)
EXTENDS Integers, Sequences, SequencesExt, FiniteSetsExt, TLC

CONSTANTS Jobs,      \* schemas, each with the names, values and bounds of its documents
          Hash,      \* name -> hash
          Width,     \* bits of a machine word (64 in the code)
          Fill,      \* what list memory holds before it is written
          MaxDepth   \* a limit no document reaches

VARIABLES job,
          items,  \* the objects of the document
          walk    \* what the direct decoder made of it
vars == <<job, items, walk>>

Zero == <<"zero">>
Is(v, t) == v[1] = t
Required(f) == ~f.opt /\ ~f.def /\ ~f.ign

RECURSIVE Probe(_, _, _, _)
Probe(t, slot, n, name) ==
    IF n = 0 \/ t[slot].field = 0 THEN 0
    ELSE IF t[slot].name = name THEN t[slot].field
    ELSE Probe(t, (slot + 1) % Cardinality(DOMAIN t), n - 1, name)

\* The names a schema answers to, and the table the compiler lays them out in.
Names(fields) == FlattenSeq([k \in DOMAIN fields |->
    IF fields[k].ign THEN <<>>
    ELSE <<[name |-> fields[k].name, field |-> k]>>
           \o [a \in DOMAIN fields[k].alias |-> [name |-> fields[k].alias[a], field |-> k]]])
RECURSIVE Free(_, _)
Free(t, slot) == IF t[slot].field = 0 THEN slot ELSE Free(t, (slot + 1) % Cardinality(DOMAIN t))
Size(names) == Min({s \in {2, 4, 8, 16} : s >= 2 * Len(names)})
Keys(names, size) ==
    FoldLeft(LAMBDA t, e : [t EXCEPT ![Free(t, Hash[e.name] % size)] = e],
             [s \in 0..(size - 1) |-> [name |-> "", field |-> 0]], names)
Schema(fields, unknown, array) ==
    [fields |-> fields, unknown |-> unknown, array |-> array,
     size |-> Size(Names(fields)), keys |-> Keys(Names(fields), Size(Names(fields)))]

\* beans_json_typed_find_key: the index of the field, or 0.
FindKey(sc, name) == Probe(sc.keys, Hash[name] % sc.size, sc.size, name)

RECURSIVE Within(_, _, _)
Kids(v) == CASE Is(v, "arr") -> v[2] [] Is(v, "obj") -> [k \in DOMAIN v[2] |-> v[2][k][2]]
             [] OTHER -> <<>>
Below(kids, depth, max) ==
    /\ kids # <<>> => depth + 1 <= max
    /\ \A k \in DOMAIN kids : kids[k][1] \in {"arr", "obj"} => Within(kids[k], depth + 1, max)
\* beans_json_typed_within_depth.
Within(v, depth, max) == depth <= max /\ Below(Kids(v), depth, max)

\* beans_json_typed_integer.
Integer(v, uns, bits) ==
    IF ~Is(v, "int") THEN "TYPE"
    ELSE IF \/ uns /\ (v[2] < 0 \/ (bits < Width /\ v[2] > 2^bits - 1))
            \/ ~uns /\ v[2] > 2^(Width - 1) - 1
            \/ ~uns /\ bits < Width /\ (v[2] < -(2^(bits - 1)) \/ v[2] > 2^(bits - 1) - 1)
         THEN "RANGE" ELSE "ok"

\* The scalar kinds: the code and the value.
Scalar(f, v) ==
    CASE f.kind \in {"sint", "uint"} -> [code |-> Integer(v, f.kind = "uint", f.bits), val |-> v]
      [] f.kind = "f64" -> [code |-> IF v[1] \in {"int", "real"} THEN "ok" ELSE "TYPE", val |-> v]
      [] f.kind = "string" -> [code |-> IF Is(v, "str") THEN "ok" ELSE "TYPE", val |-> v]
      [] OTHER -> [code |-> "TYPE", val |-> Zero]

-----------------------------------------------------------------------------
\* beans_json_typed_store: into a field's slot.
Store(f, v) ==
    IF Is(v, "null") THEN [code |-> IF f.opt THEN "ok" ELSE "NULL", val |-> <<"none">>]
    ELSE Scalar(f, v)

\* beans_json_typed_object: one member after another, then what is missing.
Stored(st, k, s) == [code |-> s.code, rec |-> [st.rec EXCEPT ![k] = s.val]]
SlotFor(sc, st, k, v) ==
    IF k = 0 THEN IF sc.unknown THEN st ELSE [st EXCEPT !.code = "UNKNOWN"]
    ELSE IF st.rec[k] # <<"unset">> THEN [st EXCEPT !.code = "DUPLICATE"]
    ELSE Stored(st, k, Store(sc.fields[k], v))
SlotMember(sc, st, m) == IF st.code # "ok" THEN st ELSE SlotFor(sc, st, FindKey(sc, m[1]), m[2])
SlotsFilled(sc, st) ==
    IF st.code = "ok" /\ \E k \in DOMAIN sc.fields : st.rec[k] = <<"unset">> /\ Required(sc.fields[k])
    THEN [st EXCEPT !.code = "MISSING"] ELSE st
SlotObject(sc, o) ==
    IF ~Is(o, "obj") THEN [code |-> "ROOT", rec |-> <<>>]
    ELSE SlotsFilled(sc, FoldLeft(LAMBDA s, m : SlotMember(sc, s, m),
                         [code |-> "ok", rec |-> [k \in DOMAIN sc.fields |-> <<"unset">>]], o[2]))

RootFits(sc, root) == IF sc.array THEN Is(root, "arr") ELSE Is(root, "obj")
Objects(sc, root)  == IF sc.array THEN root[2] ELSE <<root>>

OneMore(s, r) == [code |-> r.code, recs |-> Append(s.recs, r.rec)]
\* beans_enc_json_typed_bind: the depth first, then the records.
Bind(sc, root, max) ==
    IF max = 0 \/ ~Within(root, 1, max) THEN [code |-> "DEPTH", recs |-> <<>>]
    ELSE IF ~RootFits(sc, root) THEN [code |-> "ROOT", recs |-> <<>>]
    ELSE FoldLeft(LAMBDA s, o : IF s.code # "ok" THEN s ELSE OneMore(s, SlotObject(sc, o)),
                  [code |-> "ok", recs |-> <<>>], Objects(sc, root))

-----------------------------------------------------------------------------
\* The walks into the record return the code, what they left in their target
\* and how many objects they allocated.
Result(c, v, n) == [code |-> c, val |-> v, made |-> n]

\* beans_json_typed_write_integer into a list's word-wide slot: only `bits`
\* of it are written.
Slot(n, bits) == <<"slot", ((n % 2^bits) + (Fill * 2^bits)) % 2^Width>>

\* The list's length covers an element before it is decoded.
Added(list, r) == Append(list, r.val)

RECURSIVE ValueDirect(_, _, _, _), ObjectDirect(_, _, _, _)
AsSlot(elem, r) == IF r.code = "ok" /\ elem.kind \in {"sint", "uint"}
                   THEN [r EXCEPT !.val = Slot(r.val[2], elem.bits)] ELSE r
Element(s, r) == Result(r.code, Added(s.val, r), s.made + r.made)
Wrap(tag, r) == [r EXCEPT !.val = <<tag, @>>]
\* beans_json_typed_list_direct: elements at depth + 1.
ListDirect(f, v, max, depth) ==
    IF ~Is(v, "arr") THEN Result("TYPE", Zero, 0)
    ELSE Wrap("list", FoldLeft(LAMBDA s, x :
             IF s.code # "ok" THEN s ELSE Element(s, AsSlot(f.elem, ValueDirect(f.elem, x, max, depth + 1))),
             Result("ok", <<>>, 1), v[2]))

ScalarDirect(f, s) == IF s.code # "ok" THEN Result(s.code, Zero, 0)
                      ELSE Result("ok", s.val, IF f.kind = "string" THEN 1 ELSE 0)
\* beans_json_typed_value_direct.
ValueDirect(f, v, max, depth) ==
    IF depth > max THEN Result("DEPTH", Zero, 0)
    ELSE CASE f.kind = "struct" -> Wrap("rec", ObjectDirect(f.child, v, max, depth))
           [] f.kind = "list" -> ListDirect(f, v, max, depth)
           [] OTHER -> ScalarDirect(f, Scalar(f, v))

Into(st, k, r) == [st EXCEPT !.code = r.code, !.val[k] = r.val, !.made = @ + r.made]
\* beans_json_typed_store_direct: null stops here, a value goes into the
\* record whether its decoding ends well or not.
StoreDirect(f, st, k, v, max, depth) ==
    IF Is(v, "null") THEN [st EXCEPT !.code = IF f.opt THEN "ok" ELSE "NULL"]
    ELSE Into(st, k, ValueDirect(f, v, max, depth))

\* The bits set when the ordered path ends.
SeenAtSwitch(st) == 1..st.expected

\* A member out of order: by the table, with a bit per field.
Looked(sc, st, k, v, max, depth) ==
    IF k = 0 THEN
        IF ~sc.unknown THEN [st EXCEPT !.code = "UNKNOWN"]
        ELSE [st EXCEPT !.code = IF Within(v, depth + 1, max) THEN "ok" ELSE "DEPTH"]
    ELSE IF k \in st.seen THEN [st EXCEPT !.code = "DUPLICATE"]
    ELSE StoreDirect(sc.fields[k], [st EXCEPT !.seen = @ \union {k}], k, v, max, depth + 1)
Switched(st) == IF st.ordered THEN [st EXCEPT !.ordered = FALSE, !.seen = SeenAtSwitch(st)] ELSE st
Expected(sc, st, m) ==
    st.ordered /\ st.expected < Len(sc.fields) /\ sc.fields[st.expected + 1].name = m[1]

\* One member.  While members come in the schema's order, no table is looked
\* up and no bit is kept.
DirectMember(sc, st, m, max, depth) ==
    IF st.code # "ok" THEN st
    ELSE IF Expected(sc, st, m)
    THEN StoreDirect(sc.fields[st.expected + 1], [st EXCEPT !.expected = @ + 1], st.expected + 1, m[2], max, depth + 1)
    ELSE Looked(sc, Switched(st), FindKey(sc, m[1]), m[2], max, depth)

Got(st) == IF st.ordered THEN 1..st.expected ELSE st.seen
Complete(sc, st) ==
    Result(IF st.code = "ok" /\ \E k \in DOMAIN sc.fields \ Got(st) : Required(sc.fields[k])
           THEN "MISSING" ELSE st.code, st.val, st.made)
\* beans_json_typed_object_direct.
ObjectDirect(sc, o, max, depth) ==
    IF ~Is(o, "obj") THEN Result("ROOT", [k \in DOMAIN sc.fields |-> Zero], 0)
    ELSE Complete(sc, FoldLeft(LAMBDA s, m : DirectMember(sc, s, m, max, depth),
                      [code |-> "ok", val |-> [k \in DOMAIN sc.fields |-> Zero], made |-> 0,
                       expected |-> 0, ordered |-> TRUE, seen |-> {}], o[2]))

\* beans_json_typed_decode_walk: one record, or a list of them whose length
\* covers the record being decoded.
Decode(sc, root, max) ==
    IF max = 0 THEN Result("DEPTH", Zero, 0)
    ELSE IF ~RootFits(sc, root) THEN Result("ROOT", Zero, 0)
    ELSE IF sc.array /\ root[2] # <<>> /\ 2 > max THEN Result("DEPTH", Zero, 0)
    ELSE IF ~sc.array THEN Wrap("rec", ObjectDirect(sc, root, max, 1))
    ELSE Wrap("list", FoldLeft(LAMBDA s, o :
             IF s.code # "ok" THEN s ELSE Element(s, Wrap("rec", ObjectDirect(sc, o, max, 2))),
             Result("ok", <<>>, 1), root[2]))

RECURSIVE Released(_)
\* beans_json_typed_release_record, and the release of a list, which drops
\* what its elements own: the objects let go of.
Released(v) ==
    CASE Is(v, "str") -> 1
      [] Is(v, "list") -> 1 + FoldLeft(LAMBDA n, x : n + Released(x), 0, v[2])
      [] Is(v, "rec") -> FoldLeft(LAMBDA n, x : n + Released(x), 0, v[2])
      [] OTHER -> 0

-----------------------------------------------------------------------------
RECURSIVE EncodeValue(_, _)
\* beans_json_typed_encode_object, _list and _value: the tree yyjson writes.
\* A list's slot is read as a whole word (beans_json_typed_read_integer).
EncodeObject(sc, rec) ==
    <<"obj", FlattenSeq([k \in DOMAIN sc.fields |->
        IF sc.fields[k].ign THEN <<>>
        ELSE <<<<sc.fields[k].name,
                 IF sc.fields[k].opt /\ Is(rec[k], "zero") THEN <<"null">>
                 ELSE EncodeValue(sc.fields[k], rec[k])>>>>])>>
SlotRead(kind, w) == IF kind = "sint" /\ w >= 2^(Width - 1) THEN w - 2^Width ELSE w
EncodeValue(f, v) ==
    CASE f.kind = "struct" -> EncodeObject(f.child, v[2])
      [] f.kind = "list" -> <<"arr", [k \in DOMAIN v[2] |-> EncodeValue(f.elem, v[2][k])]>>
      [] Is(v, "slot") -> <<"int", SlotRead(f.kind, v[2])>>
      [] OTHER -> v
EncodeDom(sc, v) ==
    IF sc.array THEN <<"arr", [k \in DOMAIN v[2] |-> EncodeObject(sc, v[2][k][2])]>>
    ELSE EncodeObject(sc, v[2])

RECURSIVE Text(_)
\* What yyjson writes for a tree.
Commas(ts) == FlattenSeq([k \in DOMAIN ts |-> IF k = 1 THEN ts[k] ELSE <<",">> \o ts[k]])
Text(v) ==
    CASE Is(v, "obj") -> <<"{">> \o Commas([k \in DOMAIN v[2] |-> <<v[2][k][1], ":">> \o Text(v[2][k][2])]) \o <<"}">>
      [] Is(v, "arr") -> <<"[">> \o Commas([k \in DOMAIN v[2] |-> Text(v[2][k])]) \o <<"]">>
      [] OTHER -> <<ToString(v)>>

\* beans_json_skel_build succeeds.
Usable(sc) == \E k \in DOMAIN sc.fields : ~sc.fields[k].ign
First(sc, k) == \A j \in 1..(k - 1) : sc.fields[j].ign
Skeleton(sc, k) == <<IF First(sc, k) THEN "{" ELSE ",", sc.fields[k].name, ":">>

RECURSIVE DirectValue(_, _)
\* beans_json_direct_object: the keys from the skeleton, or one by one.
DirectObject(sc, rec, skel) ==
    (IF skel THEN <<>> ELSE <<"{">>)
      \o FlattenSeq([k \in DOMAIN sc.fields |->
           IF sc.fields[k].ign THEN <<>>
           ELSE (IF skel THEN Skeleton(sc, k)
                 ELSE (IF First(sc, k) THEN <<>> ELSE <<",">>) \o <<sc.fields[k].name, ":">>)
                \o (IF sc.fields[k].opt /\ Is(rec[k], "zero") THEN <<ToString(<<"null">>)>>
                    ELSE DirectValue(sc.fields[k], rec[k]))])
      \o <<"}">>
DirectList(elem, list) ==
    <<"[">> \o Commas([k \in DOMAIN list |->
        IF elem.kind = "struct"
        THEN DirectObject(elem.child, list[k][2], Len(list) > 1 /\ Usable(elem.child))
        ELSE DirectValue(elem, list[k])]) \o <<"]">>
\* beans_json_direct_value.
DirectValue(f, v) ==
    CASE f.kind = "struct" -> DirectObject(f.child, v[2], FALSE)
      [] f.kind = "list" -> DirectList(f.elem, v[2])
      [] Is(v, "slot") -> <<ToString(<<"int", SlotRead(f.kind, v[2])>>)>>
      [] OTHER -> <<ToString(v)>>
DirectText(sc, v) ==
    IF sc.array THEN DirectList([kind |-> "struct", child |-> sc], v[2])
    ELSE DirectObject(sc, v[2], FALSE)

RECURSIVE Eligible(_)
\* beans_json_direct_eligible: floats and lists of lists take the tree.
Eligible(sc) ==
    \A k \in DOMAIN sc.fields :
        LET f == sc.fields[k]
        IN  \/ f.ign
            \/ /\ f.kind # "f64"
               /\ f.kind = "struct" => Eligible(f.child)
               /\ f.kind = "list" => /\ f.elem.kind \notin {"f64", "list"}
                                     /\ f.elem.kind = "struct" => Eligible(f.elem.child)

\* The last reserve of a refused encode.
RolledBack(b, start) == [b EXCEPT !.len = start]

Bad == ToString(<<"str", "bad">>)
\* beans_json_direct_grow in append mode: the caller's Bytes takes the length
\* written so far, and room for the token that does not fit.
Grown(b) == IF b.pos + 1 > b.cap THEN [b EXCEPT !.len = b.pos, !.cap = 2 * (b.pos + 1)] ELSE b
Written(b, tok) == [b EXCEPT !.pos = @ + 1, !.data = SubSeq(@, 1, b.pos) \o <<tok>>]
Put(b, tok) ==
    IF b.bad THEN b ELSE IF tok = Bad THEN [Grown(b) EXCEPT !.bad = TRUE] ELSE Written(Grown(b), tok)

\* beans_json_direct_encode appending after `start`.
Ended(b, start) == IF b.bad THEN RolledBack(b, Len(start)) ELSE [b EXCEPT !.len = b.pos]
AppendDirect(toks, start) ==
    Ended(FoldLeft(Put, [data |-> start, len |-> Len(start), pos |-> Len(start),
                         cap |-> Len(start) + 1, bad |-> FALSE], toks), start)

-----------------------------------------------------------------------------
DocOf(sc, objs) == IF sc.array THEN <<"arr", [k \in DOMAIN objs |-> <<"obj", objs[k]>>]>>
                   ELSE <<"obj", objs[1]>>
Doc == DocOf(job.schema, items)

Init == job \in Jobs /\ items = <<<<>>>> /\ walk = Decode(job.schema, Doc, job.max)
Members == FoldLeft(LAMBDA n, o : n + Len(o), 0, items)
Walk(objs) == items' = objs /\ walk' = Decode(job.schema, DocOf(job.schema, objs), job.max) /\ UNCHANGED job
AddMember ==
    /\ Members < job.members
    /\ \E n \in job.names, v \in job.values :
          Walk([items EXCEPT ![Len(items)] = Append(@, <<n, v>>)])
AddObject == job.schema.array /\ Len(items) < 2 /\ Walk(Append(items, <<>>))
Next == AddMember \/ AddObject
Spec == Init /\ [][Next]_vars

-----------------------------------------------------------------------------
\* A null member of an object at the limit: the walk does not measure it.
NullAtLimit ==
    /\ job.max = IF job.schema.array THEN 2 ELSE 1
    /\ \A k \in DOMAIN items : \A m \in DOMAIN items[k] : Is(items[k][m][2], "null")

Value(v) == IF v[1] \in {"none", "unset"} THEN Zero ELSE v
Records(w) == IF job.schema.array THEN [k \in DOMAIN w.val[2] |-> w.val[2][k][2]] ELSE <<w.val[2]>>
Agree(b, w) ==
    /\ (b.code = "ok") <=> (w.code = "ok")
    /\ w.code = "ok" =>
          Records(w) = [k \in DOMAIN b.recs |-> [f \in DOMAIN b.recs[k] |-> Value(b.recs[k][f])]]

\* Both decoders accept the same documents and read the same values from
\* them, for the schemas both can read; only a null at the depth limit tells
\* them apart.
DecodersAgree ==
    job.scalar /\ ~NullAtLimit => Agree(Bind(job.schema, Doc, job.max), walk)

\* A refused document leaves nothing behind: everything allocated on the way
\* is reachable from the record or list that is released.
RefusalReleasesAll == walk.code # "ok" => Released(walk.val) = walk.made

Named(k) == {m \in DOMAIN items[1] : FindKey(job.schema, items[1][m][1]) = k}
\* No member of an accepted document was dropped: each name the schema knows
\* is there once, with the value the record holds.
NothingDropped ==
    walk.code = "ok" /\ ~job.schema.array =>
        \A k \in DOMAIN job.schema.fields :
            /\ Cardinality(Named(k)) <= 1
            /\ (walk.val[2][k] = Zero) <=> \A m \in Named(k) : Is(items[1][m][2], "null")

\* The direct writer and the tree write the same text.
EncodersAgree ==
    walk.code = "ok" /\ Eligible(job.schema) =>
        DirectText(job.schema, walk.val) = Text(EncodeDom(job.schema, walk.val))

Kept(toks, b) ==
    SubSeq(b.data, 1, b.len) = <<"x", "y">> \o (IF \E k \in DOMAIN toks : toks[k] = Bad THEN <<>> ELSE toks)
Appends(toks) == Kept(toks, AppendDirect(toks, <<"x", "y">>))
\* Appending leaves what was there, and a refused encode nothing else.
AppendKeepsBytes == walk.code = "ok" => Appends(DirectText(job.schema, walk.val))

Same(again, w) == again.code = "ok" /\ again.val = w.val
\* What is written reads back as the same record.
RoundTrip ==
    walk.code = "ok" => Same(Decode(job.schema, EncodeDom(job.schema, walk.val), MaxDepth), walk)

\* The two decoders agree on every document and the two encoders on every
\* record, a refusal releases what was built and keeps the text that was
\* there, and a record reads back.
WalksAgree == DecodersAgree /\ NothingDropped /\ RefusalReleasesAll
    /\ EncodersAgree /\ AppendKeepsBytes /\ RoundTrip
=============================================================================
