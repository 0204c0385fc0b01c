------------------------------ MODULE PodDerive ------------------------------
(***************************************************************************)
(* The POD capability: the impls of src/util/pod.rs (integers, raw        *)
(* pointers, arrays [T; 0..=32] of a Pod T) and #[derive(Pod)] of          *)
(* src/macros/src/pod.rs, which emits an unsafe impl whose _assert_pod     *)
(* body calls assert::<F>() (F: Pod) for every field type F.  The crate   *)
(* builds only if every such call type-checks.                            *)
(*                                                                         *)
(* A program declares two types, S1 and then S2 (whose fields may name    *)
(* S1), each a struct, a unit struct, a union or an enum with derive(Pod). *)
(* Field types are drawn from a small set: an integer, bool (Copy but not  *)
(* Pod), a pointer, arrays at the edge of the impl list, and S1.           *)
(***************************************************************************)
EXTENDS Integers, Sequences, SequencesExt

CONSTANTS
  ArrayLens,   \* array lengths, around the largest impl (32)
  MaxFields    \* bound on the number of fields of a declaration

\* A type is a tuple: <<name>> for a named type, <<"array", elem, len>>.
Ints      == {<<"u8">>, <<"i8">>, <<"u16">>, <<"i16">>, <<"u32">>, <<"i32">>,
              <<"u64">>, <<"i64">>, <<"usize">>, <<"isize">>}     \* the i! impls
Pointers  == {<<"ptr_const">>, <<"ptr_mut">>}               \* *const T, *mut T
MaxArray  == 32                                 \* j!(0) .. j!(32)
DeclKinds == {"struct", "unit", "union", "enum"}
UserTypes == {"S1", "S2"}

Array(elem, n) == <<"array", elem, n>>
IsArray(t)     == t[1] = "array"
IsUser(t)      == t[1] \in UserTypes

\* The field types S1 and S2 may use.
Scalars     == {<<"u8">>, <<"bool">>, <<"ptr_mut">>}
FieldTypes1 == Scalars \cup {Array(e, n) : e \in {<<"u8">>, <<"bool">>}, n \in ArrayLens}
FieldTypes2 == FieldTypes1 \cup {<<"S1">>}

VARIABLES decl, built

pvars == <<decl, built>>

\* Mutant: the array impls carry no `T: Pod` bound.
HasImpl_arrayUnbounded(t, d) ==
  \/ t \in Ints \cup Pointers
  \/ t[1] \in DOMAIN d
  \/ IsArray(t) /\ t[3] <= MaxArray

RECURSIVE HasImpl(_, _)

\* Mutant: the j! list stops at 31.
HasImpl_upTo31(t, d) ==
  \/ t \in Ints \cup Pointers
  \/ t[1] \in DOMAIN d
  \/ IsArray(t) /\ t[3] < MaxArray /\ HasImpl(t[2], d)

(***************************************************************************)
(* Whether `t: Pod` holds: an i! or pointer impl, a j! impl for an array  *)
(* of at most 32 Pod elements, or the impl a derive emitted for a type    *)
(* declared in d (the derive emits it whatever the fields are).           *)
(***************************************************************************)
HasImpl(t, d) ==
  \/ t \in Ints \cup Pointers
  \/ t[1] \in DOMAIN d
  \/ IsArray(t) /\ t[3] <= MaxArray /\ HasImpl(t[2], d)

(***************************************************************************)
(* get_asserts: the field types asserted, and whether the derive expands: *)
(* struct and union fields are asserted, a unit struct asserts nothing, an *)
(* enum hits unimplemented!() and fails the build.                          *)
(***************************************************************************)
Asserts(k, fields) ==
  CASE k = "enum" -> <<FALSE, <<>>>>
    [] k = "unit" -> <<TRUE, <<>>>>
    [] OTHER      -> <<TRUE, fields>>

\* The build: every derive expands and every assert::<F>() type-checks.
Builds(d) ==
  \A u \in DOMAIN d :
    LET a == Asserts(d[u].kind, d[u].fields)
    IN  a[1] /\ \A i \in 1 .. Len(a[2]) : HasImpl(a[2][i], d)

\* A unit struct has no fields and a union at least one.
Decls(fts) ==
  {[kind |-> k, fields |-> f] : k \in DeclKinds, f \in BoundedSeq(fts, MaxFields)}
  \ ({[kind |-> "unit", fields |-> f] : f \in BoundedSeq(fts, MaxFields) \ {<<>>}}
      \cup {[kind |-> "union", fields |-> <<>>]})

PInit == decl = <<>> /\ built = "pending"

\* The author writes both declarations; the compiler decides.
Compile ==
  /\ built = "pending"
  /\ \E d1 \in Decls(FieldTypes1), d2 \in Decls(FieldTypes2) :
       LET d == [S1 |-> d1, S2 |-> d2]
       IN  decl' = d /\ built' = IF Builds(d) THEN "ok" ELSE "fails"

Reset == built # "pending" /\ decl' = <<>> /\ built' = "pending"

PNext == Compile \/ Reset

PSpec == PInit /\ [][PNext]_pvars

-----------------------------------------------------------------------------
(***************************************************************************)
(* The reference (spec.md 4.3 and the glossary): fixed-width integers, raw *)
(* pointers and fixed-size arrays of POD elements are POD; a struct is     *)
(* POD when every field is, so one with no fields is; a union when every  *)
(* variant is; an enum never (its tag has invalid bit patterns).           *)
(***************************************************************************)
RECURSIVE IsPod(_, _)
IsPod(t, d) ==
  CASE t \in Ints \cup Pointers -> TRUE
    [] IsUser(t) ->
         /\ d[t[1]].kind # "enum"
         /\ \A i \in 1 .. Len(d[t[1]].fields) : IsPod(d[t[1]].fields[i], d)
    [] IsArray(t) -> IsPod(t[2], d)
    [] OTHER -> FALSE

(***************************************************************************)
(* The compile-time obligation is sound: when the crate builds, every type *)
(* that derived Pod is POD by the recursive definition, so zeroed() and   *)
(* byte reinterpretation of it are sound.                                 *)
(***************************************************************************)
PodDeriveSound == built = "ok" => \A u \in UserTypes : IsPod(<<u>>, decl)
=============================================================================
