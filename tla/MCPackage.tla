----------------------------- MODULE MCPackage -----------------------------
(* Metadata for the Package run: small sets of rows that get in each other's *)
(* way, and chains of interfaces over two namespaces.                        *)
EXTENDS Package, TLC

Plain == {"Bar", "CloseFoo", "Foo", "FooW", "Foo_N", "IID_Foo", "Procs"}
MCExport == [n \in Plain \cup {"_Foo"} |-> IF n = "_Foo" THEN "Foo" ELSE n]
MCRank == [n \in Plain \cup {"_Foo"} |->
  CASE n = "Bar" -> 1 [] n = "CloseFoo" -> 2 [] n = "Foo" -> 3 [] n = "FooW" -> 4
    [] n = "Foo_N" -> 5 [] n = "IID_Foo" -> 6 [] n = "Procs" -> 7 [] n = "_Foo" -> 8]
\* Composed identifiers that no row is called, but for Foo's.
MCIID == [id \in Plain |-> IF id = "Foo" THEN "IID_Foo" ELSE "IID of " \o id]
MCCloserName == [id \in Plain |-> IF id = "Foo" THEN "CloseFoo" ELSE "Close of " \o id]

Row(n, kind, name) == [ns |-> n, kind |-> kind, name |-> name, row |-> 1]
Again(r) == [r EXCEPT !.row = 2]
Typedef(n, name, free, handle) == Row(n, "typedef", name) @@ [free |-> free, handle |-> handle]
Enum(n, name, members) == Row(n, "enum", name) @@ [members |-> members]
Var(nested, opaque, builds) == [nested |-> nested, opaque |-> opaque, builds |-> builds]
Struct(n, name, a, b, perArch) ==
  Row(n, "struct", name) @@ [variants |-> [amd64 |-> a, arm64 |-> b], perArch |-> perArch]
Delegate(n, name, sig) == Row(n, "delegate", name) @@ [sig |-> sig]
Interface(n, name, base, severed, ms) ==
  Row(n, "interface", name) @@ [base |-> base, severed |-> severed, methods |-> ms, guid |-> TRUE, root |-> FALSE]
Root(r) == [r EXCEPT !.root = TRUE]
Constant(n, name, sig, builds) == Row(n, "constant", name) @@ [sig |-> sig, builds |-> builds]
Function(n, name, unsuffixed, amd64, loadable, builds, sig) ==
  Row(n, "function", name) @@ [unsuffixed |-> unsuffixed, amd64 |-> amd64, loadable |-> loadable,
                               builds |-> builds, sig |-> sig, closes |-> TRUE]

\* One namespace: rows that want the same few names.
Plainly == Var({"Foo_N"}, FALSE, TRUE)
Pool ==
  {Typedef(1, "Foo", "Bar", TRUE), Typedef(1, "_Foo", "CloseFoo", TRUE), Typedef(1, "Bar", "Foo", FALSE),
   Enum(1, "Foo", {"Bar", "Foo_N"}), Enum(1, "Bar", {"Foo", "IID_Foo", "_Foo"}),
   Struct(1, "Foo", Plainly, Plainly, FALSE), Struct(1, "_Foo", Var({"Foo_N"}, FALSE, FALSE), None, FALSE),
   Struct(1, "Bar", None, None, FALSE), Struct(1, "Foo_N", Var({}, TRUE, FALSE), Var({}, TRUE, FALSE), FALSE),
   Struct(1, "Procs", Plainly, Var({"Foo"}, FALSE, TRUE), TRUE),
   Struct(1, "CloseFoo", Var({"Foo_N"}, TRUE, TRUE), Var({"Foo_N"}, FALSE, FALSE), TRUE),
   Delegate(1, "Foo", "ok"), Delegate(1, "Bar", "bad"), Delegate(1, "Foo_N", "none"),
   Interface(1, "Foo", None, FALSE, <<"fits", "unfit", "fits">>), Root(Interface(1, "Bar", None, FALSE, <<"fits">>)),
   Interface(1, "_Foo", <<1, "Foo">>, FALSE, <<"fits">>),
   Constant(1, "Foo", "ok", TRUE), Constant(1, "Foo_N", "ok", FALSE), Constant(1, "IID_Foo", "ok", TRUE),
   Constant(1, "CloseFoo", "bad", TRUE), Constant(1, "Procs", "ok", TRUE), Constant(1, "Bar", "none", TRUE),
   Function(1, "Foo", None, TRUE, TRUE, TRUE, "ok"), Again(Function(1, "Foo", None, FALSE, TRUE, TRUE, "ok")),
   Function(1, "FooW", "Foo", TRUE, TRUE, TRUE, "ok"), Function(1, "Bar", None, TRUE, TRUE, FALSE, "ok"),
   Again(Function(1, "Bar", None, TRUE, FALSE, TRUE, "ok")), Function(1, "CloseFoo", None, TRUE, TRUE, TRUE, "ok"),
   Function(1, "Foo_N", None, TRUE, TRUE, TRUE, "bad"), Function(1, "Procs", None, TRUE, TRUE, TRUE, "none")}
Keyed(w) == \A r, q \in w : SameName(r, q) /\ (r.kind # "function" \/ r.row = q.row) => r = q
Crowds == {w \in {{a, b, c, d} : a, b, c, d \in Pool} : Keyed(w)}

\* Rows that follow another of their name, with one or two of the others.
Seconds ==
  {Again(r) : r \in {Typedef(1, "Foo", "Bar", FALSE), Typedef(1, "Bar", "Foo", TRUE), Enum(1, "Foo", {"Bar"}),
                     Enum(1, "Bar", {"Foo", "_Foo"}), Delegate(1, "Foo", "ok"), Delegate(1, "Foo", "bad"),
                     Delegate(1, "Bar", "ok"), Delegate(1, "Foo_N", "none"),
                     Interface(1, "Foo", None, FALSE, <<"fits", "fits">>), Interface(1, "Foo", <<1, "_Foo">>, FALSE, <<"bad", "fits">>),
                     Interface(1, "_Foo", None, FALSE, <<"unfit", "fits">>), Constant(1, "Foo", "ok", TRUE),
                     Constant(1, "Foo", "bad", TRUE), Constant(1, "Foo_N", "ok", TRUE)}}
Overwritten ==
  UNION {{{s, o, a, b} : o \in {q \in Pool : SameName(q, s)}, a \in Pool, b \in Pool} : s \in Seconds}
Twins == {w \in Overwritten : \A r, q \in w : SameName(r, q) /\ (r.kind = "struct" \/ r.row = q.row) => r = q}

\* Chains of three interfaces, of which the first may dangle or close the chain.
Lists == {<<"fits">>, <<"unfit", "fits">>, <<"bad", "fits">>}
Chains ==
  {{Interface(1, "Foo", top, FALSE, a), Interface(n, "Bar", <<1, "Foo">>, cut /\ n = 2, b),
    Interface(1, "FooW", <<n, "Bar">>, FALSE, c)} :
     top \in {None, <<1, "FooW">>, <<2, "Procs">>}, n \in {1, 2}, cut \in BOOLEAN, a \in Lists, b \in Lists, c \in Lists}

\* Free functions in the same, in another and in several namespaces.
FreePool ==
  {Function(1, "Bar", None, TRUE, TRUE, TRUE, "ok"), Function(2, "Bar", None, TRUE, FALSE, TRUE, "ok"),
   Function(3, "Bar", None, FALSE, TRUE, TRUE, "ok"), Again(Function(1, "Bar", None, FALSE, TRUE, TRUE, "ok")),
   [Again(Function(2, "Bar", None, TRUE, TRUE, TRUE, "ok")) EXCEPT !.closes = FALSE], Constant(2, "Bar", "ok", TRUE)}
Frees == {{Typedef(1, "Foo", "Bar", TRUE)} \cup fs : fs \in SUBSET FreePool}

AllWinmds == Crowds \cup Twins \cup Chains \cup Frees

\* What the theorems on names and closers assume holds of these rows.
ASSUME WinmdsAssumption == FunctionNames
=============================================================================
