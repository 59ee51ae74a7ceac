------------------------------- MODULE MCLocal -------------------------------
(***************************************************************************)
(* Local with three calls of two processes, two programs and two names.    *)
(***************************************************************************)
EXTENDS Local, FiniteSets, TLC

CONSTANTS c1, c2, c3, p1, p2

\* Two calls of one process, as the MCP server makes, and one of another.
CallHome == c1 :> p1 @@ c2 :> p1 @@ c3 :> p2

SecretJobs ==
  c1 :> [op : {"set", "delete"}, name : Names]
  @@ c2 :> [op : {"set"}, name : Names]
  @@ c3 :> [op : {"set", "delete", "list"}, name : {"b"}]

CacheJobs ==
  c1 :> {"set"} @@ c2 :> {"get", "delete"} @@ c3 :> {"get", "set", "clear"}

-----------------------------------------------------------------------------
(* The IDLs.  A byte has two values, so u8 is 0..1 and u64 is 0..255. *)

Wrapped(ws, n) == [wraps |-> ws, name |-> n]
Name(n) == Wrapped(<<>>, n)
Option == [shape |-> "option", len |-> 0]
Vec == [shape |-> "vec", len |-> 0]
Array(n) == [shape |-> "array", len |-> n]

TypeList ==
  <<Name("u8"), Name("u16"), Name("u32"), Name("u64"), Name("i8"), Name("i16"),
    Name("i32"), Name("i64"), Name("bool"), Name("string"), Name("publicKey"),
    Name("pubkey"), Name("u128"), Name("Custom"), Wrapped(<<Option>>, "bool"),
    Wrapped(<<Option>>, "u16"), Wrapped(<<Vec>>, "u8"), Wrapped(<<Vec>>, "string"),
    Wrapped(<<Vec>>, "pubkey"), Wrapped(<<Vec>>, "Custom"), Wrapped(<<Array(2)>>, "i8"),
    Wrapped(<<Vec, Option>>, "u8"), Wrapped(<<Option, Vec>>, "bool"),
    Wrapped(<<Array(1), Vec>>, "i16")>>
AllTypes == {TypeList[i] : i \in DOMAIN TypeList}

Num(n) == Piece("int", n, <<0, 1>>)
Key == Piece("key", 0, <<1, 0, 1>>)
Word == Piece("word", 0, <<1, 1, 0>>)
True == Piece("true", 0, <<0>>)
Pieces == {Empty, Key, Word, True} \cup {Num(n) : n \in {-2, 0, 1, 3, 16, 255, 256}}
AllRaws == {<<p>> : p \in Pieces}
           \cup {<<Num(1), Num(0)>>, <<Num(1), Empty>>, <<Key, Key>>,
                 <<Num(0), Num(1), Num(1)>>, <<Word, Num(1)>>}

Arg(n, t) == [name |-> n, type |-> t]
Account(n, s, w) == [name |-> n, signer |-> s, writable |-> w]
Move == [name |-> <<"Move">>,
         args |-> <<Arg("amount", Name("u16")), Arg("to", Name("pubkey"))>>,
         accounts |-> <<Account("vault", FALSE, TRUE), Account("owner", TRUE, FALSE)>>]
\* Found by no name, as the one before it is.
Shadowed == [name |-> <<"move">>, args |-> <<>>, accounts |-> <<>>]
Opaque == [name |-> <<"opaque">>,
           args |-> <<Arg("amount", Wrapped(<<Vec>>, "Custom"))>>, accounts |-> <<>>]
\* Each type has an instruction with a single argument of it and one account.
TypeName(i) == <<"type", ToString(i)>>
Only(i) == [name |-> TypeName(i), args |-> <<Arg("arg", TypeList[i])>>,
            accounts |-> <<Account("owner", FALSE, FALSE)>>]
OnlyFlags(r) == accountFlagName("owner") :> <<Key>> @@ Flag("arg") :> r

\* Arguments and an account with the names of options.
Shared(n, args) == [name |-> <<n>>, args |-> args,
                    accounts |-> <<Account("signer", TRUE, TRUE)>>]
SharedList ==
  <<Shared("muted", <<Arg("quiet", Name("bool")), Arg("amount", Name("u8"))>>),
    Shared("switched", <<Arg("simulate", Wrapped(<<Option>>, "bool")),
                         Arg("signer", Name("pubkey"))>>),
    Shared("worded", <<Arg("network", Name("string"))>>),
    Shared("texted", <<Arg("execute", Name("string"))>>)>>
SharedFlags ==
  { Flag("signer") :> <<Key>> @@ Flag("quiet") :> <<True>> @@ Flag("amount") :> <<Num(1)>>
      @@ Flag("simulate") :> <<True>> @@ Flag("execute") :> <<Word>>
      @@ Flag("network") :> <<Word>>,
    accountFlagName("signer") :> <<Key>> @@ Flag("signer") :> <<Empty>> }

AllInstructions ==
  "i1" :> <<Move, Shadowed, Opaque>> \o SharedList \o [i \in DOMAIN TypeList |-> Only(i)]
    @@ "i2" :> <<>>
LowerCase(piece) == IF piece \in {"Move", "MOVE"} THEN "move" ELSE piece
DottedLabels == "a" :> <<"a">> @@ "b" :> <<"b">>
TwoNames == "i1" :> "a" @@ "i2" :> "none"
Shorts == "P" :> "b" @@ "Q" :> "a"

MoveFlags ==
  LET owner == accountFlagName("owner") :> <<Key>>
      both == owner @@ Flag("vault") :> <<Key>>
      to == Flag("to") :> <<Key>>
  IN { both @@ to @@ Flag("amount") :> <<Num(3)>>,
       both @@ Flag("payer") :> <<Word>> @@ Flag("amount") :> <<Num(1)>>,
       owner @@ to @@ Flag("amount") :> <<Num(0)>> }

Job == [op |-> "none", pid |-> "none", ref |-> "none", source |-> "none",
        label |-> NoLabel, ix |-> <<"none">>, flags |-> << >>, mode |-> "plan"]
Add(p, s, l) == [Job EXCEPT !.op = "add", !.pid = p, !.source = s, !.label = l]
Remove(r) == [Job EXCEPT !.op = "remove", !.ref = r]
CallOf(r, x, f, m) == [Job EXCEPT !.op = "call", !.ref = r, !.ix = x, !.flags = f,
                                  !.mode = m]
Few == CHOOSE f \in MoveFlags : TRUE

IdlJobs ==
  c1 :> {Add("P", "i1", "a"), Add("P", "i2", NoLabel), Add("Q", "i1", "b"),
         Add("bad", "i1", "a"), Add("P", "not an IDL", "a")}
  @@ c2 :> {Add("Q", "i1", "a"), Remove("a")}
  @@ c3 :> {CallOf("P", <<"a", "MOVE">>, f, "plan") : f \in MoveFlags}
           \cup {CallOf("P", TypeName(i), OnlyFlags(r), "plan") :
                    i \in DOMAIN TypeList, r \in AllRaws}
           \cup {CallOf("P", SharedList[i].name, f, m) :
                    i \in DOMAIN SharedList, f \in SharedFlags, m \in {"plan", "simulate"}}
           \cup {CallOf("a", <<"opaque">>, Few, "execute"),
                 CallOf("P", <<"none">>, Few, "both"), Remove("P"),
                 [Job EXCEPT !.op = "list"]}

-----------------------------------------------------------------------------
\* TLC keeps the value of a definition, but not of one that stands for a constant.
TypesAsked == AllTypes
RawsAsked == AllRaws
Instructions == AllInstructions
Jobs == IdlJobs

\* The second program starts without an IDL or with the one that has a name.
MCInit == Init /\ files["Q"] # "i2"
\* While c3 makes a call for the sake of its flags, the others wait.
Sweeping == job[c3].op = "call" /\ job[c3].flags # Few
MCNext == Next /\ (Sweeping' => \A c \in Cmds \ {c3} : pc'[c] = "idle")
MCSpec == MCInit /\ [][MCNext]_vars
=============================================================================
