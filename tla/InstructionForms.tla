-------------------------- MODULE InstructionForms --------------------------
(***************************************************************************)
(* What the generated clients of a program (parser/generated) have in      *)
(* common.  An instruction is described by its accounts and arguments in   *)
(* their order; every client offers it in four forms: the struct of its    *)
(* accounts, a builder, the struct for a cross-program invocation and a    *)
(* builder for that.                                                       *)
(***************************************************************************)
EXTENDS Sequences, SequencesExt, FiniteSets

\* A field that was not given.
Absent == "absent"

\* An account: the flags of its AccountMeta, and whether it is an Option.
Ro(n) == [name |-> n, writable |-> FALSE, signer |-> FALSE, optional |-> FALSE]
Wr(n) == [Ro(n) EXCEPT !.writable = TRUE]
Sig(n) == [Ro(n) EXCEPT !.signer = TRUE]
WrSig(n) == [Wr(n) EXCEPT !.signer = TRUE]
Opt(account) == [account EXCEPT !.optional = TRUE]

\* An argument; an optional one may stay None.
Arg(n) == [name |-> n, optional |-> FALSE]
OptArg(n) == [name |-> n, optional |-> TRUE]

\* The accounts in the order of their AccountMetas, the arguments in the order
\* they are serialised in.
Instruction(program, name, accounts, args) ==
    [form |-> "client", program |-> program, name |-> name,
     accounts |-> accounts, args |-> args, defaults |-> {}]

\* The keys that a builder falls back to.
TokenProgram == [name |-> "token_program", key |-> "Tokenkeg"]
SystemProgram == [name |-> "system_program", key |-> "System"]
Rent == [name |-> "rent", key |-> "SysvarRent"]

\* A builder of the instruction, with the accounts that have a default.
Builder(ix, defaults) == [ix EXCEPT !.form = "builder", !.defaults = defaults]

\* The instruction for an invocation, and its builder, which has no defaults.
Cpi(ix) == [ix EXCEPT !.form = "cpi"]
CpiBuilder(cpi) == [cpi EXCEPT !.form = "cpi_builder"]

-----------------------------------------------------------------------------

Names(fields) == {fields[i].name : i \in DOMAIN fields}
Optionals(fields) == {f.name : f \in {g \in Range(fields) : g.optional}}
AccountNames(ix) == Names(ix.accounts)
FieldNames(ix) == AccountNames(ix) \cup Names(ix.args)

IsBuilder(ix) == ix.form \in {"builder", "cpi_builder"}
IsCpi(ix) == ix.form \in {"cpi", "cpi_builder"}

\* What the builder panics without: "... is not set".
Required(ix) ==
    FieldNames(ix) \ (Optionals(ix.accounts) \cup Optionals(ix.args)
                         \cup {d.name : d \in ix.defaults})

Panics(ix, given) == {f \in Required(ix) : given[f] = Absent}

\* The value of a field when the instruction is made.
FieldValue(ix, given, f) ==
    IF given[f] # Absent THEN given[f]
    ELSE IF \E d \in ix.defaults : d.name = f
         THEN (CHOOSE d \in ix.defaults : d.name = f).key
         ELSE Absent

\* AccountMeta::new or new_readonly; the program's own key, read-only, stands
\* for an optional account that is not there.
AccountMeta(ix, given, account) ==
    LET key == FieldValue(ix, given, account.name)
    IN  IF key = Absent
        THEN [key |-> ix.program, signer |-> FALSE, writable |-> FALSE]
        ELSE [key |-> key, signer |-> account.signer, writable |-> account.writable]

\* Remaining accounts are copied; an invocation takes them as (account,
\* is_writable, is_signer) and reads the first flag as is_signer.
RemainingMeta(ix, r) ==
    IF IsCpi(ix) THEN [key |-> r.key, signer |-> r.writable, writable |-> r.signer]
    ELSE r

Metas(ix, given, remaining) ==
    [i \in DOMAIN ix.accounts |-> AccountMeta(ix, given, ix.accounts[i])]
        \o [i \in DOMAIN remaining |-> RemainingMeta(ix, remaining[i])]

\* The discriminator and the arguments in their order.
Data(ix, given) ==
    [discriminator |-> ix.name, args |-> [i \in DOMAIN ix.args |-> given[ix.args[i].name]]]

\* Mutant: the infos without the program that is invoked.
AccountInfosOfAccounts(ix, given, remaining) ==
    SelectSeq([i \in DOMAIN ix.accounts |-> FieldValue(ix, given, ix.accounts[i].name)],
              LAMBDA key : key # Absent)
        \o [i \in DOMAIN remaining |-> remaining[i].key]

\* account_infos of invoke_signed_with_remaining_accounts: the program first,
\* then the accounts that are there.
AccountInfos(ix, given, remaining) ==
    <<ix.program>>
        \o SelectSeq([i \in DOMAIN ix.accounts |-> FieldValue(ix, given, ix.accounts[i].name)],
                     LAMBDA key : key # Absent)
        \o [i \in DOMAIN remaining |-> remaining[i].key]
=============================================================================
