------------------------ MODULE InstructionBuilding ------------------------
(***************************************************************************)
(* The life of an instruction: it is filled in through one of the forms of *)
(* a generated client, made, sent as part of a transaction and read back   *)
(* by the parser.                                                          *)
(***************************************************************************)
EXTENDS InstructionDecoding

Jupiter == INSTANCE JupiterInstructions
Whirlpools == INSTANCE WhirlpoolsInstructions
Pump == INSTANCE PumpInstructions

CONSTANTS
    MaxRemaining    \* bound: remaining accounts added

ASSUME MaxRemainingAssumption == MaxRemaining \in Nat

VARIABLES
    stage,          \* "new", "set", "made", "panicked" or "read"
    form,           \* the form of the instruction that is filled in
    given,          \* what its fields were set to
    remaining,      \* its remaining accounts, with the flags that were meant
    made,           \* the instruction, and the infos it is invoked with
    read            \* what the parser makes of it

ixVars == <<stage, form, given, remaining, made, read>>

\* The swaps of Raydium, with the accounts that SwapBaseInAccounts documents; the
\* repository has no client for them.
RaydiumSwap(name, args) == Instruction("Raydium", name,
    <<Ro("token_program"), Wr("amm_account"), Ro("amm_authority"), Wr("amm_open_orders"),
      Wr("amm_target_orders"), Wr("amm_coin_vault"), Wr("amm_pc_vault"),
      Ro("market_program"), Wr("market_account"), Wr("market_bids"), Wr("market_asks"),
      Wr("market_event_queue"), Wr("market_coin_vault"), Wr("market_pc_vault"),
      Ro("market_vault_signer"), Wr("user_source_token_account"),
      Wr("user_destination_token_account"), Sig("user_wallet_account")>>, args)

\* "recommended no need to add this Account".
WithoutTargetOrders(ix) ==
    [ix EXCEPT !.accounts = SelectSeq(@, LAMBDA a : a.name # "amm_target_orders")]

RaydiumForms ==
    LET swaps == {RaydiumSwap("SwapBaseIn", <<Arg("amount_in"), Arg("minimum_amount_out")>>),
                  RaydiumSwap("SwapBaseOut", <<Arg("max_amount_in"), Arg("amount_out")>>)}
    IN  swaps \cup {WithoutTargetOrders(s) : s \in swaps}

Forms ==
    Jupiter!JupiterForms \cup Whirlpools!WhirlpoolsForms \cup Pump!PumpForms
        \cup RaydiumForms

NotMade == [metas |-> <<>>, data |-> Absent, infos |-> <<>>]

BuildInit ==
    /\ stage = "new" /\ form = Absent /\ given = <<>> /\ remaining = <<>>
    /\ made = NotMade /\ read = [parsed |-> "none"]

\* The keys and arguments that belong into the fields.
Meant(f) == [n \in FieldNames(f) |-> IF n = "program" THEN f.program ELSE n]

\* What a field may be set to instead: nothing, the key of the program, the key
\* of the first account.  A struct has to give what is no Option.
Instead(f, n) ==
    (IF IsBuilder(f) \/ n \in Optionals(f.accounts) \cup Optionals(f.args)
     THEN {Absent} ELSE {})
        \cup (IF n \in AccountNames(f) THEN {f.program, f.accounts[1].name} ELSE {})

\* new(), and the setters; each assigns its own field.  All fields but one are
\* given what is meant.
FillIn(f) ==
    /\ stage = "new"
    /\ stage' = "set" /\ form' = f
    /\ \/ given' = Meant(f)
       \/ \E n \in FieldNames(f) : \E v \in Instead(f, n) :
             given' = [Meant(f) EXCEPT ![n] = v]
    /\ UNCHANGED <<remaining, made, read>>

\* add_remaining_account(s).
AddRemainingAccount(writable, signer) ==
    /\ stage = "set" /\ form.program # "Raydium" /\ Len(remaining) < MaxRemaining
    /\ remaining' = Append(remaining, [key |-> "extra", signer |-> signer, writable |-> writable])
    /\ UNCHANGED <<stage, form, given, made, read>>

\* instruction() and invoke() of a builder that lacks a field.
BuilderPanics ==
    /\ stage = "set" /\ IsBuilder(form) /\ Panics(form, given) # {}
    /\ stage' = "panicked"
    /\ UNCHANGED <<form, given, remaining, made, read>>

\* instruction_with_remaining_accounts, invoke_signed_with_remaining_accounts.
MakeInstruction ==
    /\ stage = "set" /\ (IsBuilder(form) => Panics(form, given) = {})
    /\ stage' = "made"
    /\ made' = [metas |-> Metas(form, given, remaining), data |-> Data(form, given),
                infos |-> IF IsCpi(form) THEN AccountInfos(form, given, remaining) ELSE <<>>]
    /\ UNCHANGED <<form, given, remaining, read>>

\* The transaction with it is parsed.
ReadBack ==
    /\ stage = "made"
    /\ stage' = "read"
    /\ read' = ParseInstruction(Compiled(form.program, made.metas, made.data))
    /\ UNCHANGED <<form, given, remaining, made>>

BuildNext ==
    \/ \E f \in Forms : FillIn(f)
    \/ \E w, s \in BOOLEAN : AddRemainingAccount(w, s)
    \/ BuilderPanics
    \/ MakeInstruction
    \/ ReadBack

-----------------------------------------------------------------------------

\* What the parser may find in a field: its value, except that the program's own
\* key and an absent optional account look the same.
AsRead(n) ==
    LET v == FieldValue(form, given, n)
    IN  IF n \in Optionals(form.accounts) /\ v = form.program THEN Absent ELSE v

\* The keys of the accounts that must sign.
Signers == {made.metas[i].key : i \in {j \in DOMAIN form.accounts : form.accounts[j].signer}}

\* Every Jupiter or whirlpools instruction a client makes, in any of its forms,
\* and every swap of Raydium, with or without the account of the target orders,
\* is read back by the parser (parser/v1/jupiter_v6.rs, orca.rs, raydium_v4.rs)
\* with each key and argument in its own field, whether an optional account is
\* missing, two accounts coincide or accounts remain; its user signed it, and the
\* amount it names as the threshold is an argument of it.
DecodedAsBuilt ==
    stage = "read" /\ form.program # "Pump" =>
        /\ read.parsed = form.name
        /\ \A n \in AccountNames(form) : read.accounts[n] = AsRead(n)
        /\ \A i \in DOMAIN form.args : read.args[i] = given[form.args[i].name]
        /\ form.program = "Jupiter" =>
              /\ User(read) \in Signers
              /\ ThresholdArg(read) \in Names(form.args)
              /\ SourceMint(read) = IF "source_mint" \in AccountNames(form)
                                     THEN FieldValue(form, given, "source_mint") ELSE Absent
              /\ DestinationMint(read) = FieldValue(form, given, "destination_mint")
        /\ form.program = "Whirlpools" => PoolState(read) = FieldValue(form, given, "whirlpool")
        /\ form.program = "Raydium" => PoolState(read) = given["amm_account"]

\* An invocation has an info for the program and for the key of every
\* AccountMeta, also when the program stands for an optional account that is
\* missing (invoke_signed_with_remaining_accounts of the generated clients).
InfosCoverMetas ==
    stage \in {"made", "read"} /\ IsCpi(form) =>
        {form.program} \cup {made.metas[i].key : i \in DOMAIN made.metas} \subseteq Range(made.infos)
=============================================================================
