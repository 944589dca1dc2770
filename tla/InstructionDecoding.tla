------------------------ MODULE InstructionDecoding ------------------------
(***************************************************************************)
(* V1Parser::parse_instruction (parser/v1): the accounts and arguments of  *)
(* a compiled instruction, read back by the position of its accounts.      *)
(***************************************************************************)
EXTENDS InstructionForms, Integers

\* keys.next_account_key() and keys.next_anchor_opt_account_key().
Key(n) == [name |-> n, anchorOpt |-> FALSE]
OptKey(n) == [name |-> n, anchorOpt |-> TRUE]

\* The arms of decode_jupiter_v6_instruction, by discriminator.
JupiterArms ==
    [Route |->
        <<Key("token_program"), Key("user_transfer_authority"),
          Key("user_source_token_account"), Key("user_destination_token_account"),
          OptKey("destination_token_account"), Key("destination_mint"),
          OptKey("platform_fee_account"), Key("event_authority"), Key("program")>>,
     ExactOutRoute |->
        <<Key("token_program"), Key("user_transfer_authority"),
          Key("user_source_token_account"), Key("user_destination_token_account"),
          OptKey("destination_token_account"), Key("source_mint"),
          Key("destination_mint"), OptKey("platform_fee_account"),
          OptKey("token2022_program"), Key("event_authority"), Key("program")>>,
     RouteWithTokenLedger |->
        <<Key("token_program"), Key("user_transfer_authority"),
          Key("user_source_token_account"), Key("user_destination_token_account"),
          OptKey("destination_token_account"), Key("destination_mint"),
          OptKey("platform_fee_account"), Key("token_ledger"),
          Key("event_authority"), Key("program")>>,
     SharedAccountsExactOutRoute |->
        <<Key("token_program"), Key("program_authority"), Key("user_transfer_authority"),
          Key("source_token_account"), Key("program_source_token_account"),
          Key("program_destination_token_account"), Key("destination_token_account"),
          Key("source_mint"), Key("destination_mint"), OptKey("platform_fee_account"),
          OptKey("token2022_program"), Key("event_authority"), Key("program")>>,
     SharedAccountsRoute |->
        <<Key("token_program"), Key("program_authority"), Key("user_transfer_authority"),
          Key("source_token_account"), Key("program_source_token_account"),
          Key("program_destination_token_account"), Key("destination_token_account"),
          Key("source_mint"), Key("destination_mint"), OptKey("platform_fee_account"),
          OptKey("token2022_program"), Key("event_authority"), Key("program")>>,
     SharedAccountsRouteWithTokenLedger |->
        <<Key("token_program"), Key("program_authority"), Key("user_transfer_authority"),
          Key("source_token_account"), Key("program_source_token_account"),
          Key("program_destination_token_account"), Key("destination_token_account"),
          Key("source_mint"), Key("destination_mint"), OptKey("platform_fee_account"),
          OptKey("token2022_program"), Key("token_ledger"), Key("event_authority"),
          Key("program")>>]

\* The arms of decode_orca_instruction.
OrcaArms ==
    [Swap |->
        <<Key("token_program"), Key("token_authority"), Key("whirlpool"),
          Key("token_owner_account_a"), Key("token_vault_a"),
          Key("token_owner_account_b"), Key("token_vault_b"), Key("tick_array0"),
          Key("tick_array1"), Key("tick_array2"), Key("oracle")>>,
     SwapV2 |->
        <<Key("token_program_a"), Key("token_program_b"), Key("memo_program"),
          Key("token_authority"), Key("whirlpool"), Key("token_mint_a"),
          Key("token_mint_b"), Key("token_owner_account_a"), Key("token_vault_a"),
          Key("token_owner_account_b"), Key("token_vault_b"), Key("tick_array0"),
          Key("tick_array1"), Key("tick_array2"), Key("oracle")>>,
     InitializePool |->
        <<Key("whirlpools_config"), Key("token_mint_a"), Key("token_mint_b"),
          Key("funder"), Key("whirlpool"), Key("token_vault_a"), Key("token_vault_b"),
          Key("fee_tier"), Key("token_program"), Key("system_program"), Key("rent")>>,
     InitializePoolV2 |->
        <<Key("whirlpools_config"), Key("token_mint_a"), Key("token_mint_b"),
          Key("token_badge_a"), Key("token_badge_b"), Key("funder"), Key("whirlpool"),
          Key("token_vault_a"), Key("token_vault_b"), Key("fee_tier"),
          Key("token_program_a"), Key("token_program_b"), Key("system_program"),
          Key("rent")>>,
     IncreaseLiquidity |->
        <<Key("whirlpool"), Key("token_program"), Key("position_authority"),
          Key("position"), Key("position_token_account"), Key("token_owner_account_a"),
          Key("token_owner_account_b"), Key("token_vault_a"), Key("token_vault_b"),
          Key("tick_array_lower"), Key("tick_array_upper")>>,
     IncreaseLiquidityV2 |->
        <<Key("whirlpool"), Key("token_program_a"), Key("token_program_b"),
          Key("memo_program"), Key("position_authority"), Key("position"),
          Key("position_token_account"), Key("token_mint_a"), Key("token_mint_b"),
          Key("token_owner_account_a"), Key("token_owner_account_b"),
          Key("token_vault_a"), Key("token_vault_b"), Key("tick_array_lower"),
          Key("tick_array_upper")>>,
     DecreaseLiquidity |->
        <<Key("whirlpool"), Key("token_program"), Key("position_authority"),
          Key("position"), Key("position_token_account"), Key("token_owner_account_a"),
          Key("token_owner_account_b"), Key("token_vault_a"), Key("token_vault_b"),
          Key("tick_array_lower"), Key("tick_array_upper")>>,
     DecreaseLiquidityV2 |->
        <<Key("whirlpool"), Key("token_program_a"), Key("token_program_b"),
          Key("memo_program"), Key("position_authority"), Key("position"),
          Key("position_token_account"), Key("token_mint_a"), Key("token_mint_b"),
          Key("token_owner_account_a"), Key("token_owner_account_b"),
          Key("token_vault_a"), Key("token_vault_b"), Key("tick_array_lower"),
          Key("tick_array_upper")>>]

\* The arms of decode_raydium_v4_instruction for the two swaps: with more than
\* SWAP_INSTRUCTIONS_ACCOUNT_LENGTH accounts there is one for the target orders.
SwapInstructionsAccountLength == 17

RaydiumSwapArm(length) ==
    <<Key("token_program"), Key("amm_account"), Key("amm_authority"),
      Key("amm_open_orders")>>
       \o (IF length > SwapInstructionsAccountLength THEN <<Key("amm_target_orders")>> ELSE <<>>)
       \o <<Key("amm_coin_vault"), Key("amm_pc_vault"), Key("market_program"),
            Key("market_account"), Key("market_bids"), Key("market_asks"),
            Key("market_event_queue"), Key("market_coin_vault"),
            Key("market_pc_vault"), Key("market_vault_signer"),
            Key("user_source_token_account"), Key("user_destination_token_account"),
            Key("user_wallet_account")>>

-----------------------------------------------------------------------------

\* A transaction as it comes back from the network: its account keys, and the
\* instruction with indexes into them.
Compiled(program, metas, data) ==
    LET Enter(keys, meta) == IF meta.key \in Range(keys) THEN keys ELSE Append(keys, meta.key)
        keys == FoldLeft(Enter, <<program>>, metas)
        Index(key) == CHOOSE i \in DOMAIN keys : keys[i] = key
    IN  [keys |-> keys, program |-> Index(program), data |-> data,
         accounts |-> [i \in DOMAIN metas |-> Index(metas[i].key)]]

\* Mutant: an optional account is read like the others.
AccountKeyAlways(compiled, i, field) == compiled.keys[compiled.accounts[i]]

\* KeysWindow: the i-th account, None for an optional one with the program's key.
AccountKey(compiled, i, field) ==
    LET key == compiled.keys[compiled.accounts[i]]
    IN  IF field.anchorOpt /\ key = compiled.keys[compiled.program] THEN Absent ELSE key

\* The fields of one arm, read in turn.
ReadAccounts(compiled, arm) ==
    [n \in Names(arm) |->
        LET i == CHOOSE j \in DOMAIN arm : arm[j].name = n
        IN  AccountKey(compiled, i, arm[i])]

\* parse_instruction: the arms of the program, Unknown for another discriminator,
\* None for a program that is not decoded.
ParseInstruction(compiled) ==
    LET program == compiled.keys[compiled.program]
        disc == compiled.data.discriminator
        swapArm == RaydiumSwapArm(Len(compiled.accounts))
        arms == IF program = "Jupiter" THEN JupiterArms
                ELSE IF program = "Whirlpools" THEN OrcaArms
                ELSE [SwapBaseIn |-> swapArm, SwapBaseOut |-> swapArm]
    IN  IF program \notin {"Jupiter", "Whirlpools", "Raydium"} THEN [parsed |-> "none"]
        ELSE IF disc \notin DOMAIN arms THEN [parsed |-> "unknown"]
        ELSE [parsed |-> disc, accounts |-> ReadAccounts(compiled, arms[disc]),
              args |-> compiled.data.args]

\* The accessors of the parsed instructions.
User(ix) == ix.accounts["user_transfer_authority"]
BaseInput(ix) == ix.parsed \notin {"ExactOutRoute", "SharedAccountsExactOutRoute"}
SourceMint(ix) ==
    IF ix.parsed \in {"Route", "RouteWithTokenLedger"} THEN Absent
    ELSE ix.accounts["source_mint"]
DestinationMint(ix) == ix.accounts["destination_mint"]
ThresholdArg(ix) == IF BaseInput(ix) THEN "quoted_out_amount" ELSE "quoted_in_amount"
PoolState(ix) ==
    ix.accounts[IF "whirlpool" \in DOMAIN ix.accounts THEN "whirlpool" ELSE "amm_account"]
=============================================================================
