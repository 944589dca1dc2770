----------------------- MODULE WhirlpoolsInstructions -----------------------
(***************************************************************************)
(* The generated client of Orca's whirlpools: its instructions in their    *)
(* four forms.                                                             *)
(***************************************************************************)
EXTENDS InstructionForms

WhirlpoolsProgram == "Whirlpools"

DecreaseLiquidity == Instruction(WhirlpoolsProgram, "DecreaseLiquidity",
    <<Wr("whirlpool"), Ro("token_program"), Sig("position_authority"), Wr("position"),
      Ro("position_token_account"), Wr("token_owner_account_a"),
      Wr("token_owner_account_b"), Wr("token_vault_a"), Wr("token_vault_b"),
      Wr("tick_array_lower"), Wr("tick_array_upper")>>,
    <<Arg("liquidity_amount"), Arg("token_min_a"), Arg("token_min_b")>>)
DecreaseLiquidityBuilder == Builder(DecreaseLiquidity, {TokenProgram})
DecreaseLiquidityCpi == Cpi(DecreaseLiquidity)
DecreaseLiquidityCpiBuilder == CpiBuilder(DecreaseLiquidityCpi)

DecreaseLiquidityV2 == Instruction(WhirlpoolsProgram, "DecreaseLiquidityV2",
    <<Wr("whirlpool"), Ro("token_program_a"), Ro("token_program_b"), Ro("memo_program"),
      Sig("position_authority"), Wr("position"), Ro("position_token_account"),
      Ro("token_mint_a"), Ro("token_mint_b"), Wr("token_owner_account_a"),
      Wr("token_owner_account_b"), Wr("token_vault_a"), Wr("token_vault_b"),
      Wr("tick_array_lower"), Wr("tick_array_upper")>>,
    <<Arg("liquidity_amount"), Arg("token_min_a"), Arg("token_min_b"),
      OptArg("remaining_accounts_info")>>)
DecreaseLiquidityV2Builder == Builder(DecreaseLiquidityV2, {})
DecreaseLiquidityV2Cpi == Cpi(DecreaseLiquidityV2)
DecreaseLiquidityV2CpiBuilder == CpiBuilder(DecreaseLiquidityV2Cpi)

IncreaseLiquidity == Instruction(WhirlpoolsProgram, "IncreaseLiquidity",
    <<Wr("whirlpool"), Ro("token_program"), Sig("position_authority"), Wr("position"),
      Ro("position_token_account"), Wr("token_owner_account_a"),
      Wr("token_owner_account_b"), Wr("token_vault_a"), Wr("token_vault_b"),
      Wr("tick_array_lower"), Wr("tick_array_upper")>>,
    <<Arg("liquidity_amount"), Arg("token_max_a"), Arg("token_max_b")>>)
IncreaseLiquidityBuilder == Builder(IncreaseLiquidity, {TokenProgram})
IncreaseLiquidityCpi == Cpi(IncreaseLiquidity)
IncreaseLiquidityCpiBuilder == CpiBuilder(IncreaseLiquidityCpi)

IncreaseLiquidityV2 == Instruction(WhirlpoolsProgram, "IncreaseLiquidityV2",
    <<Wr("whirlpool"), Ro("token_program_a"), Ro("token_program_b"), Ro("memo_program"),
      Sig("position_authority"), Wr("position"), Ro("position_token_account"),
      Ro("token_mint_a"), Ro("token_mint_b"), Wr("token_owner_account_a"),
      Wr("token_owner_account_b"), Wr("token_vault_a"), Wr("token_vault_b"),
      Wr("tick_array_lower"), Wr("tick_array_upper")>>,
    <<Arg("liquidity_amount"), Arg("token_max_a"), Arg("token_max_b"),
      OptArg("remaining_accounts_info")>>)
IncreaseLiquidityV2Builder == Builder(IncreaseLiquidityV2, {})
IncreaseLiquidityV2Cpi == Cpi(IncreaseLiquidityV2)
IncreaseLiquidityV2CpiBuilder == CpiBuilder(IncreaseLiquidityV2Cpi)

InitializePool == Instruction(WhirlpoolsProgram, "InitializePool",
    <<Ro("whirlpools_config"), Ro("token_mint_a"), Ro("token_mint_b"), WrSig("funder"),
      Wr("whirlpool"), WrSig("token_vault_a"), WrSig("token_vault_b"), Ro("fee_tier"),
      Ro("token_program"), Ro("system_program"), Ro("rent")>>,
    <<Arg("whirlpool_bump"), Arg("tick_spacing"), Arg("initial_sqrt_price")>>)
InitializePoolBuilder == Builder(InitializePool, {TokenProgram, SystemProgram, Rent})
InitializePoolCpi == Cpi(InitializePool)
InitializePoolCpiBuilder == CpiBuilder(InitializePoolCpi)

InitializePoolV2 == Instruction(WhirlpoolsProgram, "InitializePoolV2",
    <<Ro("whirlpools_config"), Ro("token_mint_a"), Ro("token_mint_b"),
      Ro("token_badge_a"), Ro("token_badge_b"), WrSig("funder"), Wr("whirlpool"),
      WrSig("token_vault_a"), WrSig("token_vault_b"), Ro("fee_tier"),
      Ro("token_program_a"), Ro("token_program_b"), Ro("system_program"), Ro("rent")>>,
    <<Arg("tick_spacing"), Arg("initial_sqrt_price")>>)
InitializePoolV2Builder == Builder(InitializePoolV2, {SystemProgram, Rent})
InitializePoolV2Cpi == Cpi(InitializePoolV2)
InitializePoolV2CpiBuilder == CpiBuilder(InitializePoolV2Cpi)

Swap == Instruction(WhirlpoolsProgram, "Swap",
    <<Ro("token_program"), Sig("token_authority"), Wr("whirlpool"),
      Wr("token_owner_account_a"), Wr("token_vault_a"), Wr("token_owner_account_b"),
      Wr("token_vault_b"), Wr("tick_array0"), Wr("tick_array1"), Wr("tick_array2"),
      Ro("oracle")>>,
    <<Arg("amount"), Arg("other_amount_threshold"), Arg("sqrt_price_limit"),
      Arg("amount_specified_is_input"), Arg("a_to_b")>>)
SwapBuilder == Builder(Swap, {TokenProgram})
SwapCpi == Cpi(Swap)
SwapCpiBuilder == CpiBuilder(SwapCpi)

SwapV2 == Instruction(WhirlpoolsProgram, "SwapV2",
    <<Ro("token_program_a"), Ro("token_program_b"), Ro("memo_program"),
      Sig("token_authority"), Wr("whirlpool"), Ro("token_mint_a"), Ro("token_mint_b"),
      Wr("token_owner_account_a"), Wr("token_vault_a"), Wr("token_owner_account_b"),
      Wr("token_vault_b"), Wr("tick_array0"), Wr("tick_array1"), Wr("tick_array2"),
      Wr("oracle")>>,
    <<Arg("amount"), Arg("other_amount_threshold"), Arg("sqrt_price_limit"),
      Arg("amount_specified_is_input"), Arg("a_to_b"),
      OptArg("remaining_accounts_info")>>)
SwapV2Builder == Builder(SwapV2, {})
SwapV2Cpi == Cpi(SwapV2)
SwapV2CpiBuilder == CpiBuilder(SwapV2Cpi)

\* Every form of every instruction.
WhirlpoolsForms ==
    {DecreaseLiquidity, DecreaseLiquidityBuilder, DecreaseLiquidityCpi,
     DecreaseLiquidityCpiBuilder, DecreaseLiquidityV2, DecreaseLiquidityV2Builder,
     DecreaseLiquidityV2Cpi, DecreaseLiquidityV2CpiBuilder, IncreaseLiquidity,
     IncreaseLiquidityBuilder, IncreaseLiquidityCpi, IncreaseLiquidityCpiBuilder,
     IncreaseLiquidityV2, IncreaseLiquidityV2Builder, IncreaseLiquidityV2Cpi,
     IncreaseLiquidityV2CpiBuilder, InitializePool, InitializePoolBuilder,
     InitializePoolCpi, InitializePoolCpiBuilder, InitializePoolV2,
     InitializePoolV2Builder, InitializePoolV2Cpi, InitializePoolV2CpiBuilder, Swap,
     SwapBuilder, SwapCpi, SwapCpiBuilder, SwapV2, SwapV2Builder, SwapV2Cpi,
     SwapV2CpiBuilder}
=============================================================================
