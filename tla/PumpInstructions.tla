-------------------------- MODULE PumpInstructions --------------------------
(***************************************************************************)
(* The generated client of pump.fun: its instructions in their four forms.  *)
(***************************************************************************)
EXTENDS InstructionForms

PumpProgram == "Pump"

Buy == Instruction(PumpProgram, "Buy",
    <<Ro("global"), Wr("fee_recipient"), Ro("mint"), Wr("bonding_curve"),
      Wr("associated_bonding_curve"), Wr("associated_user"), WrSig("user"),
      Ro("system_program"), Ro("token_program"), Ro("rent"), Ro("event_authority"),
      Ro("program")>>,
    <<Arg("amount"), Arg("max_sol_cost")>>)
BuyBuilder == Builder(Buy, {SystemProgram, TokenProgram, Rent})
BuyCpi == Cpi(Buy)
BuyCpiBuilder == CpiBuilder(BuyCpi)

Create == Instruction(PumpProgram, "Create",
    <<WrSig("mint"), Ro("mint_authority"), Wr("bonding_curve"),
      Wr("associated_bonding_curve"), Ro("global"), Ro("mpl_token_metadata"),
      Wr("metadata"), WrSig("user"), Ro("system_program"), Ro("token_program"),
      Ro("associated_token_program"), Ro("rent"), Ro("event_authority"),
      Ro("program")>>,
    <<Arg("name"), Arg("symbol"), Arg("uri")>>)
CreateBuilder == Builder(Create, {SystemProgram, TokenProgram, Rent})
CreateCpi == Cpi(Create)
CreateCpiBuilder == CpiBuilder(CreateCpi)

Initialize == Instruction(PumpProgram, "Initialize",
    <<Wr("global"), WrSig("user"), Ro("system_program")>>,
    <<>>)
InitializeBuilder == Builder(Initialize, {SystemProgram})
InitializeCpi == Cpi(Initialize)
InitializeCpiBuilder == CpiBuilder(InitializeCpi)

Sell == Instruction(PumpProgram, "Sell",
    <<Ro("global"), Wr("fee_recipient"), Ro("mint"), Wr("bonding_curve"),
      Wr("associated_bonding_curve"), Wr("associated_user"), WrSig("user"),
      Ro("system_program"), Ro("associated_token_program"), Ro("token_program"),
      Ro("event_authority"), Ro("program")>>,
    <<Arg("amount"), Arg("min_sol_output")>>)
SellBuilder == Builder(Sell, {SystemProgram, TokenProgram})
SellCpi == Cpi(Sell)
SellCpiBuilder == CpiBuilder(SellCpi)

SetParams == Instruction(PumpProgram, "SetParams",
    <<Wr("global"), WrSig("user"), Ro("system_program"), Ro("event_authority"),
      Ro("program")>>,
    <<Arg("fee_recipient"), Arg("initial_virtual_token_reserves"),
      Arg("initial_virtual_sol_reserves"), Arg("initial_real_token_reserves"),
      Arg("token_total_supply"), Arg("fee_basis_points")>>)
SetParamsBuilder == Builder(SetParams, {SystemProgram})
SetParamsCpi == Cpi(SetParams)
SetParamsCpiBuilder == CpiBuilder(SetParamsCpi)

Withdraw == Instruction(PumpProgram, "Withdraw",
    <<Ro("global"), Wr("last_withdraw"), Ro("mint"), Wr("bonding_curve"),
      Wr("associated_bonding_curve"), Wr("associated_user"), WrSig("user"),
      Ro("system_program"), Ro("token_program"), Ro("rent"), Ro("event_authority"),
      Ro("program")>>,
    <<>>)
WithdrawBuilder == Builder(Withdraw, {SystemProgram, TokenProgram, Rent})
WithdrawCpi == Cpi(Withdraw)
WithdrawCpiBuilder == CpiBuilder(WithdrawCpi)

\* Every form of every instruction.
PumpForms ==
    {Buy, BuyBuilder, BuyCpi, BuyCpiBuilder, Create, CreateBuilder, CreateCpi,
     CreateCpiBuilder, Initialize, InitializeBuilder, InitializeCpi,
     InitializeCpiBuilder, Sell, SellBuilder, SellCpi, SellCpiBuilder, SetParams,
     SetParamsBuilder, SetParamsCpi, SetParamsCpiBuilder, Withdraw, WithdrawBuilder,
     WithdrawCpi, WithdrawCpiBuilder}
=============================================================================
