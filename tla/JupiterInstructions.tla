------------------------ MODULE JupiterInstructions -------------------------
(***************************************************************************)
(* The generated client of the Jupiter aggregator, version 6: its          *)
(* instructions in their four forms.                                       *)
(***************************************************************************)
EXTENDS InstructionForms

JupiterProgram == "Jupiter"

ExactOutRoute == Instruction(JupiterProgram, "ExactOutRoute",
    <<Ro("token_program"), Sig("user_transfer_authority"),
      Wr("user_source_token_account"), Wr("user_destination_token_account"),
      Opt(Wr("destination_token_account")), Ro("source_mint"), Ro("destination_mint"),
      Opt(Wr("platform_fee_account")), Opt(Ro("token2022_program")),
      Ro("event_authority"), Ro("program")>>,
    <<Arg("route_plan"), Arg("out_amount"), Arg("quoted_in_amount"),
      Arg("slippage_bps"), Arg("platform_fee_bps")>>)
ExactOutRouteBuilder == Builder(ExactOutRoute, {TokenProgram})
ExactOutRouteCpi == Cpi(ExactOutRoute)
ExactOutRouteCpiBuilder == CpiBuilder(ExactOutRouteCpi)

Route == Instruction(JupiterProgram, "Route",
    <<Ro("token_program"), Sig("user_transfer_authority"),
      Wr("user_source_token_account"), Wr("user_destination_token_account"),
      Opt(Wr("destination_token_account")), Ro("destination_mint"),
      Opt(Wr("platform_fee_account")), Ro("event_authority"), Ro("program")>>,
    <<Arg("route_plan"), Arg("in_amount"), Arg("quoted_out_amount"),
      Arg("slippage_bps"), Arg("platform_fee_bps")>>)
RouteBuilder == Builder(Route, {TokenProgram})
RouteCpi == Cpi(Route)
RouteCpiBuilder == CpiBuilder(RouteCpi)

RouteWithTokenLedger == Instruction(JupiterProgram, "RouteWithTokenLedger",
    <<Ro("token_program"), Sig("user_transfer_authority"),
      Wr("user_source_token_account"), Wr("user_destination_token_account"),
      Opt(Wr("destination_token_account")), Ro("destination_mint"),
      Opt(Wr("platform_fee_account")), Ro("token_ledger"), Ro("event_authority"),
      Ro("program")>>,
    <<Arg("route_plan"), Arg("quoted_out_amount"), Arg("slippage_bps"),
      Arg("platform_fee_bps")>>)
RouteWithTokenLedgerBuilder == Builder(RouteWithTokenLedger, {TokenProgram})
RouteWithTokenLedgerCpi == Cpi(RouteWithTokenLedger)
RouteWithTokenLedgerCpiBuilder == CpiBuilder(RouteWithTokenLedgerCpi)

SharedAccountsExactOutRoute == Instruction(JupiterProgram, "SharedAccountsExactOutRoute",
    <<Ro("token_program"), Ro("program_authority"), Sig("user_transfer_authority"),
      Wr("source_token_account"), Wr("program_source_token_account"),
      Wr("program_destination_token_account"), Wr("destination_token_account"),
      Ro("source_mint"), Ro("destination_mint"), Opt(Wr("platform_fee_account")),
      Opt(Ro("token2022_program")), Ro("event_authority"), Ro("program")>>,
    <<Arg("id"), Arg("route_plan"), Arg("out_amount"), Arg("quoted_in_amount"),
      Arg("slippage_bps"), Arg("platform_fee_bps")>>)
SharedAccountsExactOutRouteBuilder == Builder(SharedAccountsExactOutRoute, {TokenProgram})
SharedAccountsExactOutRouteCpi == Cpi(SharedAccountsExactOutRoute)
SharedAccountsExactOutRouteCpiBuilder == CpiBuilder(SharedAccountsExactOutRouteCpi)

SharedAccountsRoute == Instruction(JupiterProgram, "SharedAccountsRoute",
    <<Ro("token_program"), Ro("program_authority"), Sig("user_transfer_authority"),
      Wr("source_token_account"), Wr("program_source_token_account"),
      Wr("program_destination_token_account"), Wr("destination_token_account"),
      Ro("source_mint"), Ro("destination_mint"), Opt(Wr("platform_fee_account")),
      Opt(Ro("token2022_program")), Ro("event_authority"), Ro("program")>>,
    <<Arg("id"), Arg("route_plan"), Arg("in_amount"), Arg("quoted_out_amount"),
      Arg("slippage_bps"), Arg("platform_fee_bps")>>)
SharedAccountsRouteBuilder == Builder(SharedAccountsRoute, {TokenProgram})
SharedAccountsRouteCpi == Cpi(SharedAccountsRoute)
SharedAccountsRouteCpiBuilder == CpiBuilder(SharedAccountsRouteCpi)

SharedAccountsRouteWithTokenLedger == Instruction(JupiterProgram, "SharedAccountsRouteWithTokenLedger",
    <<Ro("token_program"), Ro("program_authority"), Sig("user_transfer_authority"),
      Wr("source_token_account"), Wr("program_source_token_account"),
      Wr("program_destination_token_account"), Wr("destination_token_account"),
      Ro("source_mint"), Ro("destination_mint"), Opt(Wr("platform_fee_account")),
      Opt(Ro("token2022_program")), Ro("token_ledger"), Ro("event_authority"),
      Ro("program")>>,
    <<Arg("id"), Arg("route_plan"), Arg("quoted_out_amount"), Arg("slippage_bps"),
      Arg("platform_fee_bps")>>)
SharedAccountsRouteWithTokenLedgerBuilder == Builder(SharedAccountsRouteWithTokenLedger, {TokenProgram})
SharedAccountsRouteWithTokenLedgerCpi == Cpi(SharedAccountsRouteWithTokenLedger)
SharedAccountsRouteWithTokenLedgerCpiBuilder == CpiBuilder(SharedAccountsRouteWithTokenLedgerCpi)

\* Every form of every instruction.
JupiterForms ==
    {ExactOutRoute, ExactOutRouteBuilder, ExactOutRouteCpi, ExactOutRouteCpiBuilder,
     Route, RouteBuilder, RouteCpi, RouteCpiBuilder, RouteWithTokenLedger,
     RouteWithTokenLedgerBuilder, RouteWithTokenLedgerCpi,
     RouteWithTokenLedgerCpiBuilder, SharedAccountsExactOutRoute,
     SharedAccountsExactOutRouteBuilder, SharedAccountsExactOutRouteCpi,
     SharedAccountsExactOutRouteCpiBuilder, SharedAccountsRoute,
     SharedAccountsRouteBuilder, SharedAccountsRouteCpi, SharedAccountsRouteCpiBuilder,
     SharedAccountsRouteWithTokenLedger, SharedAccountsRouteWithTokenLedgerBuilder,
     SharedAccountsRouteWithTokenLedgerCpi,
     SharedAccountsRouteWithTokenLedgerCpiBuilder}
=============================================================================
