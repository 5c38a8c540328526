------------------------------ MODULE MCWsData ------------------------------
(* Month ends and starts of three years, one of them a leap year; graphs of  *)
(* up to three points over three days, with gaps, equal moments and amounts  *)
(* at half a cent; feeds of up to three rows of every shape.                 *)
EXTENDS WsData
MCTodays == {t \in [y : 2023 .. 2025, m : 1 .. 12, d : {1, 2, 15, 27, 28, 29, 30, 31}] : t.d <= MonthLength(t.y, t.m)}
MCPoint(at, v, p) == [at |-> at, value |-> v, deposits |-> p, complete |-> TRUE]
MCPoints ==
  {MCPoint(at, v, p) : at \in {0, 1, 2, 4, 5}, v \in {0, 4, 15}, p \in {0, 6}}
    \union {[at |-> 2, value |-> 0, deposits |-> 0, complete |-> FALSE]}
MCGraphs == UNION {[1 .. n -> MCPoints] : n \in 1 .. 3}
MCWindows == {<<0, 2>>, <<1, 1>>}
M(shape, type, party, account, amount, cancelled, dated) ==
  [shape |-> shape, type |-> type, party |-> party, account |-> account,
   amount |-> amount, cancelled |-> cancelled, dated |-> dated]
MCMeanings ==
  { M("payment", "Purchase", "shop", "Chequing", {-5}, FALSE, TRUE),
    M("payment", "Purchase", "shop", "Chequing", {-5}, TRUE, TRUE),
    M("payment", "Interac e-Transfer", "Ann", "Joint", {7}, FALSE, TRUE),
    M("security", "Market buy", "T", "TFSA", {5}, FALSE, TRUE),
    M("security", "Limit sell", "T", "TFSA", {5}, FALSE, TRUE),
    M("security", "Dividend", "T", "TFSA", {}, FALSE, TRUE),
    M("security", "Dividend", "T", "Joint", {1}, FALSE, FALSE),
    M("security", "Sold asset", "T", "TFSA", {3}, FALSE, TRUE),
    M("legs", "Transfer", "TFSA", "Chequing", {4}, FALSE, TRUE),
    M("legs", "Transfer", "bank", "Joint", {4}, FALSE, TRUE),
    M("legs", "Transfer", "TFSA", "Joint", {4}, FALSE, TRUE),
    M("from", "Direct deposit", "work", "Chequing", {9}, FALSE, TRUE),
    M("fee", "ATM fee reimbursement", "", "Chequing", {2}, FALSE, TRUE),
    M("between", "Cash back", "Joint", "TFSA", {1}, FALSE, TRUE),
    M("between", "Cash back", "TFSA", "Chequing", {1}, FALSE, TRUE) }
=============================================================================
