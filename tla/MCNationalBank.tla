--------------------------- MODULE MCNationalBank ---------------------------
(* Three accounts, two of the same slug and one whose name is like a second  *)
(* copy of it; tables with and without pending and unreadable rows.          *)
EXTENDS NationalBank
MCSlug == [a |-> <<0>>, b |-> <<0, 2>>, c |-> <<0>>]
Row(day, account, kind) == [day |-> day, account |-> account, kind |-> kind]
MCTables ==
  {
    << Row(3, "a", "pending"), Row(3, "a", "posted"), Row(2, "b", "posted"), Row(2, "c", "posted"), Row(1, "a", "posted") >>,
    << Row(3, "b", "posted"), Row(3, "c", "posted"), Row(2, "a", "posted"), Row(2, "a", "posted") >>,
    << Row(2, "a", "posted"), Row(2, "a", "garbled"), Row(1, "b", "posted") >> }
=============================================================================
