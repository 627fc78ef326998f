------------------------------- MODULE MCStock -------------------------------
(***************************************************************************)
(* Instances of StockTx for TLC: two batches, two orders, and jobs of every*)
(* kind that meet on them.                                                 *)
(***************************************************************************)
EXTENDS StockTx

MCOrders == {1, 2}
MCBatches == {1, 2}
MCStock == <<2, 1>>
MCProducts == [b \in MCBatches |-> "kurti"]   \* both are batches of one product

Job(kind, orders, want) == [kind |-> kind, orders |-> orders, want |-> want]

\* All that can be asked of the two orders and the two batches in units of one or two.
MCJobs ==
    {Job("place", {1}, <<1, 1>>), Job("place", {2}, <<2, 0>>),
     Job("edit", {1}, <<0, 1>>), Job("edit", {2}, <<1, 1>>),
     Job("confirm", {1}, <<0, 0>>), Job("cancel", {1}, <<0, 0>>), Job("cancel", {2}, <<0, 0>>),
     Job("dispatch", {1, 2}, <<0, 0>>), Job("dispatch", {2}, <<0, 0>>),
     Job("sell", {}, <<1, 1>>), Job("sell", {}, <<2, 0>>), Job("sell", {}, <<0, 1>>),
     Job("adjust", {}, <<1, 1>>), Job("adjust", {}, <<-1, 1>>)}

Stand(s1, h1, s2, h2) == [status |-> <<s1, s2>>, held |-> <<h1, h2>>]

\* Nothing placed yet; one order placed and one to place; both confirmed and holding all there is.
MCOpenings ==
    {Stand("Draft", <<0, 0>>, "Draft", <<0, 0>>),
     Stand("Draft", <<0, 0>>, "Pending", <<1, 0>>),
     Stand("Confirmed", <<1, 1>>, "Confirmed", <<1, 0>>)}

Symmetry == Permutations(Requests)
=============================================================================
