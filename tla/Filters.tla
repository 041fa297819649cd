------------------------------ MODULE Filters ------------------------------
(***************************************************************************)
(* The filters of external queries (query.rs FilterExpr, ExternalFilter)   *)
(* and the enumeration they narrow.  An expression is a record: op is eq,  *)
(* gte, with or without on a type, or and, or, not over expressions.       *)
(* Arguments map <<scope, type>> and <<None, type>> to values.             *)
(***************************************************************************)
EXTENDS Queries

\* QueryArgs::get: the scoped argument, else the shared one.
Arg(args, scope, c) ==
    IF <<scope, c>> \in DOMAIN args THEN args[<<scope, c>>] ELSE args[<<None, c>>]

\* FilterExpr::matches
RECURSIVE ExprMatches(_, _, _, _, _)
ExprMatches(w, args, scope, x, e) ==
    CASE x.op = "eq" -> Has(w, x.type, e) /\ Entry(w, x.type, e).value = Arg(args, scope, x.type)
      [] x.op = "gte" -> Has(w, x.type, e) /\ Entry(w, x.type, e).value >= Arg(args, scope, x.type)
      [] x.op = "with" -> Has(w, x.type, e)
      [] x.op = "without" -> ~Has(w, x.type, e)
      [] x.op = "and" -> /\ ExprMatches(w, args, scope, x.left, e)
                         /\ ExprMatches(w, args, scope, x.right, e)
      [] x.op = "or" -> \/ ExprMatches(w, args, scope, x.left, e)
                        \/ ExprMatches(w, args, scope, x.right, e)
      [] x.op = "not" -> ~ExprMatches(w, args, scope, x.left, e)

RECURSIVE EitherCandidates(_, _, _, _)
EitherCandidates(w, args, scope, x) ==
    CASE x.op = "eq" -> IF Fingerprint(x.type, Arg(args, scope, x.type)) = None THEN None
                        ELSE Bucket(w, x.type, Fingerprint(x.type, Arg(args, scope, x.type)))
      [] x.op = "with" -> StoreOf(w, x.type)
      [] x.op \in {"and", "or"} ->
             LET left == EitherCandidates(w, args, scope, x.left)
             IN  IF left # None THEN left ELSE EitherCandidates(w, args, scope, x.right)
      [] OTHER -> None

\* FilterExpr::candidates: an index bucket or a store; a conjunction takes its
\* left side's, else its right side's; nothing narrows the rest.
RECURSIVE ExprCandidates(_, _, _, _)
ExprCandidates(w, args, scope, x) ==
    CASE x.op = "eq" -> IF Fingerprint(x.type, Arg(args, scope, x.type)) = None THEN None
                        ELSE Bucket(w, x.type, Fingerprint(x.type, Arg(args, scope, x.type)))
      [] x.op = "with" -> StoreOf(w, x.type)
      [] x.op = "and" -> LET left == ExprCandidates(w, args, scope, x.left)
                         IN  IF left # None THEN left ELSE ExprCandidates(w, args, scope, x.right)
      [] OTHER -> None

\* external_filtered_rows
ExternalRows(w, args, scope, q, x) ==
    LET candidates == ExprCandidates(w, args, scope, x)
    IN  {e \in IF candidates = None THEN Rows(w, q) ELSE RowsHinted(w, q, candidates) :
            ExprMatches(w, args, scope, x, e)}

\* external_filtered_cow_rows and external_mut_rows, over one store
ExternalMutRows(w, args, scope, c, x) ==
    LET candidates == ExprCandidates(w, args, scope, x)
        rows == IF candidates = None THEN StoreOf(w, c) ELSE {e \in candidates : Has(w, c, e)}
    IN  {<<e, RevisionOf(w, c, e)>> : e \in {r \in rows : ExprMatches(w, args, scope, x, r)}}
=============================================================================
