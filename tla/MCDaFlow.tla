--------------------------- MODULE MCDaFlow ---------------------------
EXTENDS DaFlow

\* Not sorted, as a caller may give them.
NodesDef == << 3, 1, 4, 2 >>

\* Two whole rows; a row and a half; a row as long as there are nodes, column 7 having a gap.
PublicationsDef ==
  { [data |-> << 5, 0, 7, 1 >>, column_count |-> 2],
    [data |-> << 1, 2, 3 >>, column_count |-> 2],
    [data |-> << 1, 1, 0, 2 >>, column_count |-> 4] }

\* Never zero.
ChallengeDef(commitments) == 3 + (sum_of(commitments) % 90)

\* One more, and what makes up for that when it is added to the chunk before.
ChangesDef ==
  {0, 1, mod(- ChallengeDef(commitments_of(row_polynomials(
                  [data |-> << 5, 0, 7, 1 >>, column_count |-> 2]))))}
==========================================================================
