------------------------------ MODULE MCPayment ------------------------------
\* One order paid at the second attempt at the earliest, two requests at once,
\* and one fault: a success, two things an attempt may come to before, and
\* a gateway that gives one attempt an id and the other none.
EXTENDS Payment

CONSTANT p1
MCCode == {"2", "-2"}
MCPaymentId == {p1, NoId}
=============================================================================
