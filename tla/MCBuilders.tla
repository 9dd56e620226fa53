------------------------------- MODULE MCBuilders ------------------------------
(* Two columns of numbers and one of strings, NULLs among them.            *)
EXTENDS Builders

MCRows ==
    LET Row(a, b, c) == [a |-> a, b |-> b, c |-> c]
        N(n) == NewInteger(n)
    IN  <<Row(N(1), N(1), NewString(<<120>>)), Row(N(2), N(1), NullValue),
          Row(N(1), N(2), NewString(<<121>>)), Row(NullValue, N(2), NewString(<<120>>)),
          Row(N(2), N(2), NewString(<<120>>))>>

(* Such as x"y and x`y.                                                    *)
MCQuoteIn == [xdqy |-> DoubleQuote, xbqy |-> BackQuote]

On(column, op, value) == [column |-> column, op |-> op, value |-> value]

MCMoreTests ==
    {On("b", "<", NewInteger(2)), On("a", "IS NULL", NullValue)}
MCFirstTests ==
    MCMoreTests \cup {On("a", op, NewInteger(2)) : op \in {"=", "!=", "<=", ">", ">="}}
      \cup {On("c", "LIKE", NewString(<<120>>)), On("c", "IS NOT NULL", NullValue),
            On("b", "IN", NewInteger(1)), On("b", "=", NullValue)}
===============================================================================
