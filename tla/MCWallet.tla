------------------------------ MODULE MCWallet ------------------------------
EXTENDS Wallet

\* With the fee 1, the second amount does not fit a word of 8; the third needs outputs
\* whose sum does not.
MCPayments == {<<Second, 1>>, <<Peer, 7>>, <<Peer, 6>>}
=============================================================================
