----------------------------- MODULE MCOrderBook -----------------------------
\* OrderBook for TLC: the sizes are given by the configurations.
EXTENDS OrderBook
===============================================================================
