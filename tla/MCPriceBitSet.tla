---------------------------- MODULE MCPriceBitSet ----------------------------
\* Model checking of PriceBitSetSpec with words of two bits.
EXTENDS PriceBitSetSpec
===============================================================================
