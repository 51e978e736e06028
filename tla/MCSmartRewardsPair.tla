------------------------- MODULE MCSmartRewardsPair -------------------------
EXTENDS MCSmartRewards, SmartRewardsPair
=============================================================================
