SPECIFICATION Spec
CONSTANTS Inventory <- MCInventory
 Patterns <- MCPatterns
 Limits <- MCLimits
 Chains <- MCChains
 Calls <- MCCalls
 Modes = {"off", "warn", "fail"}
 Forbidden = {"shell"}
 InterruptOn = {"pay"}
 Attempts = 2
 MaxModelCalls= 2
 MaxToolCalls= 1
INVARIANT WeakIsReviewed
CHECK_DEADLOCK FALSE
