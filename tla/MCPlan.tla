------------------------------- MODULE MCPlan -------------------------------
EXTENDS Plan

Slots == 0..(MaxSlots - 1)
=============================================================================
