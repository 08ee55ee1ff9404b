---------------------------- MODULE MCRuleChain ----------------------------
EXTENDS RuleChain
=============================================================================
