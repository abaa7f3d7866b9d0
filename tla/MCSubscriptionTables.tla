-------------------------- MODULE MCSubscriptionTables --------------------------
EXTENDS SubscriptionTables

MCItems == {"s1", "s2", "s3", "s4"}
=================================================================================
