SPECIFICATION DocumentsSpec
VIEW Seen
INVARIANT SomeClaimKept
CHECK_DEADLOCK FALSE
