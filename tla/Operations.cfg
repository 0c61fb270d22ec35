SPECIFICATION OpsFairSpec
CONSTANTS
    u1 = u1
    u2 = u2
    poll = poll
    Users <- MCUsers
    Poller = poll
    Tasks <- MCTasks
    Outputs = {1}
    Sources = {0, 1, 17}
    Percents = {99}
    CliCalls <- MCCliCalls
    Limit <- MCLimit
INVARIANTS OpsTypeOK ClearsWhatFeedsIt CommandsAreBuilt
PROPERTY ViewSettles
