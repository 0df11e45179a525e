SPECIFICATION Spec
CONSTANT Extras = {"uni", "garbage", "second VERIFY"}
PROPERTIES LossIsReported RunIsNoFailure RunIsServed AllEnds
