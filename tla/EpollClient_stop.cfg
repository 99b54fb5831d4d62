SPECIFICATION ClientSpec
CONSTANT MaxBytes = 1
PROPERTY EndsCleanly
CHECK_DEADLOCK FALSE
